------------------------------ MODULE MCSending ------------------------------
(* Two contacts, one of them with a session, in a group and in a list; a   *)
(* message to any of them, while send_empty_message is called twice for    *)
(* the one with the session.                                               *)
EXTENDS Sending, TLC

CONSTANTS account, first, a, b, g, l, s1, e1, e2

MCMembers == (g :> {a, b}) @@ (l :> {a, b})
MCFor == (e1 :> a) @@ (e2 :> a)
=============================================================================
