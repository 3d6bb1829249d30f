------------------------------- MODULE MCInbox -------------------------------
(***************************************************************************)
(* Instance of Inbox: two workers and two messages of one contact, and     *)
(* two calls for keys, started by the receiver or the application.         *)
(***************************************************************************)
EXTENDS Inbox, TLC

CONSTANTS w1, w2, m1, m2, c1, c2, b

MCWorkers == {w1, w2}
MCMessages == {m1, m2}
MCCalls == {c1, c2}
MCJids == {peer}
MCBases == {b}
Sym == Permutations(MCWorkers) \cup Permutations(MCCalls) \cup Permutations(MCMessages)
=============================================================================
