--------------------------- MODULE SegmentChannel ---------------------------
(***************************************************************************)
(* What one direction of the TCP bridge promises to the code above it: a   *)
(* channel of whole segments.  However the bytes are cut on the wire, the  *)
(* receiver sees the segments the sender put in, whole, each at most once  *)
(* and in order.  A segment may be lost only together with every segment   *)
(* after it.                                                               *)
(***************************************************************************)
EXTENDS Naturals, Sequences

CONSTANT Segment    \* the segments that may travel on the channel

VARIABLES
    sent,           \* every segment given to the channel, in order
    got             \* every segment the receiver took from it, in order

vars == <<sent, got>>

TypeOK == sent \in Seq(Segment) /\ got \in Seq(Segment)

Init == sent = <<>> /\ got = <<>>

Send(s) == sent' = Append(sent, s) /\ UNCHANGED got

Take ==
    /\ Len(got) < Len(sent)
    /\ got' = Append(got, sent[Len(got) + 1])
    /\ UNCHANGED sent

Next == (\E s \in Segment : Send(s)) \/ Take

Spec == Init /\ [][Next]_vars

(* What was received is an initial part of what was sent. *)
InOrder ==
    /\ Len(got) <= Len(sent)
    /\ \A i \in 1..Len(got) : got[i] = sent[i]
=============================================================================
