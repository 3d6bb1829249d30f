---------------------------- MODULE MCMessageLoop ----------------------------
(***************************************************************************)
(* Instance of MessageLoop: two workers, stanzas of every kind, and a      *)
(* queue of few places, so that it fills, ties and holds answers back.     *)
(***************************************************************************)
EXTENDS MessageLoop

CONSTANTS w1, w2, m1, o1, c1, a1, a2

MCWorkers == {w1, w2}
OneMessage == {m1}
OneOffline == {o1}
OneControl == {c1}
TwoAsks == {a1, a2}
=============================================================================
