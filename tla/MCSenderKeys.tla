----------------------------- MODULE MCSenderKeys -----------------------------
(***************************************************************************)
(* Instance of SenderKeys: two sends and two workers, and enough stanzas   *)
(* and keys for keys passed over, kept, used late and replaced.            *)
(***************************************************************************)
EXTENDS SenderKeys, TLC

CONSTANTS s1, s2, w1, w2

MCSends == {s1, s2}
MCWorkers == {w1, w2}
Sym == Permutations(MCSends) \cup Permutations(MCWorkers)
=============================================================================
