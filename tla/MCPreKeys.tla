----------------------------- MODULE MCPreKeys -----------------------------
(***************************************************************************)
(* Instances of PreKeys.  Three ids and batches of two keys, with a        *)
(* threshold above the batch size, make ids wrap around, be reused and     *)
(* collide.  Two workers interleave in one run, two calls of               *)
(* _check_and_flush_prekeys in the other.                                  *)
(***************************************************************************)
EXTENDS PreKeys, TLC

CONSTANTS c1, c2, w1, w2

OneCall    == {c1}
TwoCalls   == {c1, c2}
OneWorker  == {w1}
TwoWorkers == {w1, w2}
SymmetricWorkers == Permutations(TwoWorkers)
=============================================================================
