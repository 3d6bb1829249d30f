--------------------------- MODULE MCSessionTasks ---------------------------
(***************************************************************************)
(* Instances of SessionTasks: two tasks of one party, a peer, and few      *)
(* enough keys and messages to see every interleaving of their stores.     *)
(***************************************************************************)
EXTENDS SessionTasks, TLC

CONSTANTS alice, bob, t1, t2

MCParties == {alice, bob}
MCTasks == {t1, t2}
EitherTask == Permutations(MCTasks)
=============================================================================
