----------------------------- MODULE MCRatchet ------------------------------
(***************************************************************************)
(* Instance of Ratchet with each limit at its smallest, so that chains are *)
(* evicted, sessions archived away and gaps too wide within a few steps.   *)
(***************************************************************************)
EXTENDS Ratchet

CONSTANTS alice, bob

MCParties == {alice, bob}
EitherParty == Permutations(MCParties)
=============================================================================
