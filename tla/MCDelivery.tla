----------------------------- MODULE MCDelivery -----------------------------
(* The instance of Delivery: it has no constants, its inputs are bounded by *)
(* the messages it tries.                                                   *)
EXTENDS Delivery
=============================================================================
