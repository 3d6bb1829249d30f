------------------------------ MODULE MCBridge ------------------------------
(***************************************************************************)
(* Instance of Bridge: prefixes of two bytes, so that a prefix can be cut  *)
(* in two as well as a payload, and two segments of different length in    *)
(* each direction.                                                         *)
(***************************************************************************)
EXTENDS Bridge

MCSize == <<1, 2>>
=============================================================================
