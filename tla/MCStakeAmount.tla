---------------------------- MODULE MCStakeAmount ----------------------------
(* Instance of StakeAmount. *)
EXTENDS StakeAmount
=============================================================================
