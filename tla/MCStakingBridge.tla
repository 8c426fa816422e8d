--------------------------- MODULE MCStakingBridge ---------------------------
(* Instance of StakingBridge. *)
EXTENDS StakingBridge, TLC

(* Nothing tells one controller-chain address from another. *)
AddressSymmetry == Permutations(Address)
=============================================================================
