------------------------------ MODULE MCStaking ------------------------------
(* Instance of Staking. *)
EXTENDS Staking, TLC

MCSymmetry == Permutations(Account)
=============================================================================
