---------------------------- MODULE MCGovernance ----------------------------
(* Instance of Governance. *)
EXTENDS Governance, TLC

CONSTANTS a1, a2

MCUserTips == (a1 :> 1 @@ a2 :> 0)
=============================================================================
