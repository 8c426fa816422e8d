---------------------------- MODULE MCOnetimeTips ----------------------------
(* Instance of OnetimeTips: one query identifier. *)
EXTENDS OnetimeTips
=============================================================================
