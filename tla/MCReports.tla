----------------------------- MODULE MCReports -----------------------------
(* Instance of Reports: two query identifiers, two reporters. *)
EXTENDS Reports
=============================================================================
