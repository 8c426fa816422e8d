--------------------------- MODULE MCReportLookup ---------------------------
(* Instance of the look-ups and of a consumer that reads through them: one *)
(* query identifier with a longer series.                                  *)
EXTENDS UsingTellor
=============================================================================
