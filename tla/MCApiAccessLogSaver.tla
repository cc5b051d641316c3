------------------------- MODULE MCApiAccessLogSaver -------------------------
(***************************************************************************)
(* Two workers over a few log entries; the limit of 100 deliveries is      *)
(* scaled to 2.  No symmetry: the run checks liveness as well.             *)
(***************************************************************************)
EXTENDS ApiAccessLogSaver
=============================================================================
