---------------------------- MODULE MCWorkerRole ----------------------------
(* The role through stops at any moment, starts that fail and crashes.        *)
EXTENDS WorkerRole
=============================================================================
