------------------------- MODULE MCPollingFrequencer -------------------------
(* The frequencers WorkerRole makes (1 s and 40 s), the default one, and the  *)
(* two ends of what the constructor accepts: no time at all and one hour.     *)
EXTENDS PollingFrequencer

MCEstimates == {0, 1000, 40000, MaxEstimate}
=============================================================================
