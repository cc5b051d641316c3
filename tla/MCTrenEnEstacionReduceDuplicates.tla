------------------ MODULE MCTrenEnEstacionReduceDuplicates ------------------
(* Two reports of the same train at the same station a minute apart, and one  *)
(* of another train.                                                          *)
EXTENDS TrenEnEstacionReduceDuplicates, TLC

CONSTANTS m1, m2, m3, mitre, sarmiento

MCArrival == m1 :> [train |-> mitre, time |-> 0]
          @@ m2 :> [train |-> mitre, time |-> 60]
          @@ m3 :> [train |-> sarmiento, time |-> 60]
=============================================================================
