-------------------------- MODULE PollingFrequencer --------------------------
(***************************************************************************)
(* PollingFrequencer.cs: the object a consumer asks how long to sleep      *)
(* after a poll that found nothing, and tells to speed up after a poll     *)
(* that found something.                                                   *)
(***************************************************************************)
EXTENDS PollingInterval

CONSTANTS Estimates,  \* the processing times, in ms, frequencers are made For
          NoSleep     \* "Current has not been read yet"

VARIABLES floor, ceiling, useGradualDecrease,  \* the readonly fields
          current,                             \* the field
          slept                                \* history: what Current last returned

frequencerVars == <<floor, ceiling, useGradualDecrease, current, slept>>

CeilingMultiplier == 30
FloorMultiplier == 2

\* The first constructor refuses an estimate over one hour.
MaxEstimate == 3600000

ASSUME EstimatesAssumption ==
    \A e \in Estimates : e \in Nat /\ e <= MaxEstimate
ASSUME NoSleepAssumption == NoSleep \notin Int

\* AbstractQueueConsumer.Frequencer: the one made when With() was never called.
DefaultFloor == 60000
DefaultCeiling == 600000

-----------------------------------------------------------------------------
ForEstimate == \E e \in Estimates : /\ floor = e * FloorMultiplier
                                    /\ ceiling = e * CeilingMultiplier

ByDefault == floor = DefaultFloor /\ ceiling = DefaultCeiling

FrequencerInit == /\ ForEstimate \/ ByDefault
                  /\ useGradualDecrease \in BOOLEAN
                  /\ current = floor
                  /\ slept = NoSleep

\* The getter: returns the field, and lengthens the next sleep.
Current == /\ slept' = current
           /\ current' = AfterRead(current, ceiling)
           /\ UNCHANGED <<floor, ceiling, useGradualDecrease>>

Decrease == /\ current' = AfterDecrease(current, floor, useGradualDecrease)
            /\ UNCHANGED <<floor, ceiling, useGradualDecrease, slept>>

FrequencerNext == Current \/ Decrease

FrequencerSpec == FrequencerInit /\ [][FrequencerNext]_frequencerVars

-----------------------------------------------------------------------------
(* Correctness. *)

\* Every field is a number of milliseconds that fits an int.
FrequencerTypeOK == /\ IsInterval(floor) /\ IsInterval(ceiling) /\ IsInterval(current)
                    /\ useGradualDecrease \in BOOLEAN
                    /\ slept = NoSleep \/ IsInterval(slept)

\* After any history of polls the consumer sleeps at least the floor and at most
\* the first doubling of the floor that reaches the ceiling, which is below twice
\* the ceiling and far from Int32.MaxValue: the unchecked doubling never
\* wraps to a negative Thread.Sleep, and halving never lands under the floor.
SleepWithinBackoff ==
    slept # NoSleep => /\ floor <= slept /\ slept <= 16 * floor
                       /\ slept < 2 * ceiling \/ ceiling = 0

\* What the constructor's documentation says of its parameter ceiling: "max
\* milliseconds" (PollingFrequencer.cs:45).  The getter compares before it
\* doubles, so the last doubling overshoots.
NeverSleepsOverCeiling == slept # NoSleep => slept <= ceiling
=============================================================================
