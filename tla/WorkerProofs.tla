---------------------------- MODULE WorkerProofs ----------------------------
(***************************************************************************)
(* Proofs about the worker's process: how long its polling threads sleep   *)
(* (PollingFrequencer, for every estimate the constructor accepts and the  *)
(* default frequencer), and how it starts and stops (WorkerRole, for any   *)
(* number of failures).                                                    *)
(***************************************************************************)
EXTENDS PollingFrequencer, WorkerRole, TLAPS

\* The interval is always one of five doublings of the floor: the ceiling is 10
\* or 15 floors, so the doubling stops at 16, and halving goes back through
\* the same values.
Doublings == {floor, 2 * floor, 4 * floor, 8 * floor, 16 * floor}

\* The inductive invariant: the shape of the fields, and where the interval is.
BackoffInv == /\ floor \in Nat /\ floor <= 2 * MaxEstimate
              /\ ceiling = 15 * floor \/ ceiling = 10 * floor
              /\ useGradualDecrease \in BOOLEAN
              /\ current \in Doublings
              /\ slept \in Doublings \cup {NoSleep}

LEMMA InitBackoff == FrequencerInit => BackoffInv
  <1> SUFFICES ASSUME FrequencerInit PROVE BackoffInv
    OBVIOUS
  <1>1. /\ floor \in Nat /\ floor <= 2 * MaxEstimate
        /\ ceiling = 15 * floor \/ ceiling = 10 * floor
    <2>1. CASE ForEstimate
      BY <2>1, EstimatesAssumption
         DEF ForEstimate, FloorMultiplier, CeilingMultiplier, MaxEstimate
    <2>2. CASE ByDefault
      BY <2>2 DEF ByDefault, DefaultFloor, DefaultCeiling, MaxEstimate
    <2>3. QED
      BY <2>1, <2>2 DEF FrequencerInit
  <1>2. QED
    BY <1>1 DEF FrequencerInit, BackoffInv, Doublings

\* Reading Current keeps the interval a doubling of the floor: only an interval
\* of at most eight floors is under the ceiling.
LEMMA CurrentKeepsBackoff == BackoffInv /\ Current => BackoffInv'
  <1> SUFFICES ASSUME BackoffInv, Current PROVE BackoffInv'
    OBVIOUS
  <1>1. /\ floor \in Nat /\ floor <= 2 * MaxEstimate
        /\ floor' = floor /\ ceiling' = ceiling
    BY DEF BackoffInv, Current, MaxEstimate
  <1>2. current' \in Doublings
    <2>1. Twice(current) = 2 * current
      BY <1>1 DEF BackoffInv, Doublings, Twice, MaxInt, MaxEstimate
    <2>2. current < ceiling => 2 * current \in Doublings
      BY <1>1 DEF BackoffInv, Doublings
    <2>3. QED
      BY <2>1, <2>2 DEF BackoffInv, Current, AfterRead
  <1>3. QED
    BY <1>1, <1>2 DEF BackoffInv, Current, Doublings

\* Decrease keeps it one: above the floor it halves a multiple of two floors.
LEMMA DecreaseKeepsBackoff == BackoffInv /\ Decrease => BackoffInv'
  <1> SUFFICES ASSUME BackoffInv, Decrease PROVE BackoffInv'
    OBVIOUS
  <1>1. floor \in Nat /\ floor' = floor /\ ceiling' = ceiling
    BY DEF BackoffInv, Decrease, MaxEstimate
  <1>2. current > floor => current \div 2 \in Doublings
    BY <1>1 DEF BackoffInv, Doublings
  <1>3. current' \in Doublings
    BY <1>1, <1>2 DEF Decrease, AfterDecrease, Doublings
  <1>4. QED
    BY <1>1, <1>3 DEF BackoffInv, Decrease, Doublings

\* The inductive invariant holds in every reachable state.
THEOREM Backoff == FrequencerSpec => []BackoffInv
  <1>1. BackoffInv /\ [FrequencerNext]_frequencerVars => BackoffInv'
    <2>1. BackoffInv /\ UNCHANGED frequencerVars => BackoffInv'
      BY DEF BackoffInv, Doublings, frequencerVars
    <2>2. QED
      BY <2>1, CurrentKeepsBackoff, DecreaseKeepsBackoff DEF FrequencerNext
  <1>2. QED
    BY <1>1, InitBackoff, PTL DEF FrequencerSpec

\* PollingFrequencer's fields stay 32-bit integers: nothing overflows.
THEOREM FrequencerTypeCorrect == FrequencerSpec => []FrequencerTypeOK
  <1>1. BackoffInv => FrequencerTypeOK
    BY DEF BackoffInv, Doublings, FrequencerTypeOK, IsInterval, MaxInt, MaxEstimate
  <1>2. QED
    BY <1>1, Backoff, PTL

\* Every sleep lies between the floor and the first doubling that reaches the
\* ceiling, whatever the sequence of empty and successful polls.
THEOREM SleepBounds == FrequencerSpec => []SleepWithinBackoff
  <1>1. BackoffInv => SleepWithinBackoff
    BY DEF BackoffInv, Doublings, SleepWithinBackoff, MaxEstimate
  <1>2. QED
    BY <1>1, Backoff, PTL

-----------------------------------------------------------------------------
\* The event is set by nobody but a Run that is through, and OnStop returns only
\* behind the event.
EventAnnouncesEnd == /\ runComplete => run \in {"returned", "threw"}
                     /\ stop = "returned" => runComplete

StopInv == TypeOK /\ EventAnnouncesEnd

LEMMA ThreeConsumers == Len(Consumers) = 3 /\ DOMAIN Consumers = 1 .. 3
  BY DEF Consumers

LEMMA InitStops == Init => StopInv
<1> SUFFICES ASSUME Init PROVE StopInv
  OBVIOUS
<1>1. polling \in Seq(Names) /\ Len(polling) = 0 /\ DOMAIN polling = {}
  BY DEF Init
<1>2. Len(polling) <= Len(Consumers)
  BY <1>1, ThreeConsumers
<1>3. failures \in 0 .. MaxFailures
  BY MaxFailuresAssumption DEF Init
<1>4. working \subseteq {polling[i] : i \in DOMAIN polling}
  BY DEF Init
<1>5. /\ host \in {"up", "stopped", "failed"}
      /\ run \in {"called", "starting", "looping", "delay", "left", "returned", "threw"}
      /\ stop \in {"none", "waiting", "returned"}
      /\ faulted \in BOOLEAN /\ cancelled \in BOOLEAN /\ runComplete \in BOOLEAN
      /\ run = "called" => polling = <<>>
      /\ run \in {"looping", "delay"} => AllPolling
      /\ faulted => run \in {"left", "threw"}
      /\ ~runComplete /\ stop = "none"
  BY DEF Init
<1> QED
  BY <1>1, <1>2, <1>3, <1>4, <1>5 DEF StopInv, TypeOK, EventAnnouncesEnd

\* The next thread is that of the next consumer of the list.
LEMMA StartConsimungKeeps == StopInv /\ StartConsimung => StopInv'
<1> SUFFICES ASSUME StopInv, StartConsimung PROVE StopInv'
  OBVIOUS
<1>1. /\ polling \in Seq(Names) /\ Len(polling) \in 0 .. 2
      /\ \A i \in DOMAIN polling : polling[i] = Consumers[i]
  <2>1. polling \in Seq(Names) /\ Len(polling) <= Len(Consumers)
    BY DEF StopInv, TypeOK
  <2>2. Len(polling) # Len(Consumers)
    BY DEF StartConsimung, AllPolling
  <2>3. Len(polling) \in Nat
    BY <2>1
  <2>4. \A i \in DOMAIN polling : polling[i] = Consumers[i]
    BY DEF StopInv, TypeOK
  <2>5. Len(polling) <= 3 /\ Len(polling) # 3
    <3>1. Len(Consumers) = 3
      BY ThreeConsumers
    <3>2. Len(polling) # 3
      BY <2>2, <3>1
    <3>3. Len(polling) <= 3
      BY <2>1, <3>1
    <3>4. QED
      BY <3>2, <3>3
  <2>6. Len(polling) \in 0 .. 2
    <3>1. \A n \in Nat : n <= 3 /\ n # 3 => n \in 0 .. 2
      OBVIOUS
    <3>2. QED
      BY <2>3, <2>5, <3>1
  <2>7. QED
    BY <2>1, <2>4, <2>6
<1>2. /\ polling' = Append(polling, Consumers[Len(polling) + 1])
      /\ UNCHANGED <<host, run, faulted, working, stop, cancelled, runComplete, failures>>
      /\ run = "starting"
  BY DEF StartConsimung
<1>3. Consumers[Len(polling) + 1] \in Names
  BY <1>1, ThreeConsumers DEF Names
<1>4. /\ polling' \in Seq(Names) /\ Len(polling') = Len(polling) + 1
      /\ \A i \in DOMAIN polling' : polling'[i] = Consumers[i]
      /\ \A i \in DOMAIN polling : i \in DOMAIN polling' /\ polling'[i] = polling[i]
  BY <1>1, <1>2, <1>3
<1>5. Len(polling') <= Len(Consumers)
  BY <1>1, <1>4, ThreeConsumers
<1>6. working' \subseteq {polling'[i] : i \in DOMAIN polling'}
  <2>1. working \subseteq {polling[i] : i \in DOMAIN polling}
    BY DEF StopInv, TypeOK
  <2>2. {polling[i] : i \in DOMAIN polling} \subseteq {polling'[i] : i \in DOMAIN polling'}
    BY <1>4
  <2>3. QED
    BY <1>2, <2>1, <2>2
<1>7. Consumers' = Consumers /\ Names' = Names
  BY DEF Consumers, Names
<1> QED
  BY <1>2, <1>4, <1>5, <1>6, <1>7 DEF StopInv, TypeOK, EventAnnouncesEnd

\* The list of consumers is a constant.
LEMMA SameList == Consumers' = Consumers /\ Names' = Names
  BY DEF Consumers, Names

\* The steps of Run and RunAsync that start no thread; the last one sets the event.
LEMMA RunKeeps == StopInv /\ Run => StopInv'
  BY SameList DEF StopInv, TypeOK, AllPolling, EventAnnouncesEnd, Run

LEMMA CheckTokenKeeps == StopInv /\ CheckToken => StopInv'
  BY SameList DEF StopInv, TypeOK, AllPolling, EventAnnouncesEnd, CheckToken

LEMMA DelayElapsesKeeps == StopInv /\ DelayElapses => StopInv'
  BY SameList DEF StopInv, TypeOK, AllPolling, EventAnnouncesEnd, DelayElapses

LEMMA DelayCancelledKeeps == StopInv /\ DelayCancelled => StopInv'
  BY SameList DEF StopInv, TypeOK, AllPolling, EventAnnouncesEnd, DelayCancelled

LEMMA LeaveRunKeeps == StopInv /\ LeaveRun => StopInv'
  BY SameList DEF StopInv, TypeOK, AllPolling, EventAnnouncesEnd, LeaveRun

LEMMA StartFailsKeeps == StopInv /\ StartFails => StopInv'
  BY SameList, MaxFailuresAssumption DEF StopInv, TypeOK, AllPolling, EventAnnouncesEnd, StartFails

\* OnStop returns only behind the event.
LEMMA OnStopKeeps == StopInv /\ OnStop => StopInv'
  BY SameList DEF StopInv, TypeOK, AllPolling, EventAnnouncesEnd, OnStop

LEMMA WaitOneKeeps == StopInv /\ WaitOne => StopInv'
  BY SameList DEF StopInv, TypeOK, AllPolling, EventAnnouncesEnd, WaitOne

\* The polling threads.
LEMMA TakeMessagesKeeps ==
    ASSUME NEW c \in Names PROVE StopInv /\ TakeMessages(c) => StopInv'
  BY SameList DEF StopInv, TypeOK, AllPolling, EventAnnouncesEnd, TakeMessages

LEMMA EndIterationKeeps ==
    ASSUME NEW c \in Names PROVE StopInv /\ EndIteration(c) => StopInv'
  BY SameList DEF StopInv, TypeOK, AllPolling, EventAnnouncesEnd, EndIteration

\* The host: a process that ends leaves what a new one begins with.
LEMMA EndsAsKeeps ==
    ASSUME NEW how \in {"stopped", "failed"}, EndsAs(how), failures' \in 0 .. MaxFailures
    PROVE  StopInv'
<1>1. /\ polling' \in Seq(Names') /\ DOMAIN polling' = {}
      /\ Len(polling') = 0 /\ Len(Consumers') = 3
  BY SameList, ThreeConsumers DEF EndsAs
<1>2. Len(polling') <= Len(Consumers')
  BY <1>1
<1>3. /\ host' \in {"up", "stopped", "failed"}
      /\ run' = "called" /\ polling' = <<>> /\ working' = {} /\ stop' = "none"
      /\ faulted' = FALSE /\ cancelled' = FALSE /\ runComplete' = FALSE
  BY DEF EndsAs
<1> QED
  BY <1>1, <1>2, <1>3 DEF StopInv, TypeOK, EventAnnouncesEnd

LEMMA HostStopsKeeps == StopInv /\ HostStops => StopInv'
  BY EndsAsKeeps DEF StopInv, TypeOK, HostStops

LEMMA RunThrewKeeps == StopInv /\ RunThrew => StopInv'
  BY EndsAsKeeps DEF StopInv, TypeOK, RunThrew

LEMMA CrashKeeps == StopInv /\ Crash => StopInv'
<1> SUFFICES ASSUME StopInv, Crash PROVE StopInv'
  OBVIOUS
<1>1. failures' \in 0 .. MaxFailures
  BY MaxFailuresAssumption DEF StopInv, TypeOK, Crash
<1> QED
  BY <1>1, EndsAsKeeps DEF Crash

LEMMA HostStartsKeeps == StopInv /\ HostStarts => StopInv'
  BY SameList DEF StopInv, TypeOK, AllPolling, EventAnnouncesEnd, HostStarts, processVars

\* The inductive invariant holds in every reachable state.
THEOREM StopsSoundly == Spec => []StopInv
<1>1. StopInv /\ [Next]_vars => StopInv'
  <2>1. StopInv /\ UNCHANGED vars => StopInv'
    BY SameList DEF StopInv, TypeOK, AllPolling, EventAnnouncesEnd, vars, processVars
  <2>2. StopInv /\ RunStep => StopInv'
    BY RunKeeps, StartConsimungKeeps, CheckTokenKeeps, DelayElapsesKeeps, DelayCancelledKeeps,
       LeaveRunKeeps DEF RunStep
  <2>3. ASSUME NEW i \in DOMAIN Consumers, StopInv,
               \/ TakeMessages(Consumers[i])
               \/ EndIteration(Consumers[i])
        PROVE  StopInv'
    <3>1. Consumers[i] \in Names
      BY DEF Names
    <3>2. QED
      BY <2>3, <3>1, TakeMessagesKeeps, EndIterationKeeps
  <2>4. QED
    BY <2>1, <2>2, <2>3, StartFailsKeeps, OnStopKeeps, WaitOneKeeps, HostStopsKeeps,
       RunThrewKeeps, CrashKeeps, HostStartsKeeps DEF Next
<1>2. QED
  BY <1>1, InitStops, PTL DEF Spec

\* The polling threads are those of the first consumers of the list, whichever
\* start failed, and Run looks at the token only when all of them are started.
THEOREM TypeCorrect == Spec => []TypeOK
<1>1. StopInv => TypeOK
  BY DEF StopInv
<1>2. QED
  BY <1>1, StopsSoundly, PTL

\* When OnStop returns, Run is through, for any number of failures: nothing but
\* the end of Run sets the event OnStop waits for.
THEOREM StopIsLast == Spec => []StopOutlastsRun
<1>1. StopInv => StopOutlastsRun
  BY DEF StopInv, EventAnnouncesEnd, StopOutlastsRun
<1>2. QED
  BY <1>1, StopsSoundly, PTL
=============================================================================
