----------------------------- MODULE WorkerRole -----------------------------
(***************************************************************************)
(* WorkerRole.cs: the process that runs the queue consumers.  Run starts   *)
(* one polling thread per consumer (QueueConsumerFor.cs, StartConsimung)   *)
(* and then does nothing but look at a cancellation token once a second;   *)
(* OnStop, on another thread, cancels the token and waits for the event    *)
(* that Run sets on its way out.  Nothing stops the polling threads: they  *)
(* end with the process, wherever they are.                                *)
(*                                                                         *)
(* The Azure host is external: it calls OnStart and then Run, calls OnStop *)
(* at any time after OnStart, ends a process whose OnStop has returned or  *)
(* whose Run threw, and starts a failed one again.                         *)
(***************************************************************************)
EXTENDS Naturals, Sequences

CONSTANT MaxFailures  \* bound on the crashes and on the starts that fail

ASSUME MaxFailuresAssumption == MaxFailures \in Nat

\* The consumers in the order RunAsync starts them.
Consumers == <<"ApiAccessLogSaver", "MailsMessagesSender", "TrenEnEstacionReduceDuplicates">>

Names == {Consumers[i] : i \in DOMAIN Consumers}

VARIABLES host,         \* the process: up, stopped on demand, or failed
          run,          \* where Run and RunAsync are
          faulted,      \* RunAsync's task ended with an exception
          polling,      \* the consumers whose thread polls its queue
          working,      \* of these, the ones with messages in hand
          stop,         \* where OnStop is
          cancelled,    \* cancellationTokenSource
          runComplete,  \* runCompleteEvent
          failures

processVars == <<run, faulted, polling, working, stop, cancelled, runComplete>>
vars == <<host, processVars, failures>>

AllPolling == Len(polling) = Len(Consumers)

TypeOK == /\ host \in {"up", "stopped", "failed"}
          /\ run \in {"called", "starting", "looping", "delay", "left", "returned", "threw"}
          /\ polling \in Seq(Names) /\ Len(polling) <= Len(Consumers)
          /\ \A i \in DOMAIN polling : polling[i] = Consumers[i]
          /\ working \subseteq {polling[i] : i \in DOMAIN polling}
          /\ stop \in {"none", "waiting", "returned"}
          /\ faulted \in BOOLEAN /\ cancelled \in BOOLEAN /\ runComplete \in BOOLEAN
          /\ failures \in 0 .. MaxFailures
          /\ run = "called" => polling = <<>>
          /\ run \in {"looping", "delay"} => AllPolling
          /\ faulted => run \in {"left", "threw"}

Init == /\ host = "up"
        /\ run = "called"
        /\ faulted = FALSE
        /\ polling = <<>>
        /\ working = {}
        /\ stop = "none"
        /\ cancelled = FALSE
        /\ runComplete = FALSE
        /\ failures = 0

-----------------------------------------------------------------------------
(* Run and RunAsync. *)

Run == /\ host = "up" /\ run = "called"
       /\ run' = "starting"
       /\ UNCHANGED <<host, faulted, polling, working, stop, cancelled, runComplete, failures>>

\* Mutant: the consumer polls within the current thread.
StartConsimung_WithinCurrentThread ==
    /\ host = "up" /\ run = "starting" /\ polling = <<>>
    /\ polling' = <<Consumers[1]>>
    /\ UNCHANGED <<host, run, faulted, working, stop, cancelled, runComplete, failures>>

\* The next consumer is constructed and its thread started.
StartConsimung ==
    /\ host = "up" /\ run = "starting" /\ ~AllPolling
    /\ polling' = Append(polling, Consumers[Len(polling) + 1])
    /\ UNCHANGED <<host, run, faulted, working, stop, cancelled, runComplete, failures>>

\* Its construction or its thread's start throws: the ones before it poll on.
StartFails == /\ host = "up" /\ run = "starting" /\ ~AllPolling
              /\ failures < MaxFailures
              /\ run' = "left"
              /\ faulted' = TRUE
              /\ failures' = failures + 1
              /\ UNCHANGED <<host, polling, working, stop, cancelled, runComplete>>

\* Mutant: the loop does not wait for the last consumer.
CheckToken_TooSoon ==
    /\ host = "up" /\ run \in {"starting", "looping"}
    /\ run' = IF cancelled THEN "left" ELSE "delay"
    /\ UNCHANGED <<host, faulted, polling, working, stop, cancelled, runComplete, failures>>

\* while (!cancellationToken.IsCancellationRequested)
CheckToken == /\ host = "up" /\ run \in {"starting", "looping"}
              /\ AllPolling
              /\ run' = IF cancelled THEN "left" ELSE "delay"
              /\ UNCHANGED <<host, faulted, polling, working, stop, cancelled, runComplete, failures>>

\* await Task.Delay(1000, cancellationToken) ends in time...
DelayElapses == /\ host = "up" /\ run = "delay"
                /\ run' = "looping"
                /\ UNCHANGED <<host, faulted, polling, working, stop, cancelled, runComplete, failures>>

\* ...or is cancelled, which throws out of RunAsync.
DelayCancelled == /\ host = "up" /\ run = "delay" /\ cancelled
                  /\ run' = "left"
                  /\ faulted' = TRUE
                  /\ UNCHANGED <<host, polling, working, stop, cancelled, runComplete, failures>>

\* Mutant: the event is set behind Wait() and not in a finally block.
LeaveRun_NoFinally ==
    /\ host = "up" /\ run = "left"
    /\ run' = IF faulted THEN "threw" ELSE "returned"
    /\ runComplete' = ~faulted
    /\ UNCHANGED <<host, faulted, polling, working, stop, cancelled, failures>>

\* Wait() returns or throws, and the finally block sets the event.
LeaveRun == /\ host = "up" /\ run = "left"
            /\ run' = IF faulted THEN "threw" ELSE "returned"
            /\ runComplete' = TRUE
            /\ UNCHANGED <<host, faulted, polling, working, stop, cancelled, failures>>

-----------------------------------------------------------------------------
(* OnStop. *)

\* The host calls it, and it cancels.
OnStop == /\ host = "up" /\ stop = "none"
          /\ stop' = "waiting"
          /\ cancelled' = TRUE
          /\ UNCHANGED <<host, run, faulted, polling, working, runComplete, failures>>

\* Mutant: the wait has a time limit.
WaitOne_Limited == /\ host = "up" /\ stop = "waiting"
                   /\ stop' = "returned"
                   /\ UNCHANGED <<host, run, faulted, polling, working, cancelled, runComplete, failures>>

\* runCompleteEvent.WaitOne() lets it through.
WaitOne == /\ host = "up" /\ stop = "waiting" /\ runComplete
           /\ stop' = "returned"
           /\ UNCHANGED <<host, run, faulted, polling, working, cancelled, runComplete, failures>>

-----------------------------------------------------------------------------
(* The polling threads, of which MessagePollQueueConsumer and               *)
(* MessageBlockPollQueueConsumer say more.                                  *)

TakeMessages(c) == /\ host = "up"
                   /\ c \in {polling[i] : i \in DOMAIN polling} \ working
                   /\ working' = working \cup {c}
                   /\ UNCHANGED <<host, run, faulted, polling, stop, cancelled, runComplete, failures>>

EndIteration(c) == /\ host = "up" /\ c \in working
                   /\ working' = working \ {c}
                   /\ UNCHANGED <<host, run, faulted, polling, stop, cancelled, runComplete, failures>>

-----------------------------------------------------------------------------
(* The host. *)

\* The process ends: nothing of it is left.
EndsAs(how) == /\ host' = how
               /\ run' = "called"
               /\ faulted' = FALSE
               /\ polling' = <<>>
               /\ working' = {}
               /\ stop' = "none"
               /\ cancelled' = FALSE
               /\ runComplete' = FALSE

HostStops == /\ host = "up" /\ stop = "returned"
             /\ EndsAs("stopped")
             /\ UNCHANGED failures

\* The exception leaves Run, whether OnStop is through or not.
RunThrew == /\ host = "up" /\ run = "threw"
            /\ EndsAs("failed")
            /\ UNCHANGED failures

Crash == /\ host = "up" /\ failures < MaxFailures
         /\ EndsAs("failed")
         /\ failures' = failures + 1

HostStarts == /\ host # "up"
              /\ host' = "up"
              /\ UNCHANGED <<processVars, failures>>

Recycle == host = "failed" /\ HostStarts

-----------------------------------------------------------------------------
RunStep == Run \/ StartConsimung \/ CheckToken \/ DelayElapses \/ DelayCancelled \/ LeaveRun

Next == \/ RunStep \/ StartFails
        \/ OnStop \/ WaitOne
        \/ \E i \in DOMAIN Consumers : TakeMessages(Consumers[i]) \/ EndIteration(Consumers[i])
        \/ HostStops \/ RunThrew \/ Crash \/ HostStarts

Spec == Init /\ [][Next]_vars

FairSpec == /\ Spec
            /\ WF_vars(RunStep) /\ WF_vars(WaitOne)
            /\ WF_vars(RunThrew /\ stop = "none") /\ WF_vars(Recycle)

-----------------------------------------------------------------------------
(* Correctness. *)

\* When OnStop returns, Run is through: it starts no thread any more behind the
\* back of a host that believes the role has stopped.
StopOutlastsRun == stop = "returned" => run \in {"returned", "threw"}

\* Every stop ends, by the event and not by a host that loses patience: also the
\* one that cancels Run's delay and so makes Run throw, one asked for before Run
\* was entered or while it starts the consumers, after a start that failed, and
\* with consumers that never finish the messages they have in hand.
StopCompletes == stop = "waiting" ~> stop # "waiting"

\* After failures, however far the start had got, all the consumers poll again
\* unless the host wants the role stopped.
ConsumersComeBack == []<>(AllPolling \/ stop # "none" \/ host = "stopped")
=============================================================================
