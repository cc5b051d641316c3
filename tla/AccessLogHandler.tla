-------------------------- MODULE AccessLogHandler --------------------------
(***************************************************************************)
(* AccessLogHandler.cs: the outermost handler of the Web API.  One object  *)
(* per route serves all its requests (WebApiConfig.cs), and SendAsync      *)
(* keeps each request's telemetry client in the object's own field         *)
(* _telemetry, which it sets at the top, reads anew in every statement,    *)
(* and reads once more after the await.                                    *)
(*                                                                         *)
(* Nobody keeps a client but the field, so the field is modelled by the    *)
(* context of the client it holds, which goes on everything tracked        *)
(* through it: whether the instrumentation key is there (without it        *)
(* nothing arrives), and whose operation Id and Name.  BaseController.cs   *)
(* does the same in an object of its own for every request.                *)
(***************************************************************************)
CONSTANTS Requests,  \* the requests of one route, each served once
          NoRequest  \* "of no request yet"

ASSUME NoRequestAssumption == NoRequest \notin Requests

VARIABLES telemetry,  \* the field: the context of its client
          pc,         \* where each request is in SendAsync
          logged,     \* the requests whose ApiAccessLog is in the queue
          noticed,    \* history: the requests whose exception was tracked
          foreign,    \* history: the requests that tracked something under a
                      \* context other than their own
          disturbed   \* history: see Disturb

vars == <<telemetry, pc, logged, noticed, foreign, disturbed>>

Context == [keyed : BOOLEAN, id : Requests \cup {NoRequest}, name : Requests \cup {NoRequest}]

\* The context of a new client, and the one a request gives its client.
Blank == [keyed |-> FALSE, id |-> NoRequest, name |-> NoRequest]
Own(r) == [keyed |-> TRUE, id |-> r, name |-> r]

SettingUp == {r \in Requests : pc[r] \in {"key", "id", "name"}}
Active == {r \in Requests : pc[r] \notin {"waiting", "answered", "failed"}}
Handled == {r \in Requests : pc[r] \in {"inner", "report", "answered"}}

TypeOK == /\ telemetry \in Context
          /\ pc \in [Requests -> {"waiting", "key", "id", "name", "event", "enqueue",
                                  "exception", "inner", "report", "answered", "failed"}]
          /\ logged \subseteq Requests
          /\ noticed \subseteq Handled \cup {r \in Requests : pc[r] = "failed"}
          /\ foreign \subseteq Requests
          /\ disturbed \subseteq Requests

Init == /\ telemetry = Blank
        /\ pc = [r \in Requests |-> "waiting"]
        /\ logged = {}
        /\ noticed = {}
        /\ foreign = {}
        /\ disturbed = {}

-----------------------------------------------------------------------------
(* SendAsync, one access to the field at a time. *)

\* Something of r's is tracked through the client of the field.
Track(r) == foreign' = IF telemetry = Own(r) THEN foreign ELSE foreign \cup {r}

\* A request creates its client while others are inside: theirs is gone, and the
\* ones still setting up will write to its.
Disturb(r) == disturbed' = disturbed \cup Active
                                     \cup (IF SettingUp = {} THEN {} ELSE {r})

\* _telemetry = new TelemetryClient();
NewClient(r) == /\ pc[r] = "waiting"
                /\ pc' = [pc EXCEPT ![r] = "key"]
                /\ telemetry' = Blank
                /\ Disturb(r)
                /\ UNCHANGED <<logged, noticed, foreign>>

\* _telemetry.Context.InstrumentationKey = ...
SetKey(r) == /\ pc[r] = "key"
             /\ pc' = [pc EXCEPT ![r] = "id"]
             /\ telemetry' = [telemetry EXCEPT !.keyed = TRUE]
             /\ UNCHANGED <<logged, noticed, foreign, disturbed>>

\* _telemetry.Context.Operation.Id = Guid.NewGuid().ToString();
SetId(r) == /\ pc[r] = "id"
            /\ pc' = [pc EXCEPT ![r] = "name"]
            /\ telemetry' = [telemetry EXCEPT !.id = r]
            /\ UNCHANGED <<logged, noticed, foreign, disturbed>>

\* Mutant: the event is tracked before the name is set.
SetName_AfterEvent(r) == /\ pc[r] = "name"
                         /\ pc' = [pc EXCEPT ![r] = "enqueue"]
                         /\ telemetry' = [telemetry EXCEPT !.name = r]
                         /\ Track(r)
                         /\ UNCHANGED <<logged, noticed, disturbed>>

\* _telemetry.Context.Operation.Name = requestName;
SetName(r) == /\ pc[r] = "name"
              /\ pc' = [pc EXCEPT ![r] = "event"]
              /\ telemetry' = [telemetry EXCEPT !.name = r]
              /\ UNCHANGED <<logged, noticed, foreign, disturbed>>

\* _telemetry.TrackEvent("Access.Api");
TrackEvent(r) == /\ pc[r] = "event"
                 /\ pc' = [pc EXCEPT ![r] = "enqueue"]
                 /\ Track(r)
                 /\ UNCHANGED <<telemetry, logged, noticed, disturbed>>

\* AzureQueue.Enqueue(new ApiAccessLog...)
Enqueue(r) == /\ pc[r] = "enqueue"
              /\ pc' = [pc EXCEPT ![r] = "inner"]
              /\ logged' = logged \cup {r}
              /\ UNCHANGED <<telemetry, noticed, foreign, disturbed>>

\* Mutant: no catch, so that the failure of the log fails the request.
EnqueueFails_Uncaught(r) == /\ pc[r] = "enqueue"
                            /\ pc' = [pc EXCEPT ![r] = "failed"]
                            /\ logged' \in {logged, logged \cup {r}}
                            /\ UNCHANGED <<telemetry, noticed, foreign, disturbed>>

\* It throws, the message enqueued or not.
EnqueueFails(r) == /\ pc[r] = "enqueue"
                   /\ pc' = [pc EXCEPT ![r] = "exception"]
                   /\ logged' \in {logged, logged \cup {r}}
                   /\ UNCHANGED <<telemetry, noticed, foreign, disturbed>>

\* Mutant: the handler tries to log again.
TrackException_Retries(r) == /\ pc[r] = "exception"
                             /\ pc' = [pc EXCEPT ![r] = "enqueue"]
                             /\ noticed' = noticed \cup {r}
                             /\ Track(r)
                             /\ UNCHANGED <<telemetry, logged, disturbed>>

\* _telemetry.TrackException(ex);
TrackException(r) == /\ pc[r] = "exception"
                     /\ pc' = [pc EXCEPT ![r] = "inner"]
                     /\ noticed' = noticed \cup {r}
                     /\ Track(r)
                     /\ UNCHANGED <<telemetry, logged, disturbed>>

\* await base.SendAsync(request, cancellationToken) returns...
InnerReturns(r) == /\ pc[r] = "inner"
                   /\ pc' = [pc EXCEPT ![r] = "report"]
                   /\ UNCHANGED <<telemetry, logged, noticed, foreign, disturbed>>

\* ...or throws, as when the client went away: nothing more is tracked.
InnerThrows(r) == /\ pc[r] = "inner"
                  /\ pc' = [pc EXCEPT ![r] = "failed"]
                  /\ UNCHANGED <<telemetry, logged, noticed, foreign, disturbed>>

\* _telemetry.TrackRequest(requestName, ...);
TrackRequest(r) == /\ pc[r] = "report"
                   /\ pc' = [pc EXCEPT ![r] = "answered"]
                   /\ Track(r)
                   /\ UNCHANGED <<telemetry, logged, noticed, disturbed>>

-----------------------------------------------------------------------------
SendAsync(r) == \/ SetKey(r) \/ SetId(r) \/ SetName(r) \/ TrackEvent(r)
                \/ Enqueue(r) \/ EnqueueFails(r) \/ TrackException(r)
                \/ InnerReturns(r) \/ InnerThrows(r) \/ TrackRequest(r)

AllEnded == (\A r \in Requests : pc[r] \in {"answered", "failed"}) /\ UNCHANGED vars

Next == (\E r \in Requests : NewClient(r) \/ SendAsync(r)) \/ AllEnded

Spec == Init /\ [][Next]_vars

FairSpec == Spec /\ \A r \in Requests : WF_vars(SendAsync(r))

-----------------------------------------------------------------------------
(* Correctness. *)

\* A request is accounted for under its own name: all it tracks, before the await
\* and after it, carries the key and its own operation, and if its log entry is
\* not in the queue an exception has said so; unless another request's set-up
\* came into its way.  One that is only handled meanwhile, its own client made
\* and filled in before, does no harm.
OwnTelemetryUnlessDisturbed ==
    \A r \in Requests \ disturbed :
        /\ r \notin foreign
        /\ r \in Handled => r \in logged \cup noticed

\* Logging never costs a request its answer: every request that comes in gets to
\* the handlers behind this one, whatever becomes of its log entry and however
\* the others' use of the field interferes.
EveryRequestIsHandled == \A r \in Requests : pc[r] = "key" ~> pc[r] = "inner"
=============================================================================
