# AleBanzas.API: a TLA+ model

The program is a public web API (underground, trains, bicycles, flights, exchange rates,
live trains) over scraped sources, with a worker role that processes queued messages. This
directory holds its formal model: what the parts do, checked by TLC on small instances, and
what must hold for every instance, proved with TLAPS.

Paths below are relative to the repository. `QueueStorage/` stands for
`ABServicios.Azure.Storage/DataAccess/QueueStorage/`, `Controllers/` for
`ABServicios/Api/Controllers/`.

## 1. The system

| Component | State it keeps | Operations | Hard part |
|---|---|---|---|
| Message queues (`QueueStorage/MessageQueue.cs` over Azure storage) | messages, their visibility, `DequeueCount`, `PopReceipt` | `Enqueue`, `Dequeue`, `Remove` | at-least-once delivery: a message out too long is handed out again, stale receipts are refused, contents may not deserialize, and after seven days a message is gone |
| Polling loops (`MessagePollQueueConsumer.cs`, `MessageBlockPollQueueConsumer.cs`, `Consumers/MessageBlocksConsumer.cs`) | the message or block in hand | `PollQueue` for ever, on a thread of its own | what is lost or repeated when a step fails, the process dies or the timeout fires; one unreadable message spoils its whole block |
| `PollingFrequencer.cs` | `current` between `floor` and `ceiling` | `Current` (reads and doubles), `Decrease` (halves) | unchecked 32-bit doubling; halving that must not pass the floor |
| Savers (`ApiAccessLogSaver.cs`, `DenunciaPreciosSaver.cs` over `TablePersister.cs`) | rows of a table | one insert per message | the insert is not idempotent; a poisoned message must end |
| `MailsMessagesSender.cs` over `GeneralMailSender.cs` | none | one SMTP send per message, given up at the 20th failing delivery | duplicates, lost answers, a server that always fails |
| `TrenEnEstacionReduceDuplicates.cs` | none | block in, de-duplicated block out, block removed | partial failure in the middle of a block |
| Cached refresh (`Services/WebCache.cs`, `App_Start/DataConfig.cs`, seven `Controllers/*Controller.cs`) | cache entries: data and control | `Start`, which requests can call too, `Refresh`, removal callback, requests that fill misses, `StatusController.RemoveAll` | no timer: an entry's expiry starts the next round, so a lost entry loses the refresh, and a `Start()` beside it doubles it |
| `LiveTrenController.cs` as a producer | as above | one arrival enqueued per direction of a station with zero minutes to go | the enqueues come before the model is cached, and may fail half-way; the minutes are not what the service says |
| `ReservasController.cs` | a cache entry | as the refresh above, but not launched | only a request starts its chain |
| `AccessLogHandler.cs`, `BaseController.cs` | a telemetry client, in a field of the one handler object of a route | enqueue one log message per request | a field shared by all requests, set before an await and read after it |
| `WorkerRole.cs`, `QueueConsumerFor.cs` | a cancellation token, an event | start three polling threads, stop | shutdown handshake between two threads; nothing stops the polling threads |
| HMAC authentication (`HmacAuthenticationHandler.cs`, `ABServiciosHmacBuilder.cs`) | signatures in the cache | authenticate a request | a security mechanism, outside this model |
| Session filters (`NeedDataBaseContextAttribute.cs`, `NeedRelationalPersistenceAttribute.cs`) | the current session and its transaction | open before the action, commit after it | actions that throw |
| Redirects (`AB.Common/Extensions/RouteExtensions.cs`) | the handler's `_redirectUrl` | compute a Location per request | one request's URL becomes the state of the next, with no lock |
| Query builder, repositories, inflectors, blobs, wiring, pages | none to speak of | | sequential |

How they interact:

- `AccessLogHandler` and `BaseController` enqueue `ApiAccessLog`; `ApiAccessLogSaver` takes
  it to table storage. Producers of mails enqueue `MailMessage`; `MailsMessagesSender` sends
  it. `LiveTrenController` enqueues `TrenEnEstacion` at each scrape;
  `TrenEnEstacionReduceDuplicates` turns those into `TrenEnEstacionClean`, which nothing in
  the repository consumes. The queues are the only coupling: no acknowledgement goes back to
  a producer. `WorkerRole` starts three consumers; `DenunciaPreciosSaver` is not among them.
- `WorkerRole` runs each consumer on one thread; `ServiceConfiguration.*.cscfg` asks for one
  instance, and `ABServicios.Azure.Tests/QueueConsumerRunner.cs` runs the same consumers by
  hand beside it. A restarted instance and the one it replaces overlap as well. So the
  models have several workers on one queue.
- `DataConfig.StartInitial` queues one `Start()` of each controller but `ReservasController`;
  from then on the cache calls `Start()` through the control entry's removal callback, and
  requests read the data entries. `Start()` is also a public method of a Web API controller,
  without `[NonAction]` or `[ApiAuthorize]`, so the route `api/{controller}/{action}`
  (`App_Start/WebApiConfig.cs:18-20`) makes it a POST action: a request runs it on its own
  thread, whatever the cache holds and whoever else is in it.

The properties each part must have are in section 3; the hazards they answer are in
`PROJECT.json`, each at its line.

## 2. Modules

| Module | Models | Extends |
|---|---|---|
| `PollingInterval` | the arithmetic of `PollingFrequencer.cs` on one interval | |
| `PollingFrequencer` | the object: fields, `Current`, `Decrease` | `PollingInterval` |
| `MessageQueue` | `MessageQueue.cs` and, as external, the storage service | |
| `MessagePollQueueConsumer` | the loop over single messages, its failures, the environment | `MessageQueue`, `PollingInterval` |
| `AtLeastOnce` | abstract: what a queue with a consumer promises | |
| `ApiAccessLogSaver` | the savers; implements `AtLeastOnce` | `MessagePollQueueConsumer` |
| `MailsMessagesSender` | the mail consumer; implements `AtLeastOnce` | `MessagePollQueueConsumer` |
| `MessageBlockPollQueueConsumer` | the loop over blocks | `MessageQueue`, `PollingInterval` |
| `AtMostOnce` | abstract: what the consumer of the arrivals promises | |
| `TrenEnEstacionReduceDuplicates` | the arrivals consumer; implements `AtMostOnce` | `MessageBlockPollQueueConsumer` |
| `RefreshChain` | the refresh of the controllers over the cache | |
| `LiveTrenArrivals` | `LiveTrenController` as the producer of arrivals | |
| `AccessLogHandler` | the handler of the access log and its shared field | |
| `WorkerRole` | the process of the consumers: start, stop, failed starts, crashes | |
| `RedirectRouteHandler` | the permanent redirects and their shared field | |
| `*Proofs` | theorems about the module they are named after | that module, `TLAPS` |
| `WorkerProofs` | theorems about `PollingFrequencer` and `WorkerRole` | both, `TLAPS` |
| `HandlerProofs` | theorems about `AccessLogHandler` and `RedirectRouteHandler` | both, `TLAPS` |
| `MC*` | constants of the TLC runs | |

A module of proofs may extend two components that share no state. So that both can be seen
at once, `Init`, `Next`, `Spec` and `TypeOK` are `FrequencerInit`, ... in `PollingFrequencer` and
`RedirectInit`, ... in `RedirectRouteHandler`, where the requests are `Visits` and where each one
is in the handler is its `place`.

**Queue.** `sent`, `queued`, `invisible` and `dequeueCount` are the service's state. Each
hand-out raises `DequeueCount` and issues the only pop receipt the service will accept from
then on, so a receipt is identified with the count it came with (`Accepts`). What is no
longer in `queued` was removed by a consumer (`Deleted`) or dropped by the service for its
age (`expired`). `Unreadable` are the messages whose content does not deserialize.
`mishaps[m]` is a history variable: it counts what befell message `m` without the code's
doing (a lost answer, a crash, a failed call, a timeout that fires while `m` is in hand).

**Single-message loop.** `pc[w]` is where a worker's iteration is: `poll`, `process`,
`remove`. `Dequeue`, `Returns`, `Throws`, `RemoveMessage`, `RemoveRejected` and
`RemoveFails` are the paths through `PollQueue`; every path that had a message ends in
`EndIteration`, the `finally` block with `Decrease()`. `DequeueFails` is the hand-out whose
message never reaches the loop: its answer is lost or its content unreadable. A consumer's
module says what happens between `process` and the return or the exception.

**Block loop.** `block[w]` is the list of the iteration, `toEmit[w]` what `Distinct` left of
it to enqueue, `next[w]` the position of the next removal. Every enqueue and every delete of
`ProcessMessagesGroup` is an action of its own, since another worker, a timeout or a crash
may come between two of them. `DequeueUnreadable` is `ToList()` throwing over a block with
an unreadable message in it: the readable ones beside it are recorded in `spoiled`, since
their next delivery is their second and is not emitted. It is no mishap: it happens at every
poll that meets the message, without bound, until the message expires. A hand-out whose
receipts reach nobody (`HandOutUnseen`) raises the count of a message only from 0 or from a
receipt somebody holds; beyond that neither the code, which asks whether a delivery is the
first, nor the service, which asks whether a receipt is the last, could tell the difference,
and the count would grow for ever. `AtMostOnce` knows none of this: an arrival is accepted, hindered, emitted once, finished with or forgotten, and `Hindered` maps
the mishaps and `spoiled` to its one variable.

**Refresh.** `runs[t]` is the `Start()` a thread executes: its controller, the position in
the controller's list of keys and the model fetched for it. A model is the version of the
source it was built from; `OnFailure` tells the controllers apart: "abort"
(`TrenController`, `BicicletaController`, `AvionController`: the exception leaves the loop),
"skip" (`CotizacionController`: counted, next key), "default" (`SubteController`,
`LiveTrenController`, `ReservasController`: `GetModel` catches it). `Begin` takes a `Start()`
that waits in the thread pool (`workItems`), `StartByRequest` is the POST action. `PutControl`
is `WebCache.Put` with a callback: inserting over an entry removes that entry, and its
callback starts another round. A chain is a `Start()` that waits or runs, or the control
entry that will call the next one: `DataConfig` starts one for each controller it launches
and every request to `start` one more, and none ever ends. `alone` is a history field: no
other `Start()` of the controller has run beside this one.

**Live trains.** `stop` and `standing` are the railway: how many trains have stopped at each
platform, and where one stands now, which the service answers with zero minutes to go
(`ToGo`). A platform is a branch, the place of a station in the branch's list, and a
direction; a model is the set of the stops it shows, and the default model, which lists no
stations, is empty. What becomes of the answer is modelled by what the decoding does:
`System.Web.Helpers.Json` knows nothing of Newtonsoft's `[JsonProperty]`, finds no member
of the names the answer has and leaves all minutes at 0 (`Bound`). So `Zero` holds every
platform, and every listed station is enqueued and shown both ways at every round, trains or
not; the filter (`Shown`) and the two tests behind it are in the model as the code has them.
Every chain of rounds has its own `pos`, `fetched`, `result`, the model it will return, and
`rest`, the stops its loop has still to enqueue, in the order of the `foreach` (`Before`).
Each enqueue is an action, and `Store` caches the model when `rest` is empty. `EnqueueFails`
is the exception that `GetModel` turns into the default model, with the message enqueued or
not. Rounds of two chains overlap as they like, since a request may have started the second.

**Access log handler.** A client is known by nothing but what is written to its context, so
the field `_telemetry` is modelled by the context of the client it holds. Every statement
that reads or writes the field is an action of one request, and what it tracks counts as
`foreign` when the context at that moment is not the request's own. `disturbed` records
which requests had another one's set-up come in their way.

**Worker role.** `run` and `stop` are where `Run`/`RunAsync` and `OnStop` are, each on a
thread of the host's; `polling` are the threads started so far. The delay takes the token,
so a stop during it makes `Run` throw (`DelayCancelled`), and the host then may end the
process before `OnStop` is through. Nothing stops a polling thread: it ends with the
process, anywhere in its iteration, which is the action `Crash` of the consumers' modules.
That the host calls `Run` after `OnStart`, may call `OnStop` at any time and starts a failed
process again is external.

**Redirects.** The field `_redirectUrl` always holds the route's target and some queries, so
it is modelled by the sequence of queries. Each read and each write of it is an action, the
two halves of `+=` included; the tests on the request's own URL are part of the action they
guard. A request's query is what the code takes for it, the text between the first `?` and
the next.

## 3. What is checked

All runs that pass check deadlock as well. "Mishaps" is the bound on environment failures
per message.

| Run | Bounds | Shows |
|---|---|---|
| `frequencer` | estimates 0, 1 s, 40 s, 1 h and the default; real constants | the sleep stays between the floor and the first doubling that reaches the ceiling, every value an `int` |
| `frequencer_ceiling` (violation) | same | the sleep can exceed the documented maximum: 32 s with a ceiling of 30 s |
| `access_log` | 2 messages, 2 workers, 2 mishaps, limit 2 | `NothingDroppedUnsaved`, `OneRowPerMessage`, refinement of `AtLeastOnce`, and every message leaves the queue (`EveryMessageLeaves`) |
| `access_log_conflict` (violation) | 1 message, 2 workers, 1 mishap | an insert of an existing row fails where the interface promises an update |
| `mails` | 2 mails of which 1 is unreadable, 2 workers, 3 mishaps, give up at 3 | `MailSentOrGivenUp`, `DuplicatesNeedMishaps`, refinement of `AtLeastOnce`, and every mail leaves (`EveryMailLeaves`) although the server may always fail, the unreadable one by its age |
| `arrivals` | 3 arrivals of which 1 is unreadable, 2 workers, 1 mishap, blocks of at most 2 | `EmittedAtMostOnce`, `LossNeedsMishap`, refinement of `AtMostOnce`, and every arrival leaves the queue (`EveryArrivalLeaves`) although the unreadable one may spoil any number of blocks |
| `arrivals_duplicates` (violation) | as `arrivals`, all readable | two reports of one train a minute apart are both emitted |
| `refresh` | 3 controllers, one of each way to fail, of which the third is not launched; 5 keys (3 may fail for ever, 1 changes once, 1 is filled by requests too), 2 threads, 1 filling request at a time; of the second and the third controller one request runs `Start()` | `ChainsAsStarted`, `NeverGoesBack`, `StaysFresh` |
| `live_arrivals` | 2 chains of rounds, 2 branches of one station each (4 platforms), 2 stops of trains among them, 1 failed enqueue; the first branch's source may fail for ever | `PublishedIsReported`, `EveryLongStopIsReported` |
| `redirects` | 4 requests, 3 of them with a query | `OwnQueryUnlessOverlapped` |
| `access_log_handler` | 3 requests through one handler | `OwnTelemetryUnlessDisturbed`, and every request is handled (`EveryRequestIsHandled`) |
| `worker_role` | 3 consumers, 3 failures | `StopOutlastsRun`, `StopCompletes`, `ConsumersComeBack` |

Why the bounds are enough. The limits 100 and 20 on deliveries are constants, scaled to 2 or
3: a message then goes below, to and above the limit. Two workers and two mishaps per
message give every overlap of a current and a stale delivery; a third worker would only add
a second stale one (where `EveryMessageLeaves` needs both workers stale, two premature
timeouts produce it). Messages do not interact except inside a block, where two and a third
outside it are used: with the unreadable one in the block and outside it. An expiry needs no
bound: it happens once to a message, and it is all that ends the blockade by the unreadable
one: without the fairness of that expiry, `EveryArrivalLeaves` fails on the same run. The
intervals of the loops' frequencers are scaled to 2 and 3, since only `PollingFrequencer` is
about their size. A source that changes once tells an old model from a new one, which is all
that `NeverGoesBack` and `StaysFresh` compare; with the two threads both versions are in hand at once. One request that runs `Start()` (the
bound is `MaxAsked`) gives a launched controller two chains, whose rounds overlap, and one
that is not launched its first; a third chain would need a third thread to be in a round
with the other two. Three requests are one that is set
up while a second is set up or handled, and a third that comes after either. Three failures
of the role reach a start that fails, one that fails again further on, and a crash. Two
stops may be two trains of one platform, which tells a reported train from the next, and a
branch of one station has two arrivals to enqueue, so that a failure comes between them.
The proofs lift the bounds wherever section 4 says so.

**Three disagreements between code and documentation** are recorded as violation runs: the
documented ceiling, the interface of `Add`, and the comparer of arrivals, whose hash code is
the object's identity so that `Distinct` compares nothing.

**Fairness.** Threads run and clocks tick: weak fairness of what a worker does by itself, of
the visibility timeout of abandoned messages, of work items and of the control entry's
expiry. `PollQueue` is an endless loop on its own thread that catches everything, which
justifies the first; the service and the ASP.NET cache document the others. The thread
pool's queue of `Start()` calls is first in, first out, so a controller whose chain waits
there gets a thread although others keep asking (strong fairness of `Begin`). An unreadable
message reaches its seventh day (weak fairness of its expiry); a readable one is never
promised to leave by expiring. In `WorkerRole` the code of `Run` and the wait go on, a
process whose `Run` threw ends while no stop is in progress, and a failed process is started
again; the polling threads get no fairness, since a stop must not depend on them. A
request's own statements in `AccessLogHandler` are executed. Nothing makes a request run
`Start()`. In `LiveTrenArrivals` a round goes on, and some chain begins its next one. No
fairness is assumed of successes: inserts and mails may fail at every attempt, sources for ever. Failures of the
calls around the processing (a delete that cannot be sent, a crash) are bounded by the
mishaps: a queue that can never be reached delivers nothing, and no property promises
otherwise. Trains come and go without fairness: `EveryLongStopIsReported` speaks only of one
that stays.

## 4. What is proved

For any number of messages, workers, controllers, keys, threads, chains and requests, and
branches of any length, from the assumptions named in the modules:

- `WorkerProofs`, on the frequencer: `Backoff`, `SleepBounds`, `FrequencerTypeCorrect`. The
  inductive invariant is that the interval is the floor times 1, 2, 4, 8 or 16: halving is then exact,
  and the ceiling of 15 floors (or 10, by default) stops the doubling at 16. A bound on the
  interval alone is not inductive.
- `WorkerProofs`, on the role: `TypeCorrect` and `StopIsLast`, for any number of
  failures. `StopOutlastsRun` relates two threads that never look at each other; what makes
  it inductive is the event between them (`EventAnnouncesEnd`): it is set by nobody but a
  `Run` that is through, and `OnStop` returns only behind it. The types say which threads
  poll: those of a prefix of the list, all of it once `Run` looks at its token.
- `MessagePollQueueConsumerProofs`: lemmas only. Every step of the loop keeps its types and
  `ReceiptsIssued` (no receipt in hand is newer than the last one issued), and a message
  leaves the queue only through a worker that holds its last receipt and whose processing
  returned (`LoopRemoves`). Both consumers rest on them.
- `ApiAccessLogSaverProofs`: `NoLogEntryLost`, `RowUniqueness`, `TypeCorrect` and
  `Refinement`. `NothingDroppedUnsaved` speaks of messages already gone; what makes it
  inductive is `RemovableIsSaved`, about the messages some worker is about to remove.
- `MailsMessagesSenderProofs`: `NoMailLost`, `TypeCorrect` and `Refinement`, with
  `RemovableIsSent` in the same role. The proof shows why a stale worker cannot drop a mail
  early: the receipt it would remove with is not the last one. `DuplicatesArePaidFor` is by
  counting (`CountInv`): the copies sent, plus the workers about to send one, plus one if
  the mail can be handed out without a further mishap, never exceed one plus the mishaps.
  Each action moves one unit from one term to another or pays for it with a mishap.
- `TrenEnEstacionReduceDuplicatesProofs`: `TypeCorrect`, `EmittedOnce`, `NoArrivalLost` and
  `Refinement`, for blocks of any size. An arrival is emitted only by the holder of its first
  delivery, and that delivery is held by one worker (`SoleReceipts`, `ListsFirst`, `NeverHandedOut`);
  `EmissionOpen` adds that what is still to be emitted has not been. `NoArrivalLost` needs
  the converse, `NotLost`: a readable arrival that met with no mishap and no unreadable
  neighbour is still to be handed out for the first time, or waits in the list of the one worker that
  holds it, or is emitted; an unreadable one is in no block and so never deleted
  (`UnreadableWaits`). `CleanListIsFirstDeliveries` is why `Distinct` may be read as
  dropping nothing. `Refinement` maps every step to one of `AtMostOnce`: an emission is of an
  arrival not emitted before (`EmissionIsFirst`), a removal finishes with one that `NotLost`
  says was emitted or hindered (`RemovalRefines`), and all else can only hinder arrivals that
  were accepted (`QuietRefines`), which needs that blocks hold sent messages only.
- `LiveTrenArrivalsProofs`: `TypeCorrect` and `NothingPublishedUnreported`, for any number of
  chains. `PublishedIsReported` is about models already cached; inductive is that the model a
  chain is building shows nothing but what is reported or still in its `rest`
  (`FetchedIsReported`), which `Fetch` establishes because the `Where` of the loop hides no
  station the model shows (`ArrivalsAreShown`), whatever the decoding makes of the minutes.
- `HandlerProofs`, on `AccessLogHandler`: `TypeCorrect` and `OwnTelemetry`. The invariant says
  what the field holds for a request nobody disturbed, statement by statement.
- `RefreshChainProofs`: `TypeCorrect`, `ChainConservation` (`ChainsAsStarted` is inductive
  with the types: every step moves a chain between its three places, or starts one; it
  counts threads, which are therefore finitely many) and `ModelsOnlyAdvance`. The latter
  needs that nothing fetched or cached is newer than its source (`NothingFromTheFuture`), that
  a `Start()` which nothing ran beside has fetched nothing older than what it will replace
  (`FetchedReplacesOlder`), and that two threads in one controller both know it
  (`BesideOneAnother`), which `ChainsAsStarted` says takes two chains. `OneWriter` joins them:
  two threads that hold a model of one key are of one controller.
- `HandlerProofs`, on `RedirectRouteHandler`: `OwnQuery` and `RedirectTypeCorrect`. `Alone`
  adds what the field holds at each point of the handler while one request is inside, and that one query at most
  is ever left behind, which is what the test at `RouteExtensions.cs:38` relies on.

Every invariant, action property and refinement the passing runs check is stated by one of
these theorems. Only model-checked are the liveness properties, which are out of this
prover's reach (`EveryMessageLeaves`, `EveryMailLeaves`, `EveryArrivalLeaves`, `StaysFresh`,
`EveryLongStopIsReported`, `EveryRequestIsHandled`, `StopCompletes`, `ConsumersComeBack`).
The violation runs need no proof: their counterexamples are behaviours of the models.

## 5. What is not modelled

- The content of messages, rows, pages and models; scraping; formats. A message is an
  identity, a model is a version.
- The storage SDK's own retries: they appear as a call that failed or whose answer was lost.
- `TablePersister` beyond `Add`, and `Peek` and `ApproximateMessageCount` of the queue: they
  have no caller.
- Failures without effect, such as a dequeue that never reached the service: they are a
  stutter of every module.
- Real time. A timeout may fire at any moment; the five minutes of the arrivals' comparer
  are the only duration with a value.
- A host process that restarts while the cache refreshes: it begins again in `Init`.
- In `RefreshChain`, the two sources `SubteController` tries in turn are one, the data
  entries' expiry and scavenging are one eviction at any time, and the arrivals
  `LiveTrenController` enqueues while it fetches are `LiveTrenArrivals`'.
- What overlapping requests do to a redirect, beyond that it may be wrong: two requests in
  the handler at once can be sent on with each other's query, and once the field holds two
  queries the test for exactly one never cuts it again. `OwnQueryUnlessOverlapped` says so
  in its premise; no comment or test of the repository claims more.
- The session filters. All the actions that carry them only read, except
  `CotizacionController.Post`: that one is a Web API action under an MVC attribute, which
  Web API does not run, so no session is bound, its repository throws and it answers 500. A
  model would have readers only.
- The scripts under `ABServicios/Scripts` and `ABServicios.Data.Tests/Scripts`: jQuery,
  Bootstrap, Modernizr and Respond as their packages ship them. The program's own logic is
  all C#.
- The branch of the redirect handler for targets that begin with `~/`: no route has one.
- HMAC authentication: a security mechanism, not a question of this model.

Worth knowing, although no document of the repository says otherwise: a block is
deserialized as a whole (`ToList()` in `PollQueue`), so one unreadable message costs every
message of its block a delivery, and the arrivals consumer does not emit on a second
delivery. `LossNeedsMishap` names this in its premise (`spoiled`). With one thread, which
sleeps five seconds after the exception while the block is back after one, a queue no longer
than a block can give it the same unreadable message at every poll; nothing but that
message's age ends this, as `EveryArrivalLeaves` shows.

Every request to `start` of a refreshing controller adds a chain that refreshes beside the
others until the process ends: `ChainsAsStarted` says that it is one and no more, and
`NeverGoesBack` that only two such chains of a controller can show an older model after a
newer one. And every station of a branch is reported and shown as having a train in it, both
ways, at every round, since the minutes of the answer are not bound. So nothing can be said
of whether a reported train was there, only that what is shown and what is reported agree
(`PublishedIsReported`) and that no train which stays is missed (`EveryLongStopIsReported`).

## 6. Plan

Done: the queue, its three consumers, the process they run in, the refresh, the producers of
arrivals and of the access log, and the redirects, with the theorems of section 4. Left, in
this order:

1. `LiveTrenArrivals` composed with `TrenEnEstacionReduceDuplicates`: what becomes of a
   train that was reported twice.
2. Pure parts: the query builder's clauses against a reference definition,
   `AbstractEntity`'s equality, the transformation of a query into its row count.
