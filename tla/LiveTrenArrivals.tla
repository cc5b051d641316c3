-------------------------- MODULE LiveTrenArrivals --------------------------
(***************************************************************************)
(* LiveTrenController.cs as a producer: while it builds the model of a     *)
(* branch it enqueues one TrenEnEstacion for every direction of a station  *)
(* with zero minutes to go, and only then is the model put in the cache.   *)
(*                                                                         *)
(* RefreshChain is about when Start() runs: DataConfig starts one chain of *)
(* rounds and every POST api/livetren/start adds one, so rounds overlap.   *)
(* TrenEnEstacionReduceDuplicates is about the queue.                      *)
(***************************************************************************)
EXTENDS Naturals, Sequences

CONSTANTS
    Chains,       \* the chains of rounds
    Ramales,      \* the list of branches: how many stations the source of each lists
    Failing,      \* positions in Ramales whose source may fail, or always does
    MaxStops,     \* bound on the stops of trains, over all platforms
    MaxFailures   \* bound on the enqueues that fail

Funs == INSTANCE Functions

\* One of the two directions at a station, which is known by its place in the list.
Platforms == UNION {{r} \X (1 .. Ramales[r]) \X {"Ida", "Vuelta"} : r \in DOMAIN Ramales}

\* The platform at a time: so many trains have stopped there.
Stops == Platforms \X Nat

ASSUME RamalesAssumption == Ramales \in Seq(Nat)
ASSUME MaxFailuresAssumption == MaxFailures \in Nat

\* A model is the set of the stops it shows, those with zero minutes to go.
\* _defaultModel lists no stations.
DefaultModel == {}

VARIABLES stop,      \* of each platform: how many trains have stopped there
          standing,  \* the platforms at which a train stands now
          data,      \* what Get answers for each branch: the cached model or the default
          pos,       \* of each chain: the branch its Start() is at, 0 between two rounds
          fetched,   \* ... GetModel has got the answer of its source, or an exception
          result,    \* ... what it will return
          rest,      \* ... the stops it has still to enqueue before
          reported,  \* history: the stops enqueued so far
          failures

vars == <<stop, standing, data, pos, fetched, result, rest, reported, failures>>

TypeOK == /\ stop \in [Platforms -> Nat]
          /\ standing \subseteq Platforms
          /\ data \in [DOMAIN Ramales -> SUBSET Stops]
          /\ pos \in [Chains -> 0 .. Len(Ramales) + 1]
          /\ fetched \in [Chains -> BOOLEAN]
          /\ result \in [Chains -> SUBSET Stops]
          /\ rest \in [Chains -> SUBSET Stops]
          /\ reported \subseteq Stops
          /\ failures \in 0 .. MaxFailures
          /\ \A c \in Chains :
                /\ rest[c] \subseteq result[c]
                /\ fetched[c] => pos[c] \in DOMAIN Ramales
                /\ ~fetched[c] => result[c] = DefaultModel

\* No chain has begun: DataConfig's does at once, a request's whenever it comes.
Init == /\ stop = [p \in Platforms |-> 0]
        /\ standing = {}
        /\ data = [r \in DOMAIN Ramales |-> DefaultModel]
        /\ pos = [c \in Chains |-> 0]
        /\ fetched = [c \in Chains |-> FALSE]
        /\ result = [c \in Chains |-> DefaultModel]
        /\ rest = [c \in Chains |-> {}]
        /\ reported = {}
        /\ failures = 0

-----------------------------------------------------------------------------
(* What the source says and what is read of it. *)

\* The service answers with the minutes to go of the next trains of a station.
ToGo(p) == IF p \in standing THEN 0 ELSE 1
Answer(r, i) == [minutos_1 |-> ToGo(<<r, i, "Ida">>), minutos_3 |-> ToGo(<<r, i, "Vuelta">>)]

\* Json.Decode goes by the names of the members, which are not those of the answer,
\* and not by their [JsonProperty]: what it finds no value for stays default(int).
Bound(answer, member) == IF member \in DOMAIN answer THEN answer[member] ELSE 0

Ida1(r, i) == Bound(Answer(r, i), "MinutosI1")
Vuelta1(r, i) == Bound(Answer(r, i), "MinutosV1")
Minutes(p) == IF p[3] = "Ida" THEN Ida1(p[1], p[2]) ELSE Vuelta1(p[1], p[2])

\* estaciones.Where(x => x.Ida1.Equals(0) || x.Vuelta1.Equals(0))
Shown(r, i) == Ida1(r, i) = 0 \/ Vuelta1(r, i) = 0

Zero(r) == {p \in Platforms : p[1] = r /\ Minutes(p) = 0}
Model(r) == {<<p, stop[p]>> : p \in Zero(r)}

\* What the loop enqueues for a branch.
Arrivals(r) == {<<p, stop[p]>> : p \in {q \in Zero(r) : Shown(r, q[2])}}

\* In which order: station by station, Ida before Vuelta.
Before(p, q) == p[2] < q[2] \/ (p[2] = q[2] /\ p[3] = "Ida" /\ q[3] = "Vuelta")

IsNext(c, a) == a \in rest[c] /\ \A b \in rest[c] \ {a} : Before(a[1], b[1])

-----------------------------------------------------------------------------
(* Start() of a chain. *)

\* Its control entry has expired or was overwritten, DataConfig queues the first
\* Start(), or a request runs one.
Begin(c) == /\ pos[c] = 0
            /\ pos' = [pos EXCEPT ![c] = 1]
            /\ UNCHANGED <<stop, standing, data, fetched, result, rest, reported, failures>>

Visits(c) == pos[c] \in DOMAIN Ramales

\* The source of the branch answers.
Fetch(c) == /\ Visits(c) /\ ~fetched[c]
            /\ fetched' = [fetched EXCEPT ![c] = TRUE]
            /\ rest' = [rest EXCEPT ![c] = Arrivals(pos[c])]
            /\ result' = [result EXCEPT ![c] = Model(pos[c])]
            /\ UNCHANGED <<stop, standing, data, pos, reported, failures>>

\* Mutant: without GetModel's catch, the exception ends the round.
FetchFails_Aborts(c) ==
    /\ Visits(c) /\ ~fetched[c]
    /\ pos[c] \in Failing
    /\ pos' = [pos EXCEPT ![c] = Len(Ramales) + 1]
    /\ UNCHANGED <<stop, standing, data, fetched, result, rest, reported, failures>>

\* It does not, or the key of its page is not found: GetModel's catch.
FetchFails(c) == /\ Visits(c) /\ ~fetched[c]
                 /\ pos[c] \in Failing
                 /\ fetched' = [fetched EXCEPT ![c] = TRUE]
                 /\ result' = [result EXCEPT ![c] = DefaultModel]
                 /\ UNCHANGED <<stop, standing, data, pos, rest, reported, failures>>

\* AzureQueue.Enqueue(new TrenEnEstacion...) of the next one.
EnqueueNext(c) ==
    \E a \in rest[c] :
        /\ IsNext(c, a)
        /\ reported' = reported \cup {a}
        /\ rest' = [rest EXCEPT ![c] = @ \ {a}]
        /\ UNCHANGED <<stop, standing, data, pos, fetched, result, failures>>

\* An enqueue throws, the message being there or not.
Throws(c, a) == /\ IsNext(c, a)
                /\ failures < MaxFailures
                /\ failures' = failures + 1
                /\ reported' \in {reported, reported \cup {a}}
                /\ UNCHANGED <<stop, standing, data, pos, fetched>>

\* Mutants: the failure is caught inside the loop, or the loop goes on after it.
EnqueueFails_Skipped(c) == \E a \in rest[c] : /\ Throws(c, a)
                                              /\ rest' = [rest EXCEPT ![c] = @ \ {a}]
                                              /\ UNCHANGED result
EnqueueFails_GoesOn(c) == \E a \in rest[c] :
                             /\ Throws(c, a)
                             /\ result' = [result EXCEPT ![c] = DefaultModel]
                             /\ rest' = [rest EXCEPT ![c] = @ \ {a}]

\* The rest is not reported and the model that was fetched is thrown away.
EnqueueFails(c) == \E a \in rest[c] : /\ Throws(c, a)
                                      /\ result' = [result EXCEPT ![c] = DefaultModel]
                                      /\ rest' = [rest EXCEPT ![c] = {}]

\* _cache.Put(GetCacheKey(ramal), result, one day)
Store(c) == /\ Visits(c) /\ fetched[c] /\ rest[c] = {}
            /\ data' = [data EXCEPT ![pos[c]] = result[c]]
            /\ fetched' = [fetched EXCEPT ![c] = FALSE]
            /\ result' = [result EXCEPT ![c] = DefaultModel]
            /\ pos' = [pos EXCEPT ![c] = @ + 1]
            /\ UNCHANGED <<stop, standing, rest, reported, failures>>

\* finally Refresh(): the control entry is put for 15 seconds.
Refresh(c) == /\ pos[c] = Len(Ramales) + 1
              /\ pos' = [pos EXCEPT ![c] = 0]
              /\ UNCHANGED <<stop, standing, data, fetched, result, rest, reported, failures>>

-----------------------------------------------------------------------------
(* The railway. *)

StopsSoFar == Funs!FoldFunction(+, 0, stop)

TrainStops(p) == /\ p \notin standing /\ StopsSoFar < MaxStops
                 /\ standing' = standing \cup {p}
                 /\ stop' = [stop EXCEPT ![p] = @ + 1]
                 /\ UNCHANGED <<data, pos, fetched, result, rest, reported, failures>>

TrainLeaves(p) == /\ p \in standing
                  /\ standing' = standing \ {p}
                  /\ UNCHANGED <<stop, data, pos, fetched, result, rest, reported, failures>>

-----------------------------------------------------------------------------
Step(c) == \/ Fetch(c) \/ FetchFails(c) \/ EnqueueNext(c) \/ EnqueueFails(c)
           \/ Store(c) \/ Refresh(c)

Next == \/ \E c \in Chains : Begin(c) \/ Step(c)
        \/ \E p \in Platforms : TrainStops(p) \/ TrainLeaves(p)

Spec == Init /\ [][Next]_vars

\* As in RefreshChain: a running Start() goes on, and where no round runs the next
\* one of some chain begins.  Trains come and go as they please.
FairSpec == /\ Spec
            /\ \A c \in Chains : WF_vars(Step(c))
            /\ WF_vars(\E c \in Chains : Begin(c))

-----------------------------------------------------------------------------
(* Correctness. *)

\* A cached model never shows a train in a station that was not reported to the
\* queue before: what the API's users see and what the statistics of arrivals are
\* made of agree, also when reporting fails half-way and when rounds overlap.
\* (That either is a train's is not so: see Bound.)
PublishedIsReported == \A r \in DOMAIN Ramales : data[r] \subseteq reported

\* A train that stays long enough is reported, whatever the sources of the other
\* branches do and however reporting fails, if the source of its own answers.
EveryLongStopIsReported ==
    \A p \in Platforms, n \in 1 .. MaxStops :
        p[1] \notin Failing =>
            (<>[](p \in standing /\ stop[p] = n) => <>(<<p, n>> \in reported))
=============================================================================
