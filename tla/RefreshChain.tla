---------------------------- MODULE RefreshChain ----------------------------
(***************************************************************************)
(* The self-renewing refresh of the API controllers over the ASP.NET cache *)
(* (WebCache.cs, DataConfig.cs, SubteController, TrenController,           *)
(* BicicletaController, AvionController, CotizacionController,             *)
(* LiveTrenController, ReservasController).                                *)
(*                                                                         *)
(* No timer drives it.  Start() fetches a controller's sources, puts each  *)
(* result under its data key and finally puts an entry under the control   *)
(* key; when that entry expires the cache calls its removed callback,      *)
(* which is Start().  The cache (HttpRuntime.Cache) is external: an entry  *)
(* that expires, is removed or is overwritten has its callback called.     *)
(* Start() is also a public method of a Web API controller: the route      *)
(* api/{controller}/{action} lets a request run it at any time.            *)
(***************************************************************************)
EXTENDS Naturals, Sequences, FiniteSets

CONSTANTS
    Controllers,
    Launched,     \* those DataConfig launches: all but ReservasController
    Keys,         \* the data keys, one for each source
    Order,        \* of each controller: its keys as Start() visits them
    OnFailure,    \* of each controller: what a failing source does to Start()
    ReadThrough,  \* keys a request fills on a miss (AvionController)
    Failing,      \* keys whose source may fail, now and then or always
    Threads, Readers,
    Idle,         \* "this thread, or reader, does nothing"
    Changing,     \* bound: the keys whose source changes at all
    MaxVersion,   \* bound on how often it does
    MaxAsked,     \* bound, of each controller: how many requests run its Start()
    Default,      \* a default model
    Missing       \* no such entry in the cache, or nothing fetched yet

\* "abort": the exception leaves the loop (Tren, Bicicleta, Avion); "skip": it
\* is counted and the next key is tried (Cotizacion); "default": GetModel catches
\* it and returns the default model (Subte, LiveTren,
\* Reservas).
ASSUME ControllersAssumption ==
    /\ Launched \subseteq Controllers
    /\ \A c \in Controllers : /\ Order[c] \in Seq(Keys)
                              /\ OnFailure[c] \in {"abort", "skip", "default"}
                              /\ MaxAsked[c] \in Nat
ASSUME ThreadsAssumption == IsFiniteSet(Threads)
\* No key is written by two controllers: each has its own prefix or type.
ASSUME KeysAssumption ==
    \A c, d \in Controllers :
        \A i \in 1 .. Len(Order[c]), j \in 1 .. Len(Order[d]) :
            Order[c][i] = Order[d][j] => c = d
ASSUME ReadThroughAssumption == ReadThrough \subseteq Keys
ASSUME ModelsAssumption == /\ MaxVersion \in Nat
                           /\ Default \notin Nat /\ Missing \notin Nat
                           /\ Default # Missing

Versions == 0 .. MaxVersion
Models == Versions \cup {Default}

VARIABLES version,    \* what each source would answer now
          data,       \* the cache's data entries
          control,    \* is the controller's control entry in the cache?
          workItems,  \* of each controller: how many Start()s wait for a thread
          asked,      \* of each controller: how many Start()s requests have run
          runs,       \* of each thread: the Start() it runs, or Idle
          reads       \* of each reader: the miss it is filling, or Idle

vars == <<version, data, control, workItems, asked, runs, reads>>

\* alone is history: no other Start() of the controller has run beside this one.
Run == [ctl : Controllers, pos : Nat \ {0}, got : Models \cup {Missing},
        alone : BOOLEAN]
Read == [key : ReadThrough, got : Versions \cup {Missing}]

ASSUME IdleAssumption == Idle \notin Run \cup Read

TypeOK == /\ version \in [Keys -> Versions]
          /\ data \in [Keys -> Models \cup {Missing}]
          /\ control \in [Controllers -> BOOLEAN]
          /\ workItems \in [Controllers -> Nat]
          /\ asked \in [Controllers -> Nat]
          /\ runs \in [Threads -> Run \cup {Idle}]
          /\ reads \in [Readers -> Read \cup {Idle}]
          /\ \A t \in Threads : runs[t] # Idle =>
                /\ runs[t].pos <= Len(Order[runs[t].ctl]) + 1
                /\ runs[t].got # Missing => runs[t].pos <= Len(Order[runs[t].ctl])

\* DataConfig.StartInitial queues one Start() of each controller it launches.
Init == /\ version = [k \in Keys |-> 0]
        /\ data = [k \in Keys |-> Missing]
        /\ control = [c \in Controllers |-> FALSE]
        /\ workItems = [c \in Controllers |-> IF c \in Launched THEN 1 ELSE 0]
        /\ asked = [c \in Controllers |-> 0]
        /\ runs = [t \in Threads |-> Idle]
        /\ reads = [r \in Readers |-> Idle]

-----------------------------------------------------------------------------
(* Start() on a thread. *)

Runs(t, c) == runs[t] # Idle /\ runs[t].ctl = c
Running(c) == {t \in Threads : Runs(t, c)}

\* A thread enters Start(), beside those that are in it already.
Enter(t, c) ==
    /\ runs[t] = Idle
    /\ runs' = [u \in Threads |->
                   IF u = t THEN [ctl |-> c, pos |-> 1, got |-> Missing,
                                  alone |-> Running(c) = {}]
                   ELSE IF Runs(u, c) THEN [runs[u] EXCEPT !.alone = FALSE]
                   ELSE runs[u]]

\* Mutant: the control entry is put when Start() begins instead of when it ends.
Begin_RefreshFirst(t, c) ==
    /\ workItems[c] > 0
    /\ Enter(t, c)
    /\ control' = [control EXCEPT ![c] = TRUE]
    /\ workItems' = [workItems EXCEPT ![c] = @ - 1]
    /\ UNCHANGED <<version, data, asked, reads>>

\* A thread takes one of the Start()s that wait.
Begin(t, c) == /\ workItems[c] > 0
               /\ Enter(t, c)
               /\ workItems' = [workItems EXCEPT ![c] = @ - 1]
               /\ UNCHANGED <<version, data, control, asked, reads>>

\* POST api/<controller>/start: the action is public and asks for no signature,
\* and nothing in it looks at the control entry or at other Start()s.
StartByRequest(t, c) == /\ asked[c] < MaxAsked[c]
                        /\ Enter(t, c)
                        /\ asked' = [asked EXCEPT ![c] = @ + 1]
                        /\ UNCHANGED <<version, data, control, workItems, reads>>

Visits(t) == runs[t] # Idle /\ runs[t].pos <= Len(Order[runs[t].ctl])
KeyOf(t) == Order[runs[t].ctl][runs[t].pos]

\* GetModel of the next key answers with what the source says at that moment.
Fetch(t) == /\ Visits(t)
            /\ runs[t].got = Missing
            /\ runs' = [runs EXCEPT ![t].got = version[KeyOf(t)]]
            /\ UNCHANGED <<version, data, control, workItems, asked, reads>>

\* Mutant: the exception leaves Start() without its finally block.
FetchFails_NoFinally(t) == /\ Visits(t)
                           /\ runs[t].got = Missing
                           /\ KeyOf(t) \in Failing
                           /\ runs' = [runs EXCEPT ![t] = Idle]
                           /\ UNCHANGED <<version, data, control, workItems, asked, reads>>

\* The source does not answer, or not what GetModel expects.
SourceFails(t) == /\ Visits(t)
                  /\ runs[t].got = Missing
                  /\ KeyOf(t) \in Failing

\* GetModel throws, and the exception leaves Start()'s loop.
FetchAborts(t) == /\ OnFailure[runs[t].ctl] = "abort"
                  /\ runs' = [runs EXCEPT ![t].pos = Len(Order[runs[t].ctl]) + 1]

\* It throws inside a try of its own: error++, and the next source is asked.
FetchSkips(t) == /\ OnFailure[runs[t].ctl] = "skip"
                 /\ runs' = [runs EXCEPT ![t].pos = @ + 1]

\* GetModel catches, and returns the default model for lack of a better source.
FetchDefaults(t) == /\ OnFailure[runs[t].ctl] = "default"
                    /\ runs' = [runs EXCEPT ![t].got = Default]

FetchFails(t) == /\ SourceFails(t)
                 /\ FetchAborts(t) \/ FetchSkips(t) \/ FetchDefaults(t)
                 /\ UNCHANGED <<version, data, control, workItems, asked, reads>>

\* Mutant: the variable result keeps its model for the next key.
Store_KeepsResult(t) == /\ Visits(t)
                        /\ runs[t].got # Missing
                        /\ data' = [data EXCEPT ![KeyOf(t)] = runs[t].got]
                        /\ runs' = [runs EXCEPT ![t].pos = @ + 1]
                        /\ UNCHANGED <<version, control, workItems, asked, reads>>

\* cache.Put(CacheKey, result, one day).
Store(t) == /\ Visits(t)
            /\ runs[t].got # Missing
            /\ data' = [data EXCEPT ![KeyOf(t)] = runs[t].got]
            /\ runs' = [runs EXCEPT ![t].pos = @ + 1, ![t].got = Missing]
            /\ UNCHANGED <<version, control, workItems, asked, reads>>

\* finally Refresh(): cache.Put(CacheControlKey, ..., NotRemovable, Start).  The
\* insert over an entry that is there calls that entry's callback: on this thread
\* or on another is the cache's business, so it is one more Start() that waits.
PutControl(c) ==
    /\ control' = [control EXCEPT ![c] = TRUE]
    /\ workItems' = [workItems EXCEPT ![c] = IF control[c] THEN @ + 1 ELSE @]

Refresh(t) == /\ runs[t] # Idle /\ ~Visits(t)
              /\ PutControl(runs[t].ctl)
              /\ runs' = [runs EXCEPT ![t] = Idle]
              /\ UNCHANGED <<version, data, asked, reads>>

-----------------------------------------------------------------------------
(* The cache, the sources and the requests. *)

\* The control entry's time is over: the cache calls Start().
ControlExpires(c) == /\ control[c]
                     /\ control' = [control EXCEPT ![c] = FALSE]
                     /\ workItems' = [workItems EXCEPT ![c] = @ + 1]
                     /\ UNCHANGED <<version, data, asked, runs, reads>>

\* A data entry expires, is scavenged under memory pressure or is evicted by
\* StatusController.RemoveAll; it has no callback.
Evict(k) == /\ data[k] # Missing
            /\ data' = [data EXCEPT ![k] = Missing]
            /\ UNCHANGED <<version, control, workItems, asked, runs, reads>>

SourceChanges(k) == /\ k \in Changing
                    /\ version[k] < MaxVersion
                    /\ version' = [version EXCEPT ![k] = @ + 1]
                    /\ UNCHANGED <<data, control, workItems, asked, runs, reads>>

\* Partidas and Arribos find nothing in the cache...
ReadMiss(r, k) == /\ reads[r] = Idle
                  /\ data[k] = Missing
                  /\ reads' = [reads EXCEPT ![r] = [key |-> k, got |-> Missing]]
                  /\ UNCHANGED <<version, data, control, workItems, asked, runs>>

\* ...ask the source themselves...
ReadFetch(r) == /\ reads[r] # Idle /\ reads[r].got = Missing
                /\ \/ reads' = [reads EXCEPT ![r].got = version[reads[r].key]]
                   \/ /\ reads[r].key \in Failing
                      /\ reads' = [reads EXCEPT ![r] = Idle]
                /\ UNCHANGED <<version, data, control, workItems, asked, runs>>

\* ...and put what they got for two minutes, over whatever is there by now.
ReadStore(r) == /\ reads[r] # Idle /\ reads[r].got # Missing
                /\ data' = [data EXCEPT ![reads[r].key] = reads[r].got]
                /\ reads' = [reads EXCEPT ![r] = Idle]
                /\ UNCHANGED <<version, control, workItems, asked, runs>>

-----------------------------------------------------------------------------
Step(t) == Fetch(t) \/ FetchFails(t) \/ Store(t) \/ Refresh(t)

Next == \/ \E t \in Threads :
              Step(t) \/ \E c \in Controllers : Begin(t, c) \/ StartByRequest(t, c)
        \/ \E c \in Controllers : ControlExpires(c)
        \/ \E k \in Keys : Evict(k) \/ SourceChanges(k)
        \/ \E r \in Readers : \/ \E k \in ReadThrough : ReadMiss(r, k)
                              \/ ReadFetch(r) \/ ReadStore(r)

Spec == Init /\ [][Next]_vars

\* A running Start() goes on (its HTTP calls time out) and the cache's clock too.
\* The pool's queue is first in, first out: a work item that finds a free thread
\* again and again is run, although there are more controllers than threads.
\* Nothing makes requests or evictions happen.
FairSpec == /\ Spec
            /\ \A t \in Threads : WF_vars(Step(t))
            /\ \A c \in Controllers : /\ SF_vars(\E t \in Threads : Begin(t, c))
                                      /\ WF_vars(ControlExpires(c))

-----------------------------------------------------------------------------
(* Correctness. *)

\* A chain is a Start() that waits, one that runs, or the control entry that will
\* call the next one.
Chains(c) == workItems[c] + Cardinality(Running(c)) + IF control[c] THEN 1 ELSE 0
Started(c) == asked[c] + IF c \in Launched THEN 1 ELSE 0

\* Every controller has as many chains as were ever started, one by DataConfig and
\* one by each request that ran Start(): failures and expiries never lose one (the
\* data would go stale for ever), and no chain multiplies by itself.  That a
\* request's chain never ends either is what the code does, not what it says.
ChainsAsStarted == \A c \in Controllers : Chains(c) = Started(c)

Older(k) == data[k] \in Versions /\ data'[k] \in Versions /\ data'[k] < data[k]

\* A Start() is at k that another one of its controller ran beside, and a request
\* has started a second chain.
Overlapped(k) == \E t \in Threads : /\ Visits(t) /\ KeyOf(t) = k
                                   /\ ~runs[t].alone
                                   /\ Started(runs[t].ctl) > 1

\* Unless requests fill misses of the key too, a cached model is replaced by an
\* older one of the same source only by a Start() that another Start() of its
\* controller ran beside, and only after a request has started a second chain: a
\* round never overtakes an earlier round of its own chain.  (Of a key that is
\* filled on a miss too, a request and a Start(), or two requests, fetch and put
\* without knowing of each other.)
NeverGoesBack == [][\A k \in Keys \ ReadThrough : Older(k) => Overlapped(k)]_vars

\* Start() of a launched controller visits k in every round: no source before it
\* can end the round.
AlwaysVisited(k) ==
    \E c \in Launched : \E i \in 1 .. Len(Order[c]) :
        /\ Order[c][i] = k
        /\ OnFailure[c] = "abort" => \A j \in 1 .. i - 1 : Order[c][j] \notin Failing

\* Whatever the failing sources do, whatever is evicted and however many chains
\* requests start, a key whose source
\* answers shows the source's current content again and again.  Of the
\* controllers that give up at the first failure this holds only up to that key.
StaysFresh == \A k \in Keys \ Failing : AlwaysVisited(k) => []<>(data[k] = version[k])
=============================================================================
