------------------------- MODULE RefreshChainProofs -------------------------
(***************************************************************************)
(* Proofs about RefreshChain: for any controllers, keys, threads, readers, *)
(* failing sources, versions and requests, every controller keeps as many  *)
(* chains as were started, and only a Start() that another one ran beside  *)
(* replaces a model by an older one.                                       *)
(***************************************************************************)
EXTENDS RefreshChain, FiniteSetTheorems, TLAPS

\* No fetched or cached model is newer than its source, and a model that a Start()
\* running alone has fetched and not stored yet is at least as new as the one it
\* will replace.
Fetched(t) == Visits(t) /\ runs[t].got \in Versions

NothingFromTheFuture ==
    /\ \A k \in Keys : data[k] \in Versions => data[k] <= version[k]
    /\ \A t \in Threads : Fetched(t) => runs[t].got <= version[KeyOf(t)]
    /\ \A r \in Readers : reads[r] # Idle /\ reads[r].got \in Versions =>
          reads[r].got <= version[reads[r].key]

FetchedReplacesOlder ==
    \A t \in Threads :
        /\ Fetched(t) /\ runs[t].alone
        /\ KeyOf(t) \notin ReadThrough /\ data[KeyOf(t)] \in Versions
        => data[KeyOf(t)] <= runs[t].got

LEMMA TypeInit == Init => TypeOK
  BY ModelsAssumption DEF Init, TypeOK, Versions

LEMMA RunningFinite ==
    ASSUME NEW c \in Controllers
    PROVE  IsFiniteSet(Running(c)) /\ Cardinality(Running(c)) \in Nat
  BY ThreadsAssumption, FS_Subset, FS_CardinalityType DEF Running

\* A visited position is one of the controller's order, and holds a key.
LEMMA VisitedKey ==
    ASSUME TypeOK, NEW t \in Threads, Visits(t)
    PROVE  /\ runs[t] \in Run
           /\ runs[t].pos \in 1 .. Len(Order[runs[t].ctl])
           /\ KeyOf(t) \in Keys
  <1>1. runs[t] \in Run
    BY DEF TypeOK, Visits
  <1>2. runs[t].pos \in Nat \ {0} /\ runs[t].ctl \in Controllers
    BY <1>1 DEF Run
  <1>3. Order[runs[t].ctl] \in Seq(Keys)
    BY <1>2, ControllersAssumption
  <1>4. Len(Order[runs[t].ctl]) \in Nat
    BY <1>3
  <1>5. runs[t].pos \in 1 .. Len(Order[runs[t].ctl])
    BY <1>2, <1>4 DEF Visits
  <1>6. QED
    BY <1>1, <1>3, <1>5 DEF KeyOf

\* What a step of Start() leaves of its run is again a run, or nothing.
LEMMA StepTyped ==
    ASSUME TypeOK, NEW t \in Threads, Step(t)
    PROVE  TypeOK'
  <1>0. runs[t] \in Run /\ runs[t] # Idle
    BY DEF Step, Fetch, FetchFails, SourceFails, FetchAborts, FetchSkips,
           FetchDefaults, Store, Refresh, Visits, TypeOK
  <1> DEFINE c == runs[t].ctl
  <1>1. c \in Controllers /\ Len(Order[c]) \in Nat /\ runs[t].pos \in Nat \ {0}
    BY <1>0, ControllersAssumption DEF Run
  <1>2. CASE Fetch(t)
    <2>1. version[KeyOf(t)] \in Versions
      BY <1>2, VisitedKey DEF Fetch, TypeOK
    <2>2. QED
      BY <1>0, <1>1, <1>2, <2>1 DEF Fetch, TypeOK, Run, Models, Visits
  <1>3. CASE FetchFails(t)
    <2>0. /\ runs[t].got = Missing /\ runs[t].pos <= Len(Order[c])
          /\ UNCHANGED <<version, data, control, workItems, asked, reads>>
      BY <1>3 DEF FetchFails, SourceFails, Visits
    <2>1. CASE FetchAborts(t)
      <3> DEFINE end == [runs[t] EXCEPT !.pos = Len(Order[c]) + 1]
      <3>1. end \in Run /\ end.ctl = c /\ end.got = Missing /\ end.pos = Len(Order[c]) + 1
        BY <1>0, <1>1, <2>0 DEF Run
      <3>2. runs' = [runs EXCEPT ![t] = end]
        BY <2>1 DEF FetchAborts
      <3> HIDE DEF end
      <3>3. QED
        BY <1>1, <2>0, <3>1, <3>2 DEF TypeOK
    <2>2. CASE FetchSkips(t)
      <3> DEFINE next == [runs[t] EXCEPT !.pos = @ + 1]
      <3>1. next \in Run /\ next.ctl = c /\ next.got = Missing /\ next.pos = runs[t].pos + 1
        BY <1>0, <1>1, <2>0 DEF Run
      <3>2. runs' = [runs EXCEPT ![t] = next]
        BY <2>2 DEF FetchSkips
      <3> HIDE DEF next
      <3>3. QED
        BY <1>1, <2>0, <3>1, <3>2 DEF TypeOK
    <2>3. CASE FetchDefaults(t)
      BY <1>0, <1>1, <2>0, <2>3 DEF FetchDefaults, TypeOK, Run, Models
    <2>4. QED
      BY <1>3, <2>1, <2>2, <2>3 DEF FetchFails
  <1>4. CASE Store(t)
    <2>1. runs[t].got \in Models
      BY <1>0, <1>4 DEF Store, Run
    <2>2. QED
      BY <1>0, <1>1, <1>4, <2>1, VisitedKey DEF Store, TypeOK, Run, Visits
  <1>5. CASE Refresh(t)
    BY <1>0, <1>1, <1>5 DEF Refresh, PutControl, TypeOK
  <1>6. QED
    BY <1>2, <1>3, <1>4, <1>5 DEF Step

\* A run that a step of another thread leaves as it is, up to being alone.
SameWork(u) == /\ runs'[u] = Idle <=> runs[u] = Idle
               /\ runs[u] # Idle =>
                     /\ runs'[u].ctl = runs[u].ctl
                     /\ runs'[u].pos = runs[u].pos
                     /\ runs'[u].got = runs[u].got
                     /\ runs'[u].alone => runs[u].alone

\* What entering Start() does to the runs.
LEMMA Entered ==
    ASSUME TypeOK, NEW t \in Threads, NEW c \in Controllers, Enter(t, c)
    PROVE  /\ runs[t] = Idle /\ runs'[t] # Idle
           /\ runs'[t].ctl = c /\ runs'[t].pos = 1 /\ runs'[t].got = Missing
           /\ runs'[t].alone <=> Running(c) = {}
           /\ \A u \in Threads : u # t => SameWork(u)
           /\ \A u \in Threads : u # t /\ Runs(u, c) => ~runs'[u].alone
           /\ \A u \in Threads : u # t /\ ~Runs(u, c) => runs'[u] = runs[u]
           /\ runs' \in [Threads -> Run \cup {Idle}]
  <1> DEFINE none == Running(c) = {}
             new == [ctl |-> c, pos |-> 1, got |-> Missing, alone |-> none]
  <1>0. none \in BOOLEAN
    OBVIOUS
  <1>2. runs[t] = Idle /\ runs'[t] = new
    BY DEF Enter
  <1>a. none <=> Running(c) = {}
    OBVIOUS
  <1> HIDE DEF none
  <1>1. /\ new \in Run /\ new # Idle
        /\ new.ctl = c /\ new.pos = 1 /\ new.got = Missing /\ (new.alone <=> none)
    BY <1>0, IdleAssumption DEF Run
  <1> HIDE DEF new
  <1>3. ASSUME NEW u \in Threads, u # t, Runs(u, c)
        PROVE  SameWork(u) /\ ~runs'[u].alone /\ runs'[u] \in Run
    <2>1. runs[u] \in Run /\ runs'[u] = [runs[u] EXCEPT !.alone = FALSE]
      BY <1>3 DEF Enter, TypeOK, Runs
    <2>2. runs'[u] \in Run
      BY <2>1 DEF Run
    <2>3. runs'[u] # Idle /\ runs[u] # Idle
      BY <2>1, <2>2, IdleAssumption
    <2>4. QED
      BY <2>1, <2>2, <2>3 DEF SameWork, Run
  <1>4. ASSUME NEW u \in Threads, u # t, ~Runs(u, c)
        PROVE  runs'[u] = runs[u] /\ SameWork(u)
    BY <1>4 DEF Enter, SameWork
  <1>5. runs' \in [Threads -> Run \cup {Idle}]
    <2>1. \A u \in Threads : runs'[u] \in Run \cup {Idle}
      BY <1>1, <1>2, <1>3, <1>4 DEF TypeOK
    <2>2. \E f : runs' = [u \in Threads |-> f[u]]
      <3>1. runs' = [u \in Threads |-> runs'[u]]
        BY DEF Enter
      <3>2. QED
        BY <3>1
    <2>3. QED
      BY <2>1, <2>2
  <1>6. QED
    BY <1>1, <1>2, <1>3, <1>4, <1>5, <1>a

LEMMA EnterTyped ==
    ASSUME TypeOK, NEW t \in Threads, NEW c \in Controllers,
           Begin(t, c) \/ StartByRequest(t, c)
    PROVE  TypeOK'
  <1>1. Enter(t, c)
    BY DEF Begin, StartByRequest
  <1>2. runs' \in [Threads -> Run \cup {Idle}]
    BY <1>1, Entered
  <1>3. ASSUME NEW u \in Threads, runs'[u] # Idle
        PROVE  /\ runs'[u].pos <= Len(Order[runs'[u].ctl]) + 1
               /\ runs'[u].got # Missing => runs'[u].pos <= Len(Order[runs'[u].ctl])
    <2>1. CASE u = t
      <3>1. Len(Order[c]) \in Nat
        BY ControllersAssumption
      <3>2. runs'[u].pos = 1 /\ runs'[u].ctl = c /\ runs'[u].got = Missing
        BY <1>1, <2>1, Entered
      <3>3. QED
        BY <3>1, <3>2
    <2>2. CASE u # t
      <3>1. SameWork(u)
        BY <1>1, <2>2, Entered
      <3>2. QED
        BY <1>3, <3>1 DEF SameWork, TypeOK
    <2>3. QED
      BY <2>1, <2>2
  <1>4. workItems' \in [Controllers -> Nat] /\ asked' \in [Controllers -> Nat]
    BY DEF Begin, StartByRequest, TypeOK
  <1>5. UNCHANGED <<version, data, control, reads>>
    BY DEF Begin, StartByRequest
  <1>6. QED
    BY <1>2, <1>3, <1>4, <1>5 DEF TypeOK

LEMMA CacheTyped ==
    ASSUME TypeOK,
           \/ \E c \in Controllers : ControlExpires(c)
           \/ \E k \in Keys : Evict(k) \/ SourceChanges(k)
    PROVE  TypeOK'
  <1>1. CASE \E c \in Controllers : ControlExpires(c)
    BY <1>1 DEF TypeOK, ControlExpires
  <1>2. CASE \E k \in Keys : Evict(k)
    BY <1>2 DEF TypeOK, Evict
  <1>3. CASE \E k \in Keys : SourceChanges(k)
    <2>1. PICK k \in Keys : SourceChanges(k)
      BY <1>3
    <2>2. version[k] + 1 \in Versions
      BY <2>1, ModelsAssumption DEF TypeOK, SourceChanges, Versions
    <2>3. QED
      BY <2>1, <2>2 DEF TypeOK, SourceChanges
  <1>4. QED
    BY <1>1, <1>2, <1>3

ReadStep(r) == (\E k \in ReadThrough : ReadMiss(r, k)) \/ ReadFetch(r) \/ ReadStore(r)

LEMMA ReadTyped ==
    ASSUME TypeOK, NEW r \in Readers, ReadStep(r)
    PROVE  TypeOK'
  <1>1. CASE \E k \in ReadThrough : ReadMiss(r, k)
    BY <1>1 DEF ReadMiss, TypeOK, Read
  <1>2. CASE ReadFetch(r)
    <2>1. reads[r] \in Read /\ version[reads[r].key] \in Versions
      BY <1>2, ReadThroughAssumption DEF ReadFetch, TypeOK, Read
    <2>2. [reads[r] EXCEPT !.got = version[reads[r].key]] \in Read
      BY <2>1 DEF Read
    <2>3. reads' \in [Readers -> Read \cup {Idle}]
      BY <1>2, <2>2 DEF ReadFetch, TypeOK
    <2>4. QED
      BY <1>2, <2>3 DEF ReadFetch, TypeOK
  <1>3. CASE ReadStore(r)
    BY <1>3, ReadThroughAssumption DEF ReadStore, TypeOK, Read, Models
  <1>4. QED
    BY <1>1, <1>2, <1>3 DEF ReadStep

LEMMA NextTyped == TypeOK /\ [Next]_vars => TypeOK'
  <1>1. TypeOK /\ UNCHANGED vars => TypeOK'
    BY DEF TypeOK, vars
  <1>2. QED
    BY <1>1, StepTyped, EnterTyped, CacheTyped, ReadTyped DEF Next, ReadStep

\* Every variable keeps its type.
THEOREM TypeCorrect == Spec => []TypeOK
  BY TypeInit, NextTyped, PTL DEF Spec

-----------------------------------------------------------------------------
(* As many chains as were started. *)

LEMMA ChainInit == Init => ChainsAsStarted
  <1> SUFFICES ASSUME Init, NEW c \in Controllers PROVE Chains(c) = Started(c)
    BY DEF ChainsAsStarted
  <1>1. Cardinality(Running(c)) = 0
    <2>1. Running(c) = {}
      BY DEF Init, Running, Runs
    <2>2. QED
      BY <2>1, FS_EmptySet
  <1>2. QED
    BY <1>1 DEF Init, Chains, Started

\* Inside Start() nothing of the chain moves.
LEMMA WorkKeepsRuns ==
    ASSUME TypeOK, NEW t \in Threads, Fetch(t) \/ FetchFails(t) \/ Store(t)
    PROVE  /\ \A u \in Threads, c \in Controllers : Runs(u, c)' <=> Runs(u, c)
           /\ \A u \in Threads : runs[u] # Idle =>
                 runs'[u].alone = runs[u].alone /\ runs'[u].ctl = runs[u].ctl
           /\ \A u \in Threads : runs'[u] # Idle => runs[u] # Idle
           /\ UNCHANGED <<control, workItems, asked>>
  <1>1. runs[t] \in Run /\ runs[t] # Idle
    BY DEF Fetch, FetchFails, SourceFails, FetchAborts, FetchSkips,
           FetchDefaults, Store, Visits, TypeOK
  <1>2. runs'[t] # Idle /\ runs'[t].ctl = runs[t].ctl /\ runs'[t].alone = runs[t].alone
    <2> USE <1>1 DEF TypeOK, Run
    <2>1. CASE Fetch(t)
      <3>1. version[KeyOf(t)] \in Models
        BY <2>1, VisitedKey DEF Fetch, Models
      <3>2. runs'[t] = [runs[t] EXCEPT !.got = version[KeyOf(t)]]
        BY <2>1 DEF Fetch
      <3>3. QED
        BY <3>1, <3>2, IdleAssumption
    <2>2. CASE FetchFails(t)
      BY <2>2, ControllersAssumption, IdleAssumption
         DEF FetchFails, SourceFails, FetchAborts, FetchSkips, FetchDefaults,
             Models
    <2>3. CASE Store(t)
      BY <2>3, IdleAssumption DEF Store
    <2>4. QED
      BY <2>1, <2>2, <2>3
  <1>3. \A u \in Threads : u # t => runs'[u] = runs[u]
    BY DEF Fetch, FetchFails, SourceFails, FetchAborts, FetchSkips,
           FetchDefaults, Store, TypeOK
  <1>4. \A u \in Threads, c \in Controllers : Runs(u, c)' <=> Runs(u, c)
    BY <1>1, <1>2, <1>3 DEF Runs
  <1>5. UNCHANGED <<control, workItems, asked>>
    BY DEF Fetch, FetchFails, SourceFails, FetchAborts, FetchSkips,
           FetchDefaults, Store
  <1>6. QED
    BY <1>1, <1>2, <1>3, <1>4, <1>5

LEMMA SameRunsKeepChains ==
    ASSUME ChainsAsStarted, UNCHANGED <<control, workItems, asked>>,
           \A u \in Threads, c \in Controllers : Runs(u, c)' <=> Runs(u, c)
    PROVE  ChainsAsStarted'
  <1>1. \A c \in Controllers : Running(c)' = Running(c)
    BY DEF Running
  <1>2. QED
    BY <1>1 DEF ChainsAsStarted, Chains, Started

\* Refresh hands its chain over to the control entry; the entry that was there, if
\* any, hands its own over to a work item.
LEMMA RefreshKeepsChains ==
    ASSUME TypeOK, ChainsAsStarted, NEW t \in Threads, Refresh(t)
    PROVE  ChainsAsStarted'
  <1> DEFINE c == runs[t].ctl
  <1>1. c \in Controllers /\ Runs(t, c) /\ runs'[t] = Idle
    BY DEF Refresh, TypeOK, Run, Runs
  <1>2. \A u \in Threads, d \in Controllers : Runs(u, d)' <=> Runs(u, d) /\ u # t
    BY <1>1 DEF Refresh, TypeOK, Runs
  <1>3. \A d \in Controllers : d # c => ~Runs(t, d)
    BY DEF Runs
  <1> SUFFICES ASSUME NEW d \in Controllers PROVE Chains(d)' = Started(d)'
    BY DEF ChainsAsStarted
  <1>4. Chains(d) = Started(d) /\ Started(d)' = Started(d)
    BY DEF ChainsAsStarted, Started, Refresh
  <1>5. IsFiniteSet(Running(d)) /\ Cardinality(Running(d)) \in Nat
    BY RunningFinite
  <1>6. workItems[d] \in Nat /\ control[d] \in BOOLEAN
    BY DEF TypeOK
  <1>7. CASE d = c
    <2>1. Running(d)' = Running(d) \ {t} /\ t \in Running(d)
      BY <1>1, <1>2, <1>7 DEF Running
    <2>2. Cardinality(Running(d)') = Cardinality(Running(d)) - 1
      BY <1>5, <2>1, FS_RemoveElement
    <2>3. control'[d] /\ workItems'[d] = IF control[d] THEN workItems[d] + 1 ELSE workItems[d]
      BY <1>1, <1>7 DEF Refresh, PutControl, TypeOK
    <2>4. QED
      BY <1>4, <1>5, <1>6, <2>2, <2>3 DEF Chains
  <1>8. CASE d # c
    <2>1. Running(d)' = Running(d)
      BY <1>2, <1>3, <1>8 DEF Running
    <2>2. control'[d] = control[d] /\ workItems'[d] = workItems[d]
      BY <1>1, <1>8 DEF Refresh, PutControl, TypeOK
    <2>3. QED
      BY <1>4, <2>1, <2>2 DEF Chains
  <1>9. QED
    BY <1>7, <1>8

LEMMA EnteredRunning ==
    ASSUME TypeOK, NEW t \in Threads, NEW c \in Controllers, Enter(t, c)
    PROVE  /\ Running(c)' = Running(c) \cup {t}
           /\ \A d \in Controllers : t \notin Running(d)
           /\ \A d \in Controllers : d # c => Running(d)' = Running(d)
           /\ Cardinality(Running(c)') = Cardinality(Running(c)) + 1
  <1>1. runs[t] = Idle /\ runs'[t] # Idle /\ runs'[t].ctl = c
    BY Entered
  <1>2. \A u \in Threads : u # t => SameWork(u)
    BY Entered
  <1>3. \A u \in Threads, d \in Controllers :
            Runs(u, d)' <=> Runs(u, d) \/ (u = t /\ d = c)
    BY <1>1, <1>2 DEF Runs, SameWork
  <1>4. Running(c)' = Running(c) \cup {t} /\ t \notin Running(c)
    BY <1>1, <1>3 DEF Running, Runs
  <1>5. Cardinality(Running(c)') = Cardinality(Running(c)) + 1
    <2>1. IsFiniteSet(Running(c))
      BY RunningFinite
    <2>2. QED
      BY <1>4, <2>1, FS_AddElement
  <1>6. \A d \in Controllers : t \notin Running(d)
    BY <1>1 DEF Running, Runs
  <1>7. \A d \in Controllers : d # c => Running(d)' = Running(d)
    BY <1>3 DEF Running
  <1>8. QED
    BY <1>4, <1>5, <1>6, <1>7

\* Begin takes a chain out of the work items, a request adds one.
LEMMA EnterKeepsChains ==
    ASSUME TypeOK, ChainsAsStarted, NEW t \in Threads, NEW c \in Controllers,
           Begin(t, c) \/ StartByRequest(t, c)
    PROVE  ChainsAsStarted'
  <1> SUFFICES ASSUME NEW d \in Controllers PROVE Chains(d)' = Started(d)'
    BY DEF ChainsAsStarted
  <1>1. Enter(t, c) /\ control' = control
    BY DEF Begin, StartByRequest
  <1>2. Chains(d) = Started(d)
    BY DEF ChainsAsStarted
  <1>3. /\ workItems[d] \in Nat /\ asked[d] \in Nat
        /\ Cardinality(Running(d)) \in Nat
    BY RunningFinite DEF TypeOK
  <1>4. CASE d = c
    <2>1. Cardinality(Running(d)') = Cardinality(Running(d)) + 1
      BY <1>1, <1>4, EnteredRunning
    <2>2. \/ workItems'[d] = workItems[d] - 1 /\ asked'[d] = asked[d]
          \/ workItems'[d] = workItems[d] /\ asked'[d] = asked[d] + 1
      BY <1>4 DEF Begin, StartByRequest, TypeOK
    <2>3. QED
      BY <1>1, <1>2, <1>3, <2>1, <2>2 DEF Chains, Started
  <1>5. CASE d # c
    <2>1. Running(d)' = Running(d)
      BY <1>1, <1>5, EnteredRunning
    <2>2. workItems'[d] = workItems[d] /\ asked'[d] = asked[d]
      BY <1>5 DEF Begin, StartByRequest, TypeOK
    <2>3. QED
      BY <1>1, <1>2, <2>1, <2>2 DEF Chains, Started
  <1>6. QED
    BY <1>4, <1>5

\* The expiry puts the entry's chain among the work items.
LEMMA ExpiryKeepsChains ==
    ASSUME TypeOK, ChainsAsStarted, NEW c \in Controllers, ControlExpires(c)
    PROVE  ChainsAsStarted'
  <1> SUFFICES ASSUME NEW d \in Controllers PROVE Chains(d)' = Started(d)'
    BY DEF ChainsAsStarted
  <1>1. Running(d)' = Running(d) /\ Started(d)' = Started(d)
    BY DEF ControlExpires, Running, Runs, Started
  <1>2. Chains(d) = Started(d) /\ workItems[d] \in Nat /\ Cardinality(Running(d)) \in Nat
    BY RunningFinite DEF ChainsAsStarted, TypeOK
  <1>3. CASE d = c
    <2>1. control[d] /\ ~control'[d] /\ workItems'[d] = workItems[d] + 1
      BY <1>3 DEF ControlExpires, TypeOK
    <2>2. QED
      BY <1>1, <1>2, <2>1 DEF Chains
  <1>4. CASE d # c
    <2>1. control'[d] = control[d] /\ workItems'[d] = workItems[d]
      BY <1>4 DEF ControlExpires, TypeOK
    <2>2. QED
      BY <1>1, <1>2, <2>1 DEF Chains
  <1>5. QED
    BY <1>3, <1>4

LEMMA NextKeepsChains == TypeOK /\ ChainsAsStarted /\ [Next]_vars => ChainsAsStarted'
  <1> SUFFICES ASSUME TypeOK, ChainsAsStarted, [Next]_vars PROVE ChainsAsStarted'
    OBVIOUS
  <1>1. CASE UNCHANGED <<control, workItems, asked, runs>>
    BY <1>1, SameRunsKeepChains DEF Runs
  <1>2. CASE \E k \in Keys : Evict(k) \/ SourceChanges(k)
    BY <1>1, <1>2 DEF Evict, SourceChanges
  <1>3. CASE \E r \in Readers : ReadStep(r)
    BY <1>1, <1>3 DEF ReadStep, ReadMiss, ReadFetch, ReadStore
  <1>4. CASE UNCHANGED vars
    BY <1>1, <1>4 DEF vars
  <1>5. CASE \E t \in Threads : Fetch(t) \/ FetchFails(t) \/ Store(t)
    BY <1>5, WorkKeepsRuns, SameRunsKeepChains
  <1>6. QED
    BY <1>2, <1>3, <1>4, <1>5, RefreshKeepsChains, EnterKeepsChains, ExpiryKeepsChains
       DEF Next, Step, ReadStep

\* Every controller has, for ever, the chains that were started and no other.
THEOREM ChainConservation == Spec => []ChainsAsStarted
  <1>1. Init => TypeOK /\ ChainsAsStarted
    BY TypeInit, ChainInit
  <1>2. TypeOK /\ ChainsAsStarted /\ [Next]_vars => (TypeOK /\ ChainsAsStarted)'
    BY NextTyped, NextKeepsChains
  <1>3. QED
    BY <1>1, <1>2, PTL DEF Spec

-----------------------------------------------------------------------------
(* Two Start()s of one controller side by side know it, and are of two chains. *)

BesideOneAnother ==
    /\ \A t, u \in Threads : \A c \in Controllers :
          t # u /\ Runs(t, c) /\ Runs(u, c) => ~runs[t].alone
    /\ \A t \in Threads : \A c \in Controllers :
          Runs(t, c) /\ ~runs[t].alone => Started(c) > 1

LEMMA BesideInit == Init => BesideOneAnother
  BY DEF Init, BesideOneAnother, Runs

\* Where none enters Start(), none meets another.
LEMMA NoEntryKeepsBeside ==
    ASSUME BesideOneAnother, asked' = asked,
           \A t \in Threads : runs'[t] # Idle =>
               /\ runs[t] # Idle
               /\ runs'[t].ctl = runs[t].ctl /\ runs'[t].alone = runs[t].alone
    PROVE  BesideOneAnother'
  <1>1. \A c : Started(c)' = Started(c)
    BY DEF Started
  <1>2. \A t \in Threads, c \in Controllers : Runs(t, c)' => Runs(t, c)
    BY DEF Runs
  <1>3. \A t \in Threads, c \in Controllers :
            Runs(t, c)' => (runs'[t].alone <=> runs[t].alone)
    BY DEF Runs
  <1>4. \A t, u \in Threads : \A c \in Controllers :
            t # u /\ Runs(t, c)' /\ Runs(u, c)' => ~runs'[t].alone
    BY <1>2, <1>3 DEF BesideOneAnother
  <1>5. \A t \in Threads : \A c \in Controllers :
            Runs(t, c)' /\ ~runs'[t].alone => Started(c)' > 1
    BY <1>1, <1>2, <1>3 DEF BesideOneAnother
  <1>6. QED
    BY <1>4, <1>5 DEF BesideOneAnother

\* Whoever enters beside another is of a chain of its own: the other's is one, and
\* the work item, or the request, is one more.
LEMMA EnterKeepsBeside ==
    ASSUME TypeOK, ChainsAsStarted, ChainsAsStarted', BesideOneAnother, TypeOK',
           NEW t \in Threads, NEW c \in Controllers, Begin(t, c) \/ StartByRequest(t, c)
    PROVE  BesideOneAnother'
  <1>1. Enter(t, c)
    BY DEF Begin, StartByRequest
  <1>2. /\ runs'[t].ctl = c /\ (runs'[t].alone <=> Running(c) = {})
        /\ runs'[t] # Idle /\ runs[t] = Idle
        /\ \A u \in Threads : u # t => SameWork(u)
        /\ \A u \in Threads : u # t /\ Runs(u, c) => ~runs'[u].alone
        /\ \A u \in Threads : u # t /\ ~Runs(u, c) => runs'[u] = runs[u]
    BY <1>1, Entered
  <1>3. \A d \in Controllers : Started(d) \in Nat /\ Started(d)' \in Nat /\ Started(d)' >= Started(d)
    <2>1. \A d \in Controllers : asked[d] \in Nat /\ asked'[d] \in Nat /\ asked'[d] >= asked[d]
      <3>1. \A d \in Controllers :
                asked'[d] = asked[d] \/ asked'[d] = asked[d] + 1
        BY DEF TypeOK, Begin, StartByRequest
      <3>2. \A d \in Controllers : asked[d] \in Nat
        BY DEF TypeOK
      <3>3. QED
        BY <3>1, <3>2
    <2>2. QED
      BY <2>1 DEF Started
  <1>4. Running(c) # {} => Started(c)' > 1
    <2> SUFFICES ASSUME Running(c) # {} PROVE Started(c)' > 1
      OBVIOUS
    <2>1. Cardinality(Running(c)) >= 1 /\ Cardinality(Running(c)) \in Nat
      BY RunningFinite, FS_EmptySet
    <2>2. Cardinality(Running(c)') >= 2 /\ Cardinality(Running(c)') \in Nat
      BY <1>1, <2>1, EnteredRunning
    <2>3. Chains(c)' = Started(c)' /\ workItems'[c] \in Nat
      BY DEF ChainsAsStarted, TypeOK
    <2>4. QED
      BY <1>3, <2>2, <2>3 DEF Chains
  <1>5. \A u \in Threads, d \in Controllers :
            Runs(u, d)' <=> Runs(u, d) \/ (u = t /\ d = c)
    BY <1>2 DEF Runs, SameWork
  <1>6. ASSUME NEW u \in Threads, NEW v \in Threads, NEW d \in Controllers,
               u # v, Runs(u, d)', Runs(v, d)'
        PROVE  ~runs'[u].alone
    <2>1. CASE u = t
      <3>1. d = c /\ Runs(v, c)
        BY <1>2, <1>5, <1>6, <2>1 DEF Runs
      <3>2. Running(c) # {}
        BY <3>1 DEF Running
      <3>3. QED
        BY <1>2, <2>1, <3>2
    <2>2. CASE u # t /\ v = t
      <3>1. d = c /\ Runs(u, c)
        BY <1>2, <1>5, <1>6, <2>2 DEF Runs
      <3>2. QED
        BY <1>2, <2>2, <3>1
    <2>3. CASE u # t /\ v # t
      <3>1. Runs(u, d) /\ Runs(v, d)
        BY <1>5, <1>6, <2>3
      <3>2. ~runs[u].alone
        BY <1>6, <3>1 DEF BesideOneAnother
      <3>3. QED
        BY <1>2, <2>3, <3>1, <3>2 DEF SameWork, Runs
    <2>4. QED
      BY <2>1, <2>2, <2>3
  <1>7. ASSUME NEW u \in Threads, NEW d \in Controllers, Runs(u, d)', ~runs'[u].alone
        PROVE  Started(d)' > 1
    <2>1. CASE u = t
      <3>1. d = c
        BY <1>2, <1>7, <2>1 DEF Runs
      <3>2. QED
        BY <1>2, <1>4, <1>7, <2>1, <3>1
    <2>2. CASE u # t /\ Runs(u, c)
      <3>1. Running(c) # {} /\ d = c
        BY <1>2, <1>7, <2>2 DEF Running, SameWork, Runs
      <3>2. QED
        BY <1>4, <3>1
    <2>3. CASE u # t /\ ~Runs(u, c)
      <3>1. Runs(u, d) /\ ~runs[u].alone
        BY <1>2, <1>7, <2>3 DEF Runs
      <3>2. Started(d) > 1
        BY <3>1 DEF BesideOneAnother
      <3>3. QED
        BY <1>3, <3>2
    <2>4. QED
      BY <2>1, <2>2, <2>3
  <1>8. QED
    BY <1>6, <1>7 DEF BesideOneAnother

LEMMA NextKeepsBeside ==
    TypeOK /\ ChainsAsStarted /\ BesideOneAnother /\ [Next]_vars => BesideOneAnother'
  <1> SUFFICES ASSUME TypeOK, ChainsAsStarted, BesideOneAnother, [Next]_vars
               PROVE  BesideOneAnother'
    OBVIOUS
  <1>1. TypeOK' /\ ChainsAsStarted'
    BY NextTyped, NextKeepsChains
  <1>2. CASE UNCHANGED <<asked, runs>>
    BY <1>2, NoEntryKeepsBeside
  <1>3. CASE \E t \in Threads : Fetch(t) \/ FetchFails(t) \/ Store(t)
    BY <1>3, WorkKeepsRuns, NoEntryKeepsBeside
  <1>4. CASE \E t \in Threads : Refresh(t)
    BY <1>4, NoEntryKeepsBeside DEF Refresh, TypeOK
  <1>5. CASE \E t \in Threads, c \in Controllers : Begin(t, c) \/ StartByRequest(t, c)
    BY <1>1, <1>5, EnterKeepsBeside
  <1>6. QED
    BY <1>2, <1>3, <1>4, <1>5
       DEF Next, Step, ControlExpires, Evict, SourceChanges, ReadMiss, ReadFetch,
           ReadStore, vars

-----------------------------------------------------------------------------
(* A Start() alone never replaces a model by an older one. *)

Ages == NothingFromTheFuture /\ FetchedReplacesOlder

\* Chains, types and ages: what every reachable state satisfies.
IInv == TypeOK /\ ChainsAsStarted /\ BesideOneAnother /\ Ages

\* A thread whose run a step leaves as it is has fetched what it had fetched.
LEMMA OthersKeepFetched ==
    ASSUME NEW u \in Threads, SameWork(u)
    PROVE  /\ Fetched(u)' <=> Fetched(u)
           /\ Fetched(u) => /\ KeyOf(u)' = KeyOf(u) /\ runs'[u].got = runs[u].got
                            /\ runs'[u].alone => runs[u].alone
  BY DEF SameWork, Fetched, Visits, KeyOf

LEMMA UntouchedIsSame ==
    ASSUME NEW u \in Threads, runs'[u] = runs[u]
    PROVE  SameWork(u)
  BY DEF SameWork

LEMMA AgesInit == Init => Ages
  BY ModelsAssumption
     DEF Init, Ages, NothingFromTheFuture, FetchedReplacesOlder, Fetched, Visits, Versions

\* What Start() fetches is as new as the source, hence as anything cached.
LEMMA FetchKeepsAges ==
    ASSUME TypeOK, Ages, NEW t \in Threads, Fetch(t)
    PROVE  Ages'
  <1> DEFINE k == KeyOf(t)
  <1>1. k \in Keys /\ version[k] \in Nat /\ runs[t] \in Run
    BY VisitedKey, ModelsAssumption DEF Fetch, TypeOK, Versions
  <1>2. runs'[t] = [runs[t] EXCEPT !.got = version[k]]
    BY DEF Fetch, TypeOK
  <1>3. KeyOf(t)' = k /\ runs'[t].got = version[k]
    BY <1>1, <1>2 DEF KeyOf, Run
  <1>4. \A u \in Threads : u # t => runs'[u] = runs[u]
    BY DEF Fetch, TypeOK
  <1>5. \A u \in Threads : u # t => SameWork(u)
    BY <1>4, UntouchedIsSame
  <1>6. UNCHANGED <<version, data, reads>>
    BY DEF Fetch
  <1>7. NothingFromTheFuture'
    BY <1>1, <1>3, <1>5, <1>6, OthersKeepFetched
       DEF Ages, NothingFromTheFuture, Fetched
  <1>8. FetchedReplacesOlder'
    BY <1>1, <1>3, <1>5, <1>6, OthersKeepFetched
       DEF Ages, NothingFromTheFuture, FetchedReplacesOlder
  <1>9. QED
    BY <1>7, <1>8 DEF Ages

\* A step of a thread that ends with nothing fetched, and touches nothing else.
LEMMA NothingFetchedKeepsAges ==
    ASSUME TypeOK, Ages, NEW t \in Threads, ~Fetched(t)',
           \A u \in Threads : u # t => SameWork(u),
           UNCHANGED <<version, data, reads>>
    PROVE  Ages'
  <1>1. NothingFromTheFuture'
    BY OthersKeepFetched DEF Ages, NothingFromTheFuture
  <1>2. FetchedReplacesOlder'
    BY OthersKeepFetched DEF Ages, FetchedReplacesOlder
  <1>3. QED
    BY <1>1, <1>2 DEF Ages

LEMMA FailureKeepsAges ==
    ASSUME TypeOK, Ages, NEW t \in Threads, FetchFails(t)
    PROVE  Ages'
  <1>1. runs[t] \in Run /\ runs[t].ctl \in Controllers
    BY DEF FetchFails, SourceFails, FetchAborts, FetchSkips,
           FetchDefaults, Visits, TypeOK, Run
  <1>2. Len(Order[runs[t].ctl]) \in Nat
    BY <1>1, ControllersAssumption
  <1>3. ~Fetched(t)'
    <2>1. runs[t].got = Missing /\ Missing \notin Versions /\ Default \notin Versions
      BY ModelsAssumption DEF FetchFails, SourceFails, Versions
    <2>2. CASE FetchAborts(t)
      <3>1. /\ runs'[t].pos = Len(Order[runs[t].ctl]) + 1
            /\ runs'[t].ctl = runs[t].ctl
        BY <1>1, <2>2 DEF FetchAborts, TypeOK, Run
      <3>2. QED
        BY <1>2, <3>1 DEF Fetched, Visits
    <2>3. CASE FetchSkips(t)
      BY <1>1, <2>1, <2>3 DEF FetchSkips, Fetched, TypeOK, Run
    <2>4. CASE FetchDefaults(t)
      BY <1>1, <2>1, <2>4 DEF FetchDefaults, Fetched, TypeOK, Run
    <2>5. QED
      BY <2>2, <2>3, <2>4 DEF FetchFails
  <1>4. \A u \in Threads : u # t => runs'[u] = runs[u]
    BY DEF FetchFails, SourceFails, FetchAborts, FetchSkips, FetchDefaults, TypeOK
  <1>5. QED
    BY <1>3, <1>4, UntouchedIsSame, NothingFetchedKeepsAges DEF FetchFails

LEMMA RefreshKeepsAges ==
    ASSUME TypeOK, Ages, NEW t \in Threads, Refresh(t)
    PROVE  Ages'
  <1>1. ~Fetched(t)'
    BY DEF Refresh, Fetched, Visits, TypeOK
  <1>2. \A u \in Threads : u # t => runs'[u] = runs[u]
    BY DEF Refresh, TypeOK
  <1>3. QED
    BY <1>1, <1>2, UntouchedIsSame, NothingFetchedKeepsAges DEF Refresh

LEMMA EnterKeepsAges ==
    ASSUME TypeOK, Ages, NEW t \in Threads, NEW c \in Controllers,
           Begin(t, c) \/ StartByRequest(t, c)
    PROVE  Ages'
  <1>1. Enter(t, c) /\ UNCHANGED <<version, data, reads>>
    BY DEF Begin, StartByRequest
  <1>2. runs'[t].got = Missing
    BY <1>1, Entered
  <1>3. ~Fetched(t)'
    BY <1>2, ModelsAssumption DEF Fetched, Versions
  <1>4. \A u \in Threads : u # t => SameWork(u)
    BY <1>1, Entered
  <1>5. QED
    BY <1>1, <1>3, <1>4, NothingFetchedKeepsAges

\* Two threads that visit the same key run Start() of the same controller, so
\* neither runs alone.
LEMMA OneWriter ==
    ASSUME TypeOK, BesideOneAnother, NEW t \in Threads, NEW u \in Threads,
           Visits(t), Visits(u), KeyOf(t) = KeyOf(u), t # u
    PROVE  ~runs[t].alone
  <1>1. /\ runs[t] \in Run /\ runs[t].pos \in 1 .. Len(Order[runs[t].ctl])
        /\ runs[u] \in Run /\ runs[u].pos \in 1 .. Len(Order[runs[u].ctl])
    BY VisitedKey
  <1>2. runs[t].ctl \in Controllers /\ runs[u].ctl \in Controllers
    BY <1>1 DEF Run
  <1>3. runs[t].ctl = runs[u].ctl
    BY <1>1, <1>2, KeysAssumption DEF KeyOf
  <1>4. QED
    BY <1>2, <1>3 DEF BesideOneAnother, Runs, Visits

\* Storing replaces the key's model by a newer one, or by the default model, unless
\* another Start() ran beside; no other thread that runs alone holds a model of it.
LEMMA StoreKeepsAges ==
    ASSUME TypeOK, BesideOneAnother, Ages, NEW t \in Threads, Store(t)
    PROVE  Ages' /\ \A k \in Keys \ ReadThrough : Older(k) => Overlapped(k)
  <1> DEFINE key == KeyOf(t)
  <1>1. key \in Keys /\ runs[t] \in Run /\ Visits(t)
    BY VisitedKey DEF Store
  <1>2. /\ data' = [data EXCEPT ![key] = runs[t].got]
        /\ UNCHANGED <<version, reads>>
        /\ \A u \in Threads : u # t => runs'[u] = runs[u]
    BY DEF Store, TypeOK
  <1>3. ~Fetched(t)'
    BY <1>1, ModelsAssumption DEF Store, Fetched, TypeOK, Run, Versions
  <1>4. data'[key] = runs[t].got /\ \A k \in Keys : k # key => data'[k] = data[k]
    BY <1>1, <1>2 DEF TypeOK
  <1>5. \A u \in Threads : u # t => SameWork(u)
    BY <1>2, UntouchedIsSame
  <1>6. \A u \in Threads : u # t /\ Fetched(u) /\ runs[u].alone =>
            KeyOf(u) # key /\ KeyOf(u) \in Keys
    BY <1>1, OneWriter, VisitedKey DEF Fetched
  <1>7. NothingFromTheFuture'
    <2>1. \A k \in Keys : data'[k] \in Versions => data'[k] <= version'[k]
      BY <1>1, <1>2, <1>4 DEF Ages, NothingFromTheFuture, Fetched
    <2>2. \A u \in Threads : Fetched(u)' => runs'[u].got <= version'[KeyOf(u)']
      BY <1>2, <1>3, <1>5, OthersKeepFetched DEF Ages, NothingFromTheFuture
    <2>3. QED
      BY <1>2, <2>1, <2>2 DEF Ages, NothingFromTheFuture
  <1>8. FetchedReplacesOlder'
    BY <1>2, <1>3, <1>4, <1>5, <1>6, OthersKeepFetched DEF Ages, FetchedReplacesOlder
  <1>9. ASSUME NEW k \in Keys \ ReadThrough, Older(k) PROVE Overlapped(k)
    <2>1. k = key /\ runs[t].got \in Versions /\ data[k] \in Versions /\ runs[t].got < data[k]
      BY <1>4, <1>9, ModelsAssumption DEF Older, Versions
    <2>2. ~runs[t].alone
      <3>1. runs[t].alone => data[k] <= runs[t].got
        BY <1>1, <1>9, <2>1 DEF Ages, FetchedReplacesOlder, Fetched
      <3>2. QED
        BY <2>1, <3>1, ModelsAssumption DEF Versions
    <2>3. Started(runs[t].ctl) > 1
      BY <1>1, <2>2 DEF BesideOneAnother, Visits, Runs, Run
    <2>4. QED
      BY <1>1, <2>1, <2>2, <2>3 DEF Overlapped
  <1>10. QED
    BY <1>7, <1>8, <1>9 DEF Ages

\* The cache only loses entries, and a source only gets newer.
LEMMA CacheKeepsAges ==
    ASSUME TypeOK, Ages, NEW k \in Keys, Evict(k) \/ SourceChanges(k)
    PROVE  Ages' /\ \A j \in Keys : ~Older(j)
  <1>1. runs' = runs /\ reads' = reads
    BY DEF Evict, SourceChanges
  <1>2. \A u \in Threads : (Fetched(u)' <=> Fetched(u)) /\ KeyOf(u)' = KeyOf(u)
    BY <1>1 DEF Fetched, Visits, KeyOf
  <1>3. \A j \in Keys : version[j] \in Nat /\ version'[j] \in Nat /\ version[j] <= version'[j]
    BY ModelsAssumption DEF Evict, SourceChanges, TypeOK, Versions
  <1>4. \A j \in Keys : data'[j] \in Versions => data'[j] = data[j]
    BY ModelsAssumption DEF Evict, SourceChanges, TypeOK, Versions
  <1>5. Versions \subseteq Nat
    BY DEF Versions
  <1>6. \A u \in Threads : Fetched(u) => KeyOf(u) \in Keys
    BY VisitedKey DEF Fetched
  <1>7. \A r \in Readers : reads[r] # Idle => reads[r].key \in Keys
    BY ReadThroughAssumption DEF TypeOK, Read
  <1>8. NothingFromTheFuture'
    <2>0. \A v \in Versions, j \in Keys : v <= version[j] => v <= version'[j]
      BY <1>3, <1>5
    <2>1. \A j \in Keys : data'[j] \in Versions => data'[j] <= version'[j]
      BY <1>4, <2>0 DEF Ages, NothingFromTheFuture
    <2>2. \A u \in Threads : Fetched(u)' => runs'[u].got <= version'[KeyOf(u)']
      <3>1. \A u \in Threads : Fetched(u) =>
                runs[u].got \in Versions /\ runs[u].got <= version[KeyOf(u)]
        BY DEF Ages, NothingFromTheFuture, Fetched
      <3>2. QED
        BY <1>1, <1>2, <1>6, <2>0, <3>1
    <2>3. \A r \in Readers : reads'[r] # Idle /\ reads'[r].got \in Versions =>
              reads'[r].got <= version'[reads'[r].key]
      BY <1>1, <1>7, <2>0 DEF Ages, NothingFromTheFuture
    <2>4. QED
      BY <2>1, <2>2, <2>3 DEF NothingFromTheFuture
  <1>9. FetchedReplacesOlder'
    BY <1>1, <1>2, <1>4, <1>6 DEF Ages, FetchedReplacesOlder
  <1>10. \A j \in Keys : ~Older(j)
    <2>1. \A v \in Versions : ~(v < v)
      BY <1>5
    <2>2. QED
      BY <1>4, <2>1 DEF Older
  <1>11. QED
    BY <1>8, <1>9, <1>10 DEF Ages

\* A request stores what it fetched, under a key requests may fill.
LEMMA ReadKeepsAges ==
    ASSUME TypeOK, Ages, NEW r \in Readers, ReadStep(r)
    PROVE  Ages' /\ \A k \in Keys \ ReadThrough : ~Older(k)
  <1>1. runs' = runs /\ version' = version
    BY DEF ReadStep, ReadMiss, ReadFetch, ReadStore
  <1>2. \A u \in Threads : (Fetched(u)' <=> Fetched(u)) /\ KeyOf(u)' = KeyOf(u)
    BY <1>1 DEF Fetched, Visits, KeyOf
  <1>3. \A k \in Keys \ ReadThrough : data'[k] = data[k]
    BY DEF ReadStep, ReadMiss, ReadFetch, ReadStore, TypeOK, Read
  <1>4. \A u \in Threads : Fetched(u) => KeyOf(u) \in Keys
    BY VisitedKey DEF Fetched
  <1>5. \A k \in Keys : version[k] \in Nat
    BY DEF TypeOK, Versions
  <1>6. FetchedReplacesOlder'
    BY <1>1, <1>2, <1>3, <1>4 DEF Ages, FetchedReplacesOlder
  <1>7. NothingFromTheFuture'
    <2>1. \A u \in Threads : Fetched(u)' => runs'[u].got <= version'[KeyOf(u)']
      BY <1>1, <1>2 DEF Ages, NothingFromTheFuture
    <2>2. CASE \E k \in ReadThrough : ReadMiss(r, k)
      BY <1>1, <2>1, <2>2, ModelsAssumption
         DEF ReadMiss, Ages, NothingFromTheFuture, TypeOK, Versions
    <2>3. CASE ReadFetch(r)
      <3>1. reads[r] \in Read /\ version[reads[r].key] \in Nat /\ data' = data
        BY <1>5, <2>3, ReadThroughAssumption DEF ReadFetch, TypeOK, Read
      <3>2. \A q \in Readers : q # r => reads'[q] = reads[q]
        BY <2>3 DEF ReadFetch, TypeOK
      <3>3. \/ reads'[r] = Idle
            \/ /\ reads'[r].key = reads[r].key
               /\ reads'[r].got = version[reads[r].key]
        BY <2>3, <3>1 DEF ReadFetch, TypeOK, Read
      <3>4. reads'[r] # Idle => reads'[r].got <= version'[reads'[r].key]
        BY <1>1, <3>1, <3>3
      <3>5. QED
        BY <1>1, <2>1, <3>1, <3>2, <3>4 DEF Ages, NothingFromTheFuture
    <2>4. CASE ReadStore(r)
      BY <1>1, <2>1, <2>4 DEF ReadStore, Ages, NothingFromTheFuture, TypeOK, Read
    <2>5. QED
      BY <2>2, <2>3, <2>4 DEF ReadStep
  <1>8. \A k \in Keys \ ReadThrough : ~Older(k)
    BY <1>3, ModelsAssumption DEF Older, Versions
  <1>9. QED
    BY <1>6, <1>7, <1>8 DEF Ages

\* One step: the ages stay in order, and a model outside ReadThrough goes back
\* only where two Start()s overlapped.
LEMMA NextKeepsAges ==
    TypeOK /\ BesideOneAnother /\ Ages /\ [Next]_vars =>
        Ages' /\ \A k \in Keys \ ReadThrough : Older(k) => Overlapped(k)
  <1> SUFFICES ASSUME TypeOK, BesideOneAnother, Ages, [Next]_vars
               PROVE  Ages' /\ \A k \in Keys \ ReadThrough : Older(k) => Overlapped(k)
    OBVIOUS
  <1>1. data' = data => \A k \in Keys : ~Older(k)
    BY DEF Older, Versions
  <1>2. CASE UNCHANGED <<version, data, runs, reads>>
    <2>1. \A u \in Threads : (Fetched(u)' <=> Fetched(u)) /\ KeyOf(u)' = KeyOf(u)
      BY <1>2 DEF Fetched, Visits, KeyOf
    <2>2. QED
      BY <1>1, <1>2, <2>1 DEF Ages, NothingFromTheFuture, FetchedReplacesOlder
  <1>3. ASSUME NEW t \in Threads, Step(t)
        PROVE  Ages' /\ \A k \in Keys \ ReadThrough : Older(k) => Overlapped(k)
    <2>1. CASE Store(t)
      BY <2>1, StoreKeepsAges
    <2>2. CASE Fetch(t)
      BY <1>1, <2>2, FetchKeepsAges DEF Fetch
    <2>3. CASE FetchFails(t)
      BY <1>1, <2>3, FailureKeepsAges DEF FetchFails
    <2>4. CASE Refresh(t)
      BY <1>1, <2>4, RefreshKeepsAges DEF Refresh
    <2>5. QED
      BY <1>3, <2>1, <2>2, <2>3, <2>4 DEF Step
  <1>4. ASSUME NEW t \in Threads, NEW c \in Controllers, Begin(t, c) \/ StartByRequest(t, c)
        PROVE  Ages' /\ \A k \in Keys \ ReadThrough : Older(k) => Overlapped(k)
    BY <1>1, <1>4, EnterKeepsAges DEF Begin, StartByRequest
  <1>5. CASE \E c \in Controllers : ControlExpires(c)
    BY <1>2, <1>5 DEF ControlExpires
  <1>6. CASE UNCHANGED vars
    BY <1>2, <1>6 DEF vars
  <1>7. QED
    BY <1>3, <1>4, <1>5, <1>6, CacheKeepsAges, ReadKeepsAges DEF Next, ReadStep

\* Where only Start() fills a key, its cached model goes back to an older one only
\* by a Start() that another ran beside, of a controller with a second chain.
THEOREM ModelsOnlyAdvance == Spec => NeverGoesBack
  <1>1. Init => IInv
    BY TypeInit, ChainInit, BesideInit, AgesInit DEF IInv
  <1>2. IInv /\ [Next]_vars => IInv'
    BY NextTyped, NextKeepsChains, NextKeepsBeside, NextKeepsAges DEF IInv
  <1>3. IInv /\ [Next]_vars =>
            [\A k \in Keys \ ReadThrough : Older(k) => Overlapped(k)]_vars
    BY NextKeepsAges DEF IInv
  <1>4. QED
    BY <1>1, <1>2, <1>3, PTL DEF Spec, NeverGoesBack
=============================================================================
