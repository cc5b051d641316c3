----------------------- MODULE LiveTrenArrivalsProofs -----------------------
(***************************************************************************)
(* Proofs about LiveTrenArrivals, for any chains of rounds, and any number *)
(* of branches, stations, trains and failures.                             *)
(***************************************************************************)
EXTENDS LiveTrenArrivals, TLAPS

\* Of a model in the making, what is not left to enqueue has been.
FetchedIsReported == \A c \in Chains : result[c] \ rest[c] \subseteq reported

IInv == TypeOK /\ FetchedIsReported /\ PublishedIsReported

-----------------------------------------------------------------------------
\* The Where filter hides nothing: what the loop enqueues for a branch is what the
\* model of the branch shows, and nothing but stops.
LEMMA ArrivalsAreShown ==
    ASSUME TypeOK, NEW r
    PROVE  Arrivals(r) = Model(r) /\ Model(r) \subseteq Stops
<1>1. ASSUME NEW q \in Zero(r) PROVE Shown(r, q[2])
  <2>1. q[1] = r /\ Minutes(q) = 0
    BY DEF Zero
  <2> QED
    BY <2>1 DEF Minutes, Shown
<1>2. \A q \in Zero(r) : q \in Platforms /\ stop[q] \in Nat
  BY DEF Zero, TypeOK
<1> QED
  BY <1>1, <1>2 DEF Arrivals, Model, Stops

LEMMA Branches == Len(Ramales) \in Nat /\ DOMAIN Ramales = 1 .. Len(Ramales)
BY RamalesAssumption

LEMMA InvInit == Init => IInv
<1> SUFFICES ASSUME Init PROVE IInv
  OBVIOUS
<1> USE Branches, MaxFailuresAssumption DEF Init, DefaultModel
<1>1. 0 \in 0 .. Len(Ramales) + 1 /\ 0 \in 0 .. MaxFailures
  OBVIOUS
<1>2. TypeOK
  BY <1>1 DEF TypeOK
<1> QED
  BY <1>2 DEF IInv, FetchedIsReported, PublishedIsReported

LEMMA FetchKeeps == ASSUME IInv, NEW c \in Chains, Fetch(c) PROVE IInv'
<1>1. /\ UNCHANGED <<stop, standing, data, pos, reported, failures>>
      /\ fetched' = [fetched EXCEPT ![c] = TRUE] /\ pos[c] \in DOMAIN Ramales
  BY DEF Fetch, Visits
<1> DEFINE m == Model(pos[c])
<1>2. m \subseteq Stops /\ rest' = [rest EXCEPT ![c] = m] /\ result' = [result EXCEPT ![c] = m]
  BY ArrivalsAreShown DEF IInv, Fetch
<1> HIDE DEF m
<1>3. TypeOK'
  BY <1>1, <1>2 DEF IInv, TypeOK
<1> QED
  BY <1>1, <1>2, <1>3 DEF IInv, TypeOK, FetchedIsReported, PublishedIsReported

LEMMA FetchFailsKeeps == ASSUME IInv, NEW c \in Chains, FetchFails(c) PROVE IInv'
<1>1. /\ pos[c] \in DOMAIN Ramales
      /\ fetched' = [fetched EXCEPT ![c] = TRUE]
      /\ result' = [result EXCEPT ![c] = DefaultModel]
      /\ UNCHANGED <<stop, standing, data, pos, rest, reported, failures>>
      /\ rest[c] = {}
  BY DEF IInv, TypeOK, FetchFails, Visits, DefaultModel
<1>2. TypeOK'
  BY <1>1 DEF IInv, TypeOK, DefaultModel
<1> QED
  BY <1>1, <1>2 DEF IInv, TypeOK, DefaultModel, FetchedIsReported, PublishedIsReported

LEMMA EnqueueNextKeeps == ASSUME IInv, NEW c \in Chains, EnqueueNext(c) PROVE IInv'
<1>1. PICK a \in rest[c] :
          /\ reported' = reported \cup {a}
          /\ rest' = [rest EXCEPT ![c] = @ \ {a}]
          /\ UNCHANGED <<stop, standing, data, pos, fetched, result, failures>>
  BY DEF EnqueueNext
<1>2. a \in Stops
  BY <1>1 DEF IInv, TypeOK
<1>3. TypeOK'
  BY <1>1, <1>2 DEF IInv, TypeOK
<1> QED
  BY <1>1, <1>3 DEF IInv, TypeOK, FetchedIsReported, PublishedIsReported

LEMMA EnqueueFailsKeeps == ASSUME IInv, NEW c \in Chains, EnqueueFails(c) PROVE IInv'
<1>1. PICK a \in rest[c] : /\ Throws(c, a)
                           /\ result' = [result EXCEPT ![c] = DefaultModel]
                           /\ rest' = [rest EXCEPT ![c] = {}]
  BY DEF EnqueueFails
<1>2. a \in Stops
  BY <1>1 DEF IInv, TypeOK
<1>3. /\ reported \subseteq reported' /\ reported' \subseteq reported \cup {a}
      /\ failures' = failures + 1 /\ failures < MaxFailures
      /\ UNCHANGED <<stop, standing, data, pos, fetched>>
  BY <1>1 DEF Throws
<1>4. TypeOK'
  BY <1>1, <1>2, <1>3, MaxFailuresAssumption DEF IInv, TypeOK, DefaultModel
<1> QED
  BY <1>1, <1>3, <1>4 DEF IInv, TypeOK, DefaultModel, FetchedIsReported, PublishedIsReported

\* The model is complete and reported when it is put in the cache.
LEMMA StoreKeeps == ASSUME IInv, NEW c \in Chains, Store(c) PROVE IInv'
<1>1. result[c] \subseteq reported /\ result[c] \subseteq Stops
  BY DEF IInv, TypeOK, Store, FetchedIsReported
<1>2. \A r \in DOMAIN Ramales : data'[r] = IF r = pos[c] THEN result[c] ELSE data[r]
  BY DEF IInv, TypeOK, Store, Visits
<1>3. TypeOK'
  <2>1. pos[c] + 1 \in 0 .. Len(Ramales) + 1
    BY Branches DEF Store, Visits
  <2>2. data' \in [DOMAIN Ramales -> SUBSET Stops]
    BY <1>1 DEF IInv, TypeOK, Store, Visits
  <2> QED
    BY <2>1, <2>2 DEF IInv, TypeOK, Store, DefaultModel
<1>4. PublishedIsReported'
  BY <1>1, <1>2 DEF IInv, Store, PublishedIsReported
<1> QED
  BY <1>3, <1>4 DEF IInv, TypeOK, Store, FetchedIsReported, DefaultModel

LEMMA RoundsEndKeeps == ASSUME IInv, NEW c \in Chains, Refresh(c) \/ Begin(c) PROVE IInv'
<1>1. /\ UNCHANGED <<stop, standing, data, fetched, result, rest, reported, failures>>
      /\ pos[c] \notin DOMAIN Ramales
      /\ \E n \in 0 .. Len(Ramales) + 1 : pos' = [pos EXCEPT ![c] = n]
  BY Branches DEF Refresh, Begin
<1>2. TypeOK'
  BY <1>1 DEF IInv, TypeOK
<1> QED
  BY <1>1, <1>2 DEF IInv, FetchedIsReported, PublishedIsReported

\* Trains touch no model and no report.
LEMMA RailwayKeeps ==
    ASSUME IInv, NEW p \in Platforms, TrainStops(p) \/ TrainLeaves(p)
    PROVE  IInv'
<1>1. UNCHANGED <<data, pos, fetched, result, rest, reported, failures>>
  BY DEF TrainStops, TrainLeaves
<1>2. stop' \in [Platforms -> Nat] /\ standing' \subseteq Platforms
  <2>1. stop \in [Platforms -> Nat] /\ standing \subseteq Platforms
    BY DEF IInv, TypeOK
  <2>2. CASE TrainStops(p)
    BY <2>1, <2>2 DEF TrainStops
  <2>3. CASE TrainLeaves(p)
    BY <2>1, <2>3 DEF TrainLeaves
  <2> QED
    BY <2>2, <2>3
<1>3. TypeOK'
  BY <1>1, <1>2 DEF IInv, TypeOK
<1> QED
  BY <1>1, <1>3 DEF IInv, FetchedIsReported, PublishedIsReported

LEMMA Invariant == Spec => []IInv
<1>1. IInv /\ [Next]_vars => IInv'
  <2> SUFFICES ASSUME IInv, [Next]_vars PROVE IInv'
    OBVIOUS
  <2>1. CASE UNCHANGED vars
    BY <2>1 DEF vars, IInv, TypeOK, FetchedIsReported, PublishedIsReported
  <2> QED
    BY <2>1, FetchKeeps, FetchFailsKeeps, EnqueueNextKeeps, EnqueueFailsKeeps, StoreKeeps,
       RoundsEndKeeps, RailwayKeeps DEF Next, Step
<1> QED
  BY InvInit, <1>1, PTL DEF Spec

-----------------------------------------------------------------------------
\* The types of the railway, the cache and the rounds in progress.
THEOREM TypeCorrect == Spec => []TypeOK
<1>1. IInv => TypeOK
  BY DEF IInv
<1> QED
  BY <1>1, Invariant, PTL

\* Whatever fails, however rounds overlap and whenever trains come and go: no model
\* in the cache shows an arrival that was not enqueued before.
THEOREM NothingPublishedUnreported == Spec => []PublishedIsReported
<1>1. IInv => PublishedIsReported
  BY DEF IInv
<1> QED
  BY <1>1, Invariant, PTL
=============================================================================
