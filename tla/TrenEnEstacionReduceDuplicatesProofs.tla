---------------- MODULE TrenEnEstacionReduceDuplicatesProofs ----------------
(***************************************************************************)
(* Proofs about TrenEnEstacionReduceDuplicates, for any number of          *)
(* messages and workers, blocks of any size, and any arrivals.             *)
(***************************************************************************)
EXTENDS TrenEnEstacionReduceDuplicates, TLAPS

\* The messages of a block are different ones, and no receipt in it is newer than
\* the last one issued.
BlocksSound ==
    \A w \in Workers : \A i \in DOMAIN block[w] :
        /\ block[w][i].dequeueCount <= dequeueCount[block[w][i].id]
        /\ \A j \in DOMAIN block[w] : i # j => block[w][i].id # block[w][j].id

\* No two workers hold the same delivery.
SoleReceipts ==
    \A v, w \in Workers : v # w =>
        \A i \in DOMAIN block[v] : \A j \in DOMAIN block[w] : block[v][i] # block[w][j]

\* Only first deliveries are on a clean list.
ListsFirst == \A w \in Workers : \A i \in toEmit[w] : FirstDelivery(block[w][i])

\* Worker w has the first delivery of m and has not come to its emission yet.
Pending(w, m) == \E i \in DOMAIN block[w] : /\ block[w][i].id = m
                                            /\ FirstDelivery(block[w][i])
                                            /\ pc[w] = "start" \/ i \in toEmit[w]

\* An arrival still to be emitted was not emitted yet.
EmissionOpen == \A m \in Messages :
                   /\ emitted[m] <= 1
                   /\ dequeueCount[m] = 0 => emitted[m] = 0
                   /\ \A w \in Workers : Pending(w, m) => emitted[m] = 0

\* Nothing excuses that m is lost, and it has not been emitted, though it can be.
Owed(m) == emitted[m] = 0 /\ mishaps[m] = 0 /\ m \notin spoiled \cup Unreadable

\* An arrival that is owed waits for its first delivery, or is in the hands of a
\* worker that will emit it; it has not been deleted and nobody else can get it.
Safe(m) == /\ m \notin Deleted
           /\ \/ dequeueCount[m] = 0 /\ m \notin invisible
              \/ /\ dequeueCount[m] = 1 /\ m \notin Visible
                 /\ \E w \in Workers : Pending(w, m)

NotLost == \A m \in sent : Owed(m) => Safe(m)

NeverHandedOut == \A m \in Messages \ sent : dequeueCount[m] = 0

BlockInv == TypeOK /\ BlocksSound /\ SoleReceipts /\ ListsFirst /\ NeverHandedOut

\* An unreadable message is in no block, so nobody deletes it.
UnreadableWaits == /\ Deleted \cap Unreadable = {}
                   /\ \A w \in Workers : \A i \in DOMAIN block[w] :
                         block[w][i].id \notin Unreadable

IInv == BlockInv /\ UnreadableWaits /\ EmissionOpen /\ NotLost

-----------------------------------------------------------------------------
LEMMA EmptySeq == ASSUME NEW S PROVE <<>> \in Seq(S) /\ DOMAIN <<>> = {}
OBVIOUS

LEMMA SeqElement == ASSUME NEW S, NEW s \in Seq(S), NEW i \in DOMAIN s
                    PROVE  s[i] \in S /\ i \in Nat /\ i >= 1
OBVIOUS

\* A function on 1..n is a sequence.
LEMMA FunctionIsSeq == ASSUME NEW S, NEW n \in Nat, NEW f \in [1 .. n -> S]
                       PROVE  f \in Seq(S)
OBVIOUS

LEMMA IntervalStaysNat ==
    ASSUME NEW c \in Nat
    PROVE  AfterRead(c, Ceiling) \in Nat /\ AfterDecrease(c, Floor, TRUE) \in Nat
<1>1. c < Ceiling => Twice(c) = 2 * c
  BY IntervalAssumption DEF Twice, MaxInt
<1> QED
  BY <1>1, IntervalAssumption DEF AfterRead, AfterDecrease

\* Messages of one block have different hash codes, so Distinct drops nothing and
\* the clean list is all the first deliveries.
LEMMA CleanListIsFirstDeliveries ==
    ASSUME NEW ds, DOMAIN ds \subseteq Nat,
           \A i, j \in DOMAIN ds : i # j => ds[i].id # ds[j].id
    PROVE  CleanList(ds) = {i \in DOMAIN ds : FirstDelivery(ds[i])}
<1> DEFINE Greedy(kept) ==
             \A i \in DOMAIN ds :
                i \in kept <=> /\ FirstDelivery(ds[i])
                               /\ ~\E j \in kept : /\ j < i
                                                   /\ HashCode(ds[j]) = HashCode(ds[i])
                                                   /\ Equals(ds[j], ds[i])
           F == {i \in DOMAIN ds : FirstDelivery(ds[i])}
<1>1. \A kept \in SUBSET DOMAIN ds : Greedy(kept) <=> kept = F
  BY DEF HashCode
<1>2. CleanList(ds) = CHOOSE kept \in SUBSET DOMAIN ds : Greedy(kept)
  BY DEF CleanList
<1>3. F \in SUBSET DOMAIN ds
  OBVIOUS
<1> HIDE DEF Greedy, F
<1>4. CleanList(ds) = F
  BY <1>1, <1>2, <1>3
<1> QED
  BY <1>4 DEF F

\* What a block handed out is made of.
LEMMA BlockShape ==
    ASSUME TypeOK, NEW ms \in Blocks
    PROVE  /\ \E n \in Nat : DOMAIN ms = 1 .. n
           /\ DOMAIN ms # {}
           /\ \A i \in DOMAIN ms : ms[i] \in Visible
           /\ \A i, j \in DOMAIN ms : i # j => ms[i] # ms[j]
           /\ Funs!Range(ms) = {ms[i] : i \in DOMAIN ms}
           /\ [i \in DOMAIN ms |-> Delivery(ms[i])] \in Seq(QueueMessage)
<1>1. PICK n \in 1 .. BlockSize : ms \in Funs!Injection(1 .. n, Visible)
  BY DEF Blocks
<1>2. n \in Nat /\ 1 <= n
  BY BlockAssumption
<1>3. /\ ms \in [1 .. n -> Visible]
      /\ \A i, j \in 1 .. n : i # j => ms[i] # ms[j]
  BY <1>1 DEF Funs!Injection, Funs!IsInjective
<1>4. Visible \subseteq Messages
  BY DEF Visible, TypeOK, QueueTypeOK
<1>5. \A i \in 1 .. n : Delivery(ms[i]) \in QueueMessage
  BY <1>3, <1>4 DEF Delivery, QueueMessage, TypeOK, QueueTypeOK
<1>6. [i \in 1 .. n |-> Delivery(ms[i])] \in [1 .. n -> QueueMessage]
  BY <1>5
<1>7. [i \in 1 .. n |-> Delivery(ms[i])] \in Seq(QueueMessage)
  BY <1>2, <1>6, FunctionIsSeq
<1> QED
  BY <1>2, <1>3, <1>7 DEF Funs!Range

LEMMA BlockElement == ASSUME TypeOK, NEW w \in Workers, NEW i \in DOMAIN block[w]
                      PROVE  block[w][i] \in QueueMessage /\ i \in Nat /\ i >= 1
<1>1. block[w] \in Seq(QueueMessage)
  BY DEF TypeOK
<1> QED
  BY <1>1, SeqElement

\* The end of an iteration, whatever else the step does with the queue.
LEMMA EndTyped ==
    ASSUME TypeOK, QueueTypeOK', NEW w \in Workers, EndIteration(w),
           toEmit' = [toEmit EXCEPT ![w] = {}], next' = [next EXCEPT ![w] = 1],
           emitted' \in [Messages -> Nat], UNCHANGED sent
    PROVE  TypeOK'
<1>1. AfterDecrease(interval[w], Floor, TRUE) \in Nat
  BY IntervalStaysNat DEF TypeOK
<1>2. <<>> \in Seq(QueueMessage) /\ DOMAIN <<>> = {}
  BY EmptySeq
<1>3. /\ pc' \in [Workers -> {"poll", "start", "emit", "remove"}]
      /\ block' \in [Workers -> Seq(QueueMessage)]
      /\ interval' \in [Workers -> Nat]
  BY <1>1, <1>2 DEF TypeOK, EndIteration
<1>4. /\ toEmit' \in [Workers -> SUBSET Nat]
      /\ next' \in [Workers -> Nat \ {0}]
      /\ spoiled' \subseteq sent' \ Unreadable
  BY DEF TypeOK, EndIteration
<1>5. ASSUME NEW v \in Workers
      PROVE  /\ pc[v]' = "poll" <=> block[v]' = <<>>
             /\ toEmit[v]' \subseteq DOMAIN block[v]'
             /\ toEmit[v]' # {} => pc[v]' = "emit"
             /\ next[v]' # 1 => pc[v]' = "remove"
  <2>1. CASE v = w
    BY <1>2, <2>1 DEF TypeOK, EndIteration
  <2>2. CASE v # w
    BY <2>2 DEF TypeOK, EndIteration
  <2> QED
    BY <2>1, <2>2
<1> QED
  BY <1>3, <1>4, <1>5 DEF TypeOK

LEMMA MishapTyped ==
    ASSUME NEW ms, mishaps \in [Messages -> Nat], Mishap(ms)
    PROVE  /\ mishaps' \in [Messages -> Nat]
           /\ \A m \in Messages : mishaps[m] <= mishaps'[m]
           /\ \A m \in Messages \cap ms : mishaps'[m] > 0
           /\ \A m \in Messages \ ms : mishaps'[m] = mishaps[m]
BY DEF Mishap

LEMMA HandOutTyped ==
    ASSUME QueueTypeOK, NEW ms \in SUBSET Messages, HandOut(ms), mishaps' \in [Messages -> Nat]
    PROVE  QueueTypeOK'
BY DEF QueueTypeOK, HandOut, Visible

\* A hand-out that reaches nobody: the counts grow, or stay where nobody could tell.
LEMMA HandOutUnseenFacts ==
    ASSUME QueueTypeOK, NEW ms, HandOutUnseen(ms), mishaps' \in [Messages -> Nat]
    PROVE  /\ QueueTypeOK'
           /\ ms \subseteq Visible /\ ms \subseteq Messages /\ ms \subseteq sent
           /\ \A m \in Messages : dequeueCount[m] <= dequeueCount'[m]
           /\ \A m \in Messages \ ms : dequeueCount'[m] = dequeueCount[m]
           /\ sent' = sent /\ queued' = queued /\ expired' = expired
           /\ invisible' = invisible \cup ms
BY DEF QueueTypeOK, HandOutUnseen, Visible

\* What the two polls that end in one do.
LEMMA UnseenPoll ==
    ASSUME QueueTypeOK, NEW w \in Workers, DequeueAnswerLost(w) \/ DequeueUnreadable(w)
    PROVE  \E ms :
              /\ HandOutUnseen(ms)
              /\ mishaps' \in [Messages -> Nat]
              /\ \/ Mishap(ms \ Unreadable) /\ spoiled' = spoiled
                 \/ mishaps' = mishaps /\ spoiled' = spoiled \cup (ms \ Unreadable)
              /\ UNCHANGED loopVars
<1>1. CASE DequeueAnswerLost(w)
  <2>1. PICK ms \in Blocks :
           HandOutUnseen(Funs!Range(ms)) /\ Mishap(Funs!Range(ms) \ Unreadable)
    BY <1>1 DEF DequeueAnswerLost
  <2>2. mishaps' \in [Messages -> Nat]
    BY <2>1, MishapTyped DEF QueueTypeOK
  <2> QED
    BY <1>1, <2>1, <2>2 DEF DequeueAnswerLost, consumerVars
<1>2. CASE DequeueUnreadable(w)
  BY <1>2 DEF DequeueUnreadable, QueueTypeOK
<1> QED
  BY <1>1, <1>2

LEMMA TypeInit == Init => TypeOK
<1> SUFFICES ASSUME Init PROVE TypeOK
  OBVIOUS
<1>1. <<>> \in Seq(QueueMessage) /\ DOMAIN <<>> = {}
  BY EmptySeq
<1> QED
  BY <1>1, IntervalAssumption DEF Init, QueueInit, ConsumerInit, TypeOK, QueueTypeOK

\* The polling part of the loop.
LEMMA PollTyped ==
    ASSUME TypeOK, NEW w \in Workers,
           \/ PollStep(w)
           \/ /\ DequeueAnswerLost(w) \/ DequeueUnreadable(w)
              /\ UNCHANGED <<progressVars, emitted>>
    PROVE  TypeOK'
<1> USE DEF TypeOK, progressVars
<1>1. CASE DequeueBlock(w) /\ UNCHANGED <<progressVars, emitted>>
  <2>1. PICK ms \in Blocks :
            /\ Funs!Range(ms) \cap Unreadable = {}
            /\ HandOut(Funs!Range(ms))
            /\ block' = [block EXCEPT ![w] = [i \in DOMAIN ms |-> Delivery(ms[i])]]
    BY <1>1 DEF DequeueBlock
  <2>2. Funs!Range(ms) \subseteq Messages
    BY <2>1 DEF HandOut, Visible, QueueTypeOK
  <2>3. QueueTypeOK'
    BY <1>1, <2>1, <2>2, HandOutTyped DEF DequeueBlock, QueueTypeOK
  <2>4. /\ [i \in DOMAIN ms |-> Delivery(ms[i])] \in Seq(QueueMessage)
        /\ [i \in DOMAIN ms |-> Delivery(ms[i])] # <<>>
    BY BlockShape, EmptySeq
  <2>5. pc[w] = "poll" /\ toEmit[w] = {} /\ next[w] = 1
    BY <1>1 DEF DequeueBlock
  <2>6. sent' = sent
    BY <2>1 DEF HandOut
  <2> QED
    BY <1>1, <2>1, <2>3, <2>4, <2>5, <2>6 DEF DequeueBlock
<1>2. CASE DequeueNothing(w) /\ UNCHANGED <<progressVars, emitted>>
  <2>1. AfterRead(interval[w], Ceiling) \in Nat
    BY IntervalStaysNat
  <2> QED
    BY <1>2, <2>1 DEF DequeueNothing, queueVars, QueueTypeOK
<1>3. CASE /\ DequeueAnswerLost(w) \/ DequeueUnreadable(w)
           /\ UNCHANGED <<progressVars, emitted>>
  <2>1. PICK ms :
           /\ HandOutUnseen(ms)
           /\ mishaps' \in [Messages -> Nat]
           /\ spoiled' = spoiled \/ spoiled' = spoiled \cup (ms \ Unreadable)
           /\ UNCHANGED loopVars
    BY <1>3, UnseenPoll
  <2>2. QueueTypeOK' /\ sent' = sent /\ ms \subseteq sent
    BY <2>1, HandOutUnseenFacts
  <2> QED
    BY <1>3, <2>1, <2>2 DEF loopVars
<1> QED
  BY <1>1, <1>2, <1>3 DEF PollStep, Poll

\* ProcessMessagesGroup and its ways out.
LEMMA ProcessTyped ==
    ASSUME TypeOK, BlocksSound, NEW w \in Workers,
           \/ ProcessMessagesGroup(w) \/ EmitFails(w) \/ RemoveFails(w)
           \/ /\ Crash(w)
              /\ toEmit' = [toEmit EXCEPT ![w] = {}]
              /\ next' = [next EXCEPT ![w] = 1]
              /\ UNCHANGED emitted
    PROVE  TypeOK'
<1>0. \A i \in DOMAIN block[w] : block[w][i].id \in Messages
  BY BlockElement DEF QueueMessage
<1>1. CASE Start(w)
  <2>1. DOMAIN block[w] \subseteq Nat
    BY DEF TypeOK
  <2>2. CleanList(block[w]) \subseteq DOMAIN block[w]
    BY <2>1, CleanListIsFirstDeliveries DEF BlocksSound
  <2> QED
    BY <1>1, <2>1, <2>2 DEF Start, TypeOK, QueueTypeOK, queueVars
<1>2. CASE Emit(w)
  BY <1>0, <1>2 DEF Emit, TypeOK, QueueTypeOK, queueVars, consumerVars, loopVars
<1>3. CASE StartRemoving(w)
  BY <1>3 DEF StartRemoving, TypeOK, QueueTypeOK, queueVars, progressVars
<1>4. CASE RemoveNext(w)
  BY <1>4 DEF RemoveNext, Removing, Remove, TypeOK, QueueTypeOK, consumerVars, loopVars
<1>5. CASE RemoveRejected(w)
  <2>1. QueueTypeOK' /\ UNCHANGED <<sent, emitted>>
    BY <1>5 DEF RemoveRejected, Abandon, TypeOK, QueueTypeOK
  <2> QED
    BY <1>5, <2>1, EndTyped DEF RemoveRejected, Abandon, TypeOK
<1>6. CASE Return(w)
  <2>1. QueueTypeOK' /\ UNCHANGED <<sent, emitted>>
    BY <1>6 DEF Return, queueVars, TypeOK, QueueTypeOK
  <2>2. toEmit[w] = {}
    BY <1>6 DEF Return, TypeOK
  <2>3. toEmit' = [toEmit EXCEPT ![w] = {}]
    BY <1>6, <2>2 DEF Return, TypeOK
  <2> QED
    BY <1>6, <2>1, <2>3, EndTyped DEF Return, TypeOK
<1>7. CASE EmitFails(w)
  <2>1. mishaps' \in [Messages -> Nat]
    BY <1>7, MishapTyped DEF EmitFails, TypeOK, QueueTypeOK
  <2>2. QueueTypeOK' /\ UNCHANGED sent
    BY <1>7, <2>1 DEF EmitFails, Abandon, TypeOK, QueueTypeOK
  <2>3. emitted' \in [Messages -> Nat]
    <3>1. PICK i \in DOMAIN block[w] :
             \/ emitted' = emitted
             \/ emitted' = [emitted EXCEPT ![block[w][i].id] = emitted[block[w][i].id] + 1]
      BY <1>7 DEF EmitFails
    <3>2. block[w][i].id \in Messages
      BY <1>0
    <3>3. emitted[block[w][i].id] + 1 \in Nat
      BY <3>2 DEF TypeOK
    <3> QED
      BY <3>1, <3>2, <3>3 DEF TypeOK
  <2> QED
    BY <1>7, <2>2, <2>3, EndTyped DEF EmitFails, Abandon
<1>8. CASE RemoveFails(w)
  <2>1. mishaps' \in [Messages -> Nat]
    BY <1>8, MishapTyped DEF RemoveFails, TypeOK, QueueTypeOK
  <2>2. QueueTypeOK' /\ UNCHANGED <<sent, emitted>>
    BY <1>8, <2>1 DEF RemoveFails, Abandon, TypeOK, QueueTypeOK
  <2> QED
    BY <1>8, <2>2, EndTyped DEF RemoveFails, Abandon, TypeOK
<1>9. CASE /\ Crash(w)
           /\ toEmit' = [toEmit EXCEPT ![w] = {}]
           /\ next' = [next EXCEPT ![w] = 1]
           /\ UNCHANGED emitted
  <2>1. mishaps' \in [Messages -> Nat]
    BY <1>9, MishapTyped DEF Crash, TypeOK, QueueTypeOK
  <2>2. QueueTypeOK'
    BY <1>9, <2>1 DEF Crash, TypeOK, QueueTypeOK
  <2>3. <<>> \in Seq(QueueMessage) /\ DOMAIN <<>> = {}
    BY EmptySeq
  <2> QED
    BY <1>9, <2>2, <2>3, IntervalAssumption DEF Crash, TypeOK
<1> QED
  BY <1>1, <1>2, <1>3, <1>4, <1>5, <1>6, <1>7, <1>8, <1>9 DEF ProcessMessagesGroup

\* The queue's own steps.
LEMMA QueueStepTyped ==
    ASSUME TypeOK, NEW m \in Messages,
           \/ TimesOut(m) \/ GrowsOld(m)
           \/ /\ Enqueue(m) \/ PrematureTimeout(m)
              /\ UNCHANGED <<consumerVars, progressVars, emitted>>
    PROVE  TypeOK'
<1> USE DEF consumerVars, loopVars, progressVars
<1>1. CASE TimesOut(m)
  BY <1>1 DEF TimesOut, VisibilityTimeout, BecomeVisible, TypeOK, QueueTypeOK
<1>2. CASE GrowsOld(m)
  BY <1>2 DEF GrowsOld, Expire, TypeOK, QueueTypeOK
<1>3. CASE Enqueue(m) /\ UNCHANGED <<consumerVars, progressVars, emitted>>
  BY <1>3 DEF Enqueue, TypeOK, QueueTypeOK
<1>4. CASE PrematureTimeout(m) /\ UNCHANGED <<consumerVars, progressVars, emitted>>
  <2>1. mishaps' \in [Messages -> Nat]
    BY <1>4, MishapTyped DEF PrematureTimeout, TypeOK, QueueTypeOK
  <2> QED
    BY <1>4, <2>1 DEF PrematureTimeout, BecomeVisible, TypeOK, QueueTypeOK
<1> QED
  BY <1>1, <1>2, <1>3, <1>4

LEMMA TypePreserved == TypeOK /\ BlocksSound /\ [Next]_vars => TypeOK'
<1>1. TypeOK /\ UNCHANGED vars => TypeOK'
  BY DEF vars, queueVars, consumerVars, loopVars, progressVars, TypeOK, QueueTypeOK
<1> SUFFICES ASSUME TypeOK, BlocksSound, Next PROVE TypeOK'
  BY <1>1
<1>2. CASE \E m \in Messages : \/ TimesOut(m) \/ GrowsOld(m)
                               \/ /\ Enqueue(m) \/ PrematureTimeout(m)
                                  /\ UNCHANGED <<consumerVars, progressVars, emitted>>
  BY <1>2, QueueStepTyped
<1>3. ASSUME NEW w \in Workers,
             \/ PollStep(w)
             \/ /\ DequeueAnswerLost(w) \/ DequeueUnreadable(w)
                /\ UNCHANGED <<progressVars, emitted>>
      PROVE  TypeOK'
  BY <1>3, PollTyped
<1>4. ASSUME NEW w \in Workers,
             \/ ProcessMessagesGroup(w) \/ EmitFails(w) \/ RemoveFails(w)
             \/ /\ Crash(w)
                /\ toEmit' = [toEmit EXCEPT ![w] = {}]
                /\ next' = [next EXCEPT ![w] = 1]
                /\ UNCHANGED emitted
      PROVE  TypeOK'
  BY <1>4, ProcessTyped
<1> QED
  BY <1>2, <1>3, <1>4 DEF Next

-----------------------------------------------------------------------------
(* The blocks in hand. *)

\* A step that hands no block to a worker.
NoNewBlock == /\ \A v \in Workers : block'[v] = block[v] \/ block'[v] = <<>>
              /\ \A m \in Messages : dequeueCount[m] <= dequeueCount'[m]
              /\ \A m \in Messages \ sent' : dequeueCount'[m] = dequeueCount[m]
              /\ sent \subseteq sent'

\* A step that hands w a block of deliveries of ms.
NewBlock(w, ms) ==
    /\ pc[w] = "poll" /\ pc' = [pc EXCEPT ![w] = "start"]
    /\ Funs!Range(ms) \cap Unreadable = {}
    /\ HandOut(Funs!Range(ms))
    /\ block' = [block EXCEPT ![w] = [i \in DOMAIN ms |-> Delivery(ms[i])]]
    /\ UNCHANGED <<mishaps, interval, spoiled, progressVars, emitted>>

LEMMA HandOutCounts ==
    ASSUME TypeOK, NEW ms \in SUBSET Messages, HandOut(ms)
    PROVE  /\ \A m \in ms : m \in Visible /\ dequeueCount'[m] = dequeueCount[m] + 1
           /\ \A m \in Messages \ ms : dequeueCount'[m] = dequeueCount[m]
           /\ \A m \in Messages : dequeueCount[m] <= dequeueCount'[m]
           /\ \A m \in Messages \ sent : dequeueCount'[m] = dequeueCount[m]
           /\ sent' = sent /\ queued' = queued /\ invisible' = invisible \cup ms
BY DEF HandOut, Visible, TypeOK, QueueTypeOK

LEMMA StepKinds ==
    ASSUME TypeOK, [Next]_vars
    PROVE  NoNewBlock \/ \E w \in Workers : \E ms \in Blocks : NewBlock(w, ms)
<1> USE DEF TypeOK, QueueTypeOK, consumerVars, loopVars, queueVars
<1>1. CASE UNCHANGED vars
  BY <1>1 DEF vars, NoNewBlock
<1>2. ASSUME NEW m \in Messages,
             \/ TimesOut(m) \/ GrowsOld(m)
             \/ /\ Enqueue(m) \/ PrematureTimeout(m)
                /\ UNCHANGED <<consumerVars, progressVars, emitted>>
      PROVE  NoNewBlock
  BY <1>2 DEF NoNewBlock, TimesOut, GrowsOld, VisibilityTimeout, BecomeVisible, Expire,
              Enqueue, PrematureTimeout
<1>3. ASSUME NEW w \in Workers, PollStep(w)
      PROVE  NoNewBlock \/ \E ms \in Blocks : NewBlock(w, ms)
  <2>1. CASE DequeueBlock(w)
    <3>1. PICK ms \in Blocks :
              /\ Funs!Range(ms) \cap Unreadable = {}
              /\ HandOut(Funs!Range(ms))
              /\ block' = [block EXCEPT ![w] = [i \in DOMAIN ms |-> Delivery(ms[i])]]
      BY <2>1 DEF DequeueBlock
    <3>2. NewBlock(w, ms)
      BY <1>3, <2>1, <3>1 DEF PollStep, DequeueBlock, NewBlock
    <3> QED
      BY <3>2
  <2>2. CASE DequeueNothing(w)
    BY <2>2 DEF DequeueNothing, NoNewBlock
  <2> QED
    BY <1>3, <2>1, <2>2 DEF PollStep, Poll
<1>4. ASSUME NEW w \in Workers, DequeueAnswerLost(w) \/ DequeueUnreadable(w)
      PROVE  NoNewBlock
  <2>1. PICK ms : HandOutUnseen(ms) /\ mishaps' \in [Messages -> Nat] /\ UNCHANGED loopVars
    BY <1>4, UnseenPoll
  <2>2. /\ \A m \in Messages : dequeueCount[m] <= dequeueCount'[m]
        /\ \A m \in Messages \ ms : dequeueCount'[m] = dequeueCount[m]
        /\ ms \subseteq sent /\ sent' = sent
    BY <2>1, HandOutUnseenFacts
  <2> QED
    BY <2>1, <2>2 DEF NoNewBlock
<1>5. ASSUME NEW w \in Workers,
             \/ block' = block
             \/ block' = [block EXCEPT ![w] = <<>>],
             UNCHANGED <<sent, dequeueCount>>
      PROVE  NoNewBlock
  BY <1>5 DEF NoNewBlock
<1>6. ASSUME NEW w \in Workers, ProcessMessagesGroup(w)
      PROVE  NoNewBlock
  <2>1. UNCHANGED <<sent, dequeueCount>>
    BY <1>6 DEF ProcessMessagesGroup, Start, Emit, StartRemoving, RemoveNext, Remove,
                RemoveRejected, Abandon, Return
  <2>2. \/ block' = block
        \/ block' = [block EXCEPT ![w] = <<>>]
    BY <1>6 DEF ProcessMessagesGroup, Start, Emit, StartRemoving, RemoveNext,
                RemoveRejected, Abandon, Return, EndIteration
  <2> QED
    BY <1>5, <2>1, <2>2
<1>7. ASSUME NEW w \in Workers, EmitFails(w) \/ RemoveFails(w) \/ Crash(w)
      PROVE  NoNewBlock
  <2>1. UNCHANGED <<sent, dequeueCount>>
    BY <1>7 DEF EmitFails, RemoveFails, Crash, Abandon
  <2>2. \/ block' = block
        \/ block' = [block EXCEPT ![w] = <<>>]
    BY <1>7 DEF EmitFails, RemoveFails, Crash, Abandon, EndIteration
  <2> QED
    BY <1>5, <2>1, <2>2
<1> QED
  BY <1>1, <1>2, <1>3, <1>4, <1>6, <1>7 DEF Next

\* The block just handed out: its deliveries bear counts nobody else holds.
LEMMA NewBlockFacts ==
    ASSUME BlockInv, NEW w \in Workers, NEW ms \in Blocks, NewBlock(w, ms)
    PROVE  /\ block[w] = <<>> /\ toEmit[w] = {}
           /\ \A v \in Workers \ {w} : block'[v] = block[v]
           /\ \A i \in DOMAIN block'[w] :
                 /\ ms[i] \in Messages /\ ms[i] \in Visible
                 /\ block'[w][i] = Delivery(ms[i])
                 /\ block'[w][i].id = ms[i]
                 /\ block'[w][i].dequeueCount = dequeueCount[ms[i]] + 1
                 /\ dequeueCount'[ms[i]] = dequeueCount[ms[i]] + 1
                 /\ \A j \in DOMAIN block'[w] : i # j => ms[i] # ms[j]
           /\ \A m \in Funs!Range(ms) : \E i \in DOMAIN block'[w] : m = ms[i]
           /\ \A m \in Messages : dequeueCount[m] <= dequeueCount'[m]
           /\ \A m \in Messages \ sent : dequeueCount'[m] = dequeueCount[m]
           /\ sent' = sent
<1> USE DEF BlockInv
<1>1. /\ \A i \in DOMAIN ms : ms[i] \in Visible
      /\ \A i, j \in DOMAIN ms : i # j => ms[i] # ms[j]
      /\ Funs!Range(ms) = {ms[i] : i \in DOMAIN ms}
  BY BlockShape
<1>2. Visible \subseteq Messages
  BY DEF Visible, TypeOK, QueueTypeOK
<1>3. block'[w] = [i \in DOMAIN ms |-> Delivery(ms[i])]
  BY DEF NewBlock, TypeOK
<1>4. \A v \in Workers \ {w} : block'[v] = block[v]
  BY DEF NewBlock, TypeOK
<1>5. Funs!Range(ms) \subseteq Messages
  BY <1>1, <1>2
<1>6. HandOut(Funs!Range(ms))
  BY DEF NewBlock
<1>7. block[w] = <<>> /\ toEmit[w] = {}
  BY DEF NewBlock, TypeOK
<1>8. /\ \A m \in Funs!Range(ms) : dequeueCount'[m] = dequeueCount[m] + 1
      /\ \A m \in Messages : dequeueCount[m] <= dequeueCount'[m]
      /\ \A m \in Messages \ sent : dequeueCount'[m] = dequeueCount[m]
      /\ sent' = sent
  BY <1>5, <1>6, HandOutCounts
<1> QED
  BY <1>1, <1>2, <1>3, <1>4, <1>7, <1>8 DEF Delivery

LEMMA BlocksPreserved ==
    ASSUME BlockInv, [Next]_vars
    PROVE  BlocksSound' /\ SoleReceipts' /\ NeverHandedOut'
<1> USE DEF BlockInv
<1>0. DOMAIN <<>> = {}
  BY EmptySeq
<1>1. CASE NoNewBlock
  <2>1. ASSUME NEW v \in Workers, NEW i \in DOMAIN block'[v]
        PROVE  block'[v] = block[v] /\ block[v][i].id \in Messages
                /\ block[v][i].dequeueCount \in Nat
    <3>1. block'[v] = block[v]
      BY <1>0, <1>1, <2>1 DEF NoNewBlock
    <3>2. block[v][i] \in QueueMessage
      BY <2>1, <3>1, BlockElement
    <3> QED
      BY <3>1, <3>2 DEF QueueMessage
  <2>2. \A m \in Messages : dequeueCount[m] \in Nat /\ dequeueCount'[m] \in Nat
    BY TypePreserved DEF TypeOK, QueueTypeOK
  <2>3. BlocksSound'
    <3> SUFFICES ASSUME NEW v \in Workers, NEW i \in DOMAIN block'[v]
                 PROVE  /\ block'[v][i].dequeueCount <= dequeueCount'[block'[v][i].id]
                        /\ \A j \in DOMAIN block'[v] :
                              i # j => block'[v][i].id # block'[v][j].id
      BY DEF BlocksSound
    <3>1. block'[v] = block[v] /\ block[v][i].id \in Messages
      BY <2>1
    <3>2. block[v][i].dequeueCount <= dequeueCount[block[v][i].id]
      BY <3>1 DEF BlocksSound
    <3>3. dequeueCount[block[v][i].id] <= dequeueCount'[block[v][i].id]
      BY <1>1, <3>1 DEF NoNewBlock
    <3> QED
      BY <2>1, <2>2, <3>1, <3>2, <3>3 DEF BlocksSound
  <2>4. SoleReceipts'
    BY <2>1 DEF SoleReceipts
  <2>5. NeverHandedOut'
    BY <1>1 DEF NoNewBlock, NeverHandedOut
  <2> QED
    BY <2>3, <2>4, <2>5
<1>2. ASSUME NEW w \in Workers, NEW ms \in Blocks, NewBlock(w, ms)
      PROVE  BlocksSound' /\ SoleReceipts' /\ NeverHandedOut'
  <2>1. \A v \in Workers : \A i \in DOMAIN block[v] :
           block[v][i].id \in Messages /\ block[v][i].dequeueCount \in Nat
    BY BlockElement DEF QueueMessage
  <2>2. \A m \in Messages : dequeueCount[m] \in Nat /\ dequeueCount'[m] \in Nat
    BY TypePreserved DEF TypeOK, QueueTypeOK
  <2>3. BlocksSound'
    <3> SUFFICES ASSUME NEW v \in Workers, NEW i \in DOMAIN block'[v]
                 PROVE  /\ block'[v][i].dequeueCount <= dequeueCount'[block'[v][i].id]
                        /\ \A j \in DOMAIN block'[v] :
                              i # j => block'[v][i].id # block'[v][j].id
      BY DEF BlocksSound
    <3>1. CASE v = w
      BY <1>2, <2>2, <3>1, NewBlockFacts
    <3>2. CASE v # w
      <4>1. block'[v] = block[v]
        BY <1>2, <3>2, NewBlockFacts
      <4>2. /\ block[v][i].dequeueCount <= dequeueCount[block[v][i].id]
            /\ dequeueCount[block[v][i].id] <= dequeueCount'[block[v][i].id]
        BY <1>2, <2>1, <4>1, NewBlockFacts DEF BlocksSound
      <4> QED
        BY <2>1, <2>2, <4>1, <4>2 DEF BlocksSound
    <3> QED
      BY <3>1, <3>2
  <2>4. ASSUME NEW v \in Workers, v # w,
               NEW i \in DOMAIN block'[v], NEW j \in DOMAIN block'[w]
        PROVE  block'[v][i] # block'[w][j]
    <3>1. block'[v] = block[v]
      BY <1>2, <2>4, NewBlockFacts
    <3>2. block[v][i].dequeueCount <= dequeueCount[block[v][i].id]
      BY <3>1 DEF BlocksSound
    <3>3. block'[w][j].dequeueCount = dequeueCount[block'[w][j].id] + 1
      BY <1>2, NewBlockFacts
    <3> QED
      BY <2>1, <2>2, <3>1, <3>2, <3>3
  <2>5. SoleReceipts'
    BY <1>2, <2>4, NewBlockFacts DEF SoleReceipts
  <2>6. NeverHandedOut'
    BY <1>2, NewBlockFacts DEF NeverHandedOut
  <2> QED
    BY <2>3, <2>5, <2>6
<1> QED
  BY <1>1, <1>2, StepKinds

LEMMA UnreadablePreserved ==
    ASSUME BlockInv, UnreadableWaits, [Next]_vars
    PROVE  UnreadableWaits'
<1> USE DEF BlockInv
<1>0. queued \subseteq sent /\ expired \subseteq sent \ queued /\ UnreadableWaits
  BY DEF TypeOK, QueueTypeOK
<1>1. Deleted' \subseteq Deleted \cup (Messages \ Unreadable)
  <2>1. ASSUME NEW w \in Workers, RemoveNext(w)
        PROVE  Deleted' \subseteq Deleted \cup (Messages \ Unreadable)
    <3>1. next[w] \in DOMAIN block[w]
      BY <2>1 DEF RemoveNext, Removing
    <3>2. block[w][next[w]].id \in Messages \ Unreadable
      BY <3>1, BlockElement DEF QueueMessage, UnreadableWaits
    <3> QED
      BY <2>1, <3>2 DEF RemoveNext, Remove, Deleted
  <2>2. ASSUME NEW m \in Messages, Enqueue(m) \/ GrowsOld(m)
        PROVE  Deleted' \subseteq Deleted
    BY <1>0, <2>2 DEF Enqueue, GrowsOld, Expire, Deleted
  <2>3. ASSUME NEW w \in Workers, DequeueAnswerLost(w) \/ DequeueUnreadable(w)
        PROVE  UNCHANGED <<sent, queued, expired>>
    <3>1. \E ms : HandOutUnseen(ms)
      BY <2>3, UnseenPoll DEF TypeOK
    <3> QED
      BY <3>1 DEF HandOutUnseen
  <2>4. ASSUME NEW w \in Workers,
               PollStep(w) \/ Start(w) \/ Emit(w) \/ StartRemoving(w) \/ RemoveRejected(w)
               \/ Return(w) \/ EmitFails(w) \/ RemoveFails(w) \/ Crash(w)
        PROVE  UNCHANGED <<sent, queued, expired>>
    BY <2>4 DEF PollStep, Poll, DequeueBlock, DequeueNothing, HandOut, Start, Emit,
                StartRemoving, RemoveRejected, Return, EmitFails, RemoveFails, Crash, Abandon,
                queueVars
  <2>5. ASSUME NEW m \in Messages, TimesOut(m) \/ PrematureTimeout(m)
        PROVE  UNCHANGED <<sent, queued, expired>>
    BY <2>5 DEF TimesOut, VisibilityTimeout, PrematureTimeout, BecomeVisible
  <2>6. \/ \E w \in Workers : RemoveNext(w)
        \/ \E m \in Messages : Enqueue(m) \/ GrowsOld(m)
        \/ UNCHANGED <<sent, queued, expired>>
    BY <2>3, <2>4, <2>5 DEF Next, ProcessMessagesGroup, vars, queueVars
  <2>7. UNCHANGED <<sent, queued, expired>> => Deleted' = Deleted
    BY DEF Deleted
  <2> QED
    BY <2>1, <2>2, <2>6, <2>7
<1>2. ASSUME NEW v \in Workers, NEW i \in DOMAIN block'[v]
      PROVE  block'[v][i].id \notin Unreadable
  <2>1. CASE NoNewBlock
    <3>1. block'[v] = block[v]
      BY <1>2, <2>1, EmptySeq DEF NoNewBlock
    <3> QED
      BY <1>0, <1>2, <3>1 DEF UnreadableWaits
  <2>2. ASSUME NEW w \in Workers, NEW ms \in Blocks, NewBlock(w, ms)
        PROVE  block'[v][i].id \notin Unreadable
    <3>1. CASE v # w
      <4>1. block'[v] = block[v]
        BY <2>2, <3>1, NewBlockFacts
      <4> QED
        BY <1>0, <1>2, <4>1 DEF UnreadableWaits
    <3>2. CASE v = w
      <4>1. block'[w] = [j \in DOMAIN ms |-> Delivery(ms[j])]
        BY <2>2 DEF NewBlock, TypeOK
      <4>2. i \in DOMAIN ms /\ block'[v][i].id = ms[i]
        BY <1>2, <3>2, <4>1 DEF Delivery
      <4>3. ms[i] \in Funs!Range(ms)
        BY <4>2 DEF Funs!Range
      <4> QED
        BY <2>2, <4>2, <4>3 DEF NewBlock
    <3> QED
      BY <3>1, <3>2
  <2> QED
    BY <2>1, <2>2, StepKinds
<1> QED
  BY <1>0, <1>1, <1>2 DEF UnreadableWaits

-----------------------------------------------------------------------------
(* What becomes of an arrival. *)

\* What a step that leaves a worker's iteration alone, or ends it, leaves of what
\* was pending there.
LEMMA PendingFrame ==
    ASSUME NEW v \in Workers, NEW m \in Messages,
           block'[v] = block[v] \/ block'[v] = <<>>,
           pc'[v] = "start" => pc[v] = "start", toEmit'[v] \subseteq toEmit[v]
    PROVE  Pending(v, m)' => Pending(v, m)
BY EmptySeq DEF Pending

LEMMA PendingSame ==
    ASSUME NEW v \in Workers, NEW m \in Messages,
           block'[v] = block[v], pc'[v] = pc[v], toEmit'[v] = toEmit[v]
    PROVE  Pending(v, m)' <=> Pending(v, m)
BY DEF Pending

\* A step that emits nothing and makes no emission pending.
LEMMA NoEmission ==
    ASSUME TypeOK, TypeOK', EmissionOpen, emitted' = emitted,
           \A m \in Messages : dequeueCount[m] <= dequeueCount'[m],
           \A v \in Workers, m \in Messages : Pending(v, m)' => Pending(v, m)
    PROVE  EmissionOpen'
<1>1. \A m \in Messages : dequeueCount[m] \in Nat /\ dequeueCount'[m] \in Nat
  BY DEF TypeOK, QueueTypeOK
<1> QED
  BY <1>1 DEF EmissionOpen

LEMMA SpoiledGrows == [Next]_vars => spoiled \subseteq spoiled'
BY DEF Next, vars, consumerVars, loopVars, TimesOut, GrowsOld, VisibilityTimeout,
       PrematureTimeout, PollStep, Poll, DequeueBlock, DequeueNothing, DequeueAnswerLost, DequeueUnreadable,
       ProcessMessagesGroup, Start, Emit, StartRemoving, RemoveNext, RemoveRejected, Return,
       EmitFails, RemoveFails, Abandon, EndIteration, Crash

\* Excuses and emissions are never taken back.
LEMMA OwedBefore ==
    ASSUME TypeOK, TypeOK', [Next]_vars, NEW m \in Messages, Owed(m)'
    PROVE  Owed(m)
<1> USE DEF consumerVars, loopVars, queueVars, progressVars
<1>1. emitted[m] \in Nat /\ mishaps[m] \in Nat
  BY DEF TypeOK, QueueTypeOK
<1>2. spoiled \subseteq spoiled'
  BY SpoiledGrows
<1>3. mishaps'[m] = mishaps[m] \/ mishaps'[m] = mishaps[m] + 1
  BY DEF Next, vars, TimesOut, GrowsOld, VisibilityTimeout, PrematureTimeout, PollStep, Poll,
         DequeueBlock, DequeueNothing, DequeueAnswerLost, DequeueUnreadable, Enqueue, Expire,
         ProcessMessagesGroup, Start, Emit, StartRemoving, RemoveNext, RemoveRejected, Return,
         EmitFails, RemoveFails, Abandon, EndIteration, Crash, Mishap
<1>4. emitted'[m] = emitted[m] \/ emitted'[m] = emitted[m] + 1
  <2>1. ASSUME NEW w \in Workers, Emit(w) \/ EmitFails(w)
        PROVE  emitted'[m] = emitted[m] \/ emitted'[m] = emitted[m] + 1
    <3>1. PICK i \in DOMAIN block[w] :
             \/ emitted' = emitted
             \/ emitted' = [emitted EXCEPT ![block[w][i].id] = emitted[block[w][i].id] + 1]
      BY <2>1 DEF Emit, EmitFails
    <3> QED
      BY <3>1 DEF TypeOK
  <2>2. \/ \E w \in Workers : Emit(w) \/ EmitFails(w)
        \/ emitted' = emitted
    BY DEF Next, vars, TimesOut, GrowsOld, PollStep, ProcessMessagesGroup, Start,
           StartRemoving, RemoveNext, RemoveRejected, Return, RemoveFails
  <2> QED
    BY <2>1, <2>2
<1> QED
  BY <1>1, <1>2, <1>3, <1>4 DEF Owed

\* The queue's own steps.
LEMMA QueueStepKeeps ==
    ASSUME BlockInv, EmissionOpen, NotLost, TypeOK', NEW n \in Messages,
           \/ TimesOut(n) \/ GrowsOld(n)
           \/ /\ Enqueue(n) \/ PrematureTimeout(n)
              /\ UNCHANGED <<consumerVars, progressVars, emitted>>
    PROVE  ListsFirst' /\ EmissionOpen' /\ NotLost'
<1> USE DEF consumerVars, loopVars, progressVars
<1>1. UNCHANGED <<block, pc, toEmit, emitted, dequeueCount, spoiled>>
  BY DEF TimesOut, GrowsOld, VisibilityTimeout, PrematureTimeout, BecomeVisible, Expire, Enqueue
<1>2. \A v \in Workers, m \in Messages : Pending(v, m)' <=> Pending(v, m)
  BY <1>1, PendingSame
<1>3. ListsFirst'
  BY <1>1 DEF BlockInv, ListsFirst
<1>4. EmissionOpen'
  BY <1>1, <1>2 DEF EmissionOpen
<1>5. Next
  BY DEF Next
<1>6. ASSUME NEW m \in sent', Owed(m)' PROVE Safe(m)'
  <2>1. m \in Messages
    BY DEF TypeOK, QueueTypeOK
  <2>2. Owed(m)
    BY <1>5, <1>6, <2>1, OwedBefore DEF BlockInv
  <2>3. CASE Enqueue(n)
    <3>1. CASE m = n
      <4>1. m \notin sent /\ m \notin invisible /\ m \in queued'
        BY <2>3, <3>1 DEF Enqueue, BlockInv, TypeOK, QueueTypeOK
      <4>2. dequeueCount'[m] = 0 /\ m \notin invisible'
        BY <1>1, <2>1, <2>3, <4>1 DEF BlockInv, NeverHandedOut, Enqueue
      <4> QED
        BY <4>1, <4>2 DEF Safe, Deleted
    <3>2. CASE m # n
      <4>1. m \in sent /\ Safe(m)
        BY <2>2, <2>3, <3>2 DEF Enqueue, NotLost
      <4> QED
        BY <1>1, <1>2, <2>1, <2>3, <3>2, <4>1 DEF Safe, Enqueue, Deleted, Visible
    <3> QED
      BY <3>1, <3>2
  <2>4. CASE GrowsOld(n)
    <3>1. m \in sent /\ Safe(m)
      BY <2>2, <2>4 DEF GrowsOld, Expire, NotLost
    <3> QED
      BY <1>1, <1>2, <2>1, <2>4, <3>1 DEF Safe, GrowsOld, Expire, Deleted, Visible
  <2>5. CASE TimesOut(n) \/ PrematureTimeout(n)
    <3>1. m \in sent /\ Safe(m) /\ BecomeVisible(n)
      BY <2>2, <2>5 DEF TimesOut, VisibilityTimeout, PrematureTimeout, BecomeVisible, NotLost
    <3>2. CASE m = n
      <4>1. CASE TimesOut(n)
        <5>1. ~InHand(m) /\ m \in invisible
          BY <3>2, <4>1 DEF TimesOut, VisibilityTimeout, BecomeVisible
        <5>2. PICK w \in Workers : Pending(w, m)
          BY <3>1, <5>1 DEF Safe
        <5>3. dequeueCount[m] = 1
          BY <3>1, <5>1 DEF Safe
        <5>4. PICK i \in DOMAIN block[w] : block[w][i].id = m /\ FirstDelivery(block[w][i])
          BY <5>2 DEF Pending
        <5>5. block[w][i].dequeueCount \in Nat \ {0}
          BY BlockElement DEF QueueMessage, BlockInv
        <5>6. block[w][i].dequeueCount = 1
          BY <5>4, <5>5 DEF FirstDelivery
        <5> QED
          BY <5>1, <5>3, <5>4, <5>6 DEF InHand
      <4>2. CASE PrematureTimeout(n)
        <5>1. mishaps'[m] > 0
          BY <2>1, <3>2, <4>2, MishapTyped DEF PrematureTimeout, BlockInv, TypeOK, QueueTypeOK
        <5>2. mishaps'[m] = 0
          BY <1>6 DEF Owed
        <5> QED
          BY <5>1, <5>2
      <4> QED
        BY <2>5, <4>1, <4>2
    <3>3. CASE m # n
      BY <1>1, <1>2, <2>1, <3>1, <3>3 DEF Safe, BecomeVisible, Deleted, Visible
    <3> QED
      BY <3>2, <3>3
  <2> QED
    BY <2>3, <2>4, <2>5
<1> QED
  BY <1>3, <1>4, <1>6 DEF NotLost

\* A block is handed out, and reaches the worker.
LEMMA NewBlockKeeps ==
    ASSUME BlockInv, EmissionOpen, NotLost, TypeOK',
           NEW w \in Workers, NEW ms \in Blocks, NewBlock(w, ms)
    PROVE  ListsFirst' /\ EmissionOpen' /\ NotLost'
<1> USE DEF progressVars
<1>1. UNCHANGED <<toEmit, emitted, mishaps, spoiled>>
  BY DEF NewBlock
<1>2. toEmit[w] = {} /\ block[w] = <<>>
  BY NewBlockFacts
<1>3. ListsFirst'
  BY <1>1, <1>2, NewBlockFacts DEF ListsFirst, BlockInv
<1>4. \A v \in Workers \ {w} : \A m \in Messages : Pending(v, m)' <=> Pending(v, m)
  <2>1. \A v \in Workers \ {w} : pc'[v] = pc[v] /\ block'[v] = block[v] /\ toEmit'[v] = toEmit[v]
    BY <1>1, NewBlockFacts DEF NewBlock, BlockInv, TypeOK
  <2> QED
    BY <2>1, PendingSame
<1>5. pc'[w] = "start"
  BY DEF NewBlock, BlockInv, TypeOK
<1>6. \A m \in Messages : dequeueCount[m] \in Nat /\ dequeueCount'[m] \in Nat
  BY DEF BlockInv, TypeOK, QueueTypeOK
<1>7. EmissionOpen'
  <2> SUFFICES ASSUME NEW m \in Messages
               PROVE  /\ emitted'[m] <= 1
                      /\ dequeueCount'[m] = 0 => emitted'[m] = 0
                      /\ \A v \in Workers : Pending(v, m)' => emitted'[m] = 0
    BY DEF EmissionOpen
  <2>1. emitted'[m] <= 1
    BY <1>1 DEF EmissionOpen
  <2>2. dequeueCount'[m] = 0 => emitted'[m] = 0
    <3>1. dequeueCount[m] <= dequeueCount'[m]
      BY NewBlockFacts
    <3> QED
      BY <1>1, <1>6, <3>1 DEF EmissionOpen
  <2>3. ASSUME NEW v \in Workers, Pending(v, m)' PROVE emitted'[m] = 0
    <3>1. CASE v = w
      <4>1. PICK i \in DOMAIN block'[w] : block'[w][i].id = m /\ FirstDelivery(block'[w][i])
        BY <2>3, <3>1 DEF Pending, FirstDelivery
      <4>2. block'[w][i].dequeueCount = dequeueCount[m] + 1
        BY <4>1, NewBlockFacts
      <4>3. dequeueCount[m] = 0
        BY <1>6, <4>1, <4>2 DEF FirstDelivery
      <4> QED
        BY <1>1, <4>3 DEF EmissionOpen
    <3>2. CASE v # w
      BY <1>1, <1>4, <2>3, <3>2 DEF EmissionOpen
    <3> QED
      BY <3>1, <3>2
  <2> QED
    BY <2>1, <2>2, <2>3
<1>8. ASSUME NEW m \in sent', Owed(m)' PROVE Safe(m)'
  <2>1. m \in sent /\ m \in Messages /\ sent' = sent
    BY NewBlockFacts DEF BlockInv, TypeOK, QueueTypeOK
  <2>2. Safe(m)
    BY <1>1, <1>8, <2>1 DEF NotLost, Owed
  <2>3. HandOut(Funs!Range(ms)) /\ Funs!Range(ms) \subseteq Messages
    BY DEF NewBlock, HandOut, Visible, BlockInv, TypeOK, QueueTypeOK
  <2>4. /\ UNCHANGED <<queued, expired>>
        /\ invisible' = invisible \cup Funs!Range(ms)
    BY <2>3 DEF HandOut
  <2>5. CASE m \in Funs!Range(ms)
    <3>1. m \in Visible /\ dequeueCount'[m] = dequeueCount[m] + 1
      BY <2>3, <2>5, HandOutCounts DEF BlockInv
    <3>2. dequeueCount[m] = 0
      BY <2>2, <3>1 DEF Safe
    <3>3. PICK i \in DOMAIN block'[w] : m = ms[i]
      BY <2>5, NewBlockFacts
    <3>4. block'[w][i].id = m /\ block'[w][i].dequeueCount = 1
      BY <3>2, <3>3, NewBlockFacts
    <3>5. Pending(w, m)'
      BY <1>5, <3>4 DEF Pending, FirstDelivery
    <3> QED
      BY <2>1, <2>2, <2>4, <2>5, <3>1, <3>2, <3>5 DEF Safe, Deleted, Visible
  <2>6. CASE m \notin Funs!Range(ms)
    <3>1. dequeueCount'[m] = dequeueCount[m]
      BY <2>1, <2>3, <2>6, HandOutCounts DEF BlockInv
    <3>2. ~Pending(w, m)
      BY <1>2, EmptySeq DEF Pending
    <3> QED
      BY <1>4, <2>1, <2>2, <2>4, <2>6, <3>1, <3>2 DEF Safe, Deleted, Visible
  <2> QED
    BY <2>5, <2>6
<1> QED
  BY <1>3, <1>7, <1>8 DEF NotLost

\* A poll that brings the worker nothing: an empty queue, a lost answer, an
\* unreadable message in the block.
LEMMA FruitlessPollKeeps ==
    ASSUME BlockInv, EmissionOpen, NotLost, TypeOK', NEW w \in Workers,
           DequeueNothing(w) \/ DequeueAnswerLost(w) \/ DequeueUnreadable(w),
           UNCHANGED <<progressVars, emitted>>
    PROVE  ListsFirst' /\ EmissionOpen' /\ NotLost'
<1>0. DequeueAnswerLost(w) \/ DequeueUnreadable(w) => Next
  BY DEF Next
<1> USE DEF consumerVars, loopVars, queueVars, progressVars, BlockInv
<1>1. UNCHANGED <<block, pc, toEmit, emitted>>
  BY DEF DequeueNothing, DequeueAnswerLost, DequeueUnreadable
<1>2. \A v \in Workers, m \in Messages : Pending(v, m)' <=> Pending(v, m)
  BY <1>1, PendingSame
<1>3. ListsFirst'
  BY <1>1 DEF ListsFirst
<1>4. CASE DequeueNothing(w)
  <2>1. UNCHANGED <<sent, queued, invisible, dequeueCount, expired, mishaps, spoiled>>
    BY <1>4 DEF DequeueNothing
  <2>2. EmissionOpen'
    BY <1>1, <1>2, <2>1 DEF EmissionOpen
  <2>3. \A m \in sent : Owed(m)' => Owed(m)
    BY <1>1, <2>1 DEF Owed
  <2>4. \A m \in sent : Safe(m) => Safe(m)'
    BY <1>2, <2>1 DEF Safe, Deleted, Visible, TypeOK, QueueTypeOK
  <2> QED
    BY <1>3, <2>1, <2>2, <2>3, <2>4 DEF NotLost
<1>5. CASE DequeueAnswerLost(w) \/ DequeueUnreadable(w)
  <2>1. PICK ms :
           /\ HandOutUnseen(ms)
           /\ mishaps' \in [Messages -> Nat]
           /\ \/ Mishap(ms \ Unreadable) /\ spoiled' = spoiled
              \/ spoiled' = spoiled \cup (ms \ Unreadable)
    BY <1>5, UnseenPoll DEF TypeOK
  <2>2. ms \subseteq Messages
    BY <2>1, HandOutUnseenFacts DEF TypeOK
  <2>3. /\ \A m \in Messages : dequeueCount[m] <= dequeueCount'[m]
        /\ \A m \in Messages \ ms : dequeueCount'[m] = dequeueCount[m]
        /\ sent' = sent /\ queued' = queued /\ invisible' = invisible \cup ms
        /\ expired' = expired
    BY <2>1, HandOutUnseenFacts DEF TypeOK
  <2>4. EmissionOpen'
    BY <1>1, <1>2, <2>3, NoEmission
  <2>5. ASSUME NEW m \in sent', Owed(m)' PROVE Safe(m)'
    <3>1. m \in Messages /\ m \in sent
      BY <2>3 DEF TypeOK, QueueTypeOK
    <3>2. m \notin ms
      <4> SUFFICES ASSUME m \in ms PROVE FALSE
        OBVIOUS
      <4>1. mishaps'[m] = 0 /\ m \notin spoiled' /\ m \in ms \ Unreadable
        BY <2>5 DEF Owed
      <4>2. CASE Mishap(ms \ Unreadable)
        <5>1. mishaps'[m] > 0
          BY <3>1, <4>1, <4>2, MishapTyped DEF TypeOK, QueueTypeOK
        <5> QED
          BY <4>1, <5>1
      <4>3. CASE spoiled' = spoiled \cup (ms \ Unreadable)
        BY <4>1, <4>3
      <4> QED
        BY <2>1, <4>2, <4>3
    <3>3. Owed(m)
      <4>1. [Next]_vars
        BY <1>0, <1>5
      <4> QED
        BY <2>5, <3>1, <4>1, OwedBefore
    <3>4. Safe(m)
      BY <3>1, <3>3 DEF NotLost
    <3> QED
      BY <1>2, <2>3, <3>1, <3>2, <3>4 DEF Safe, Deleted, Visible
  <2> QED
    BY <1>3, <2>4, <2>5 DEF NotLost
<1> QED
  BY <1>4, <1>5

\* ProcessMessagesGroup computes its list: the first deliveries in its block are as
\* pending as before.
LEMMA StartKeeps ==
    ASSUME BlockInv, EmissionOpen, NotLost, TypeOK', NEW w \in Workers, Start(w)
    PROVE  ListsFirst' /\ EmissionOpen' /\ NotLost'
<1> USE DEF BlockInv, queueVars
<1>1. /\ UNCHANGED <<sent, queued, invisible, dequeueCount, expired, mishaps>>
      /\ UNCHANGED <<block, spoiled, emitted>>
  BY DEF Start
<1>2. toEmit'[w] = {i \in DOMAIN block[w] : FirstDelivery(block[w][i])}
  <2>1. DOMAIN block[w] \subseteq Nat
    BY DEF TypeOK
  <2>2. CleanList(block[w]) = {i \in DOMAIN block[w] : FirstDelivery(block[w][i])}
    BY <2>1, CleanListIsFirstDeliveries DEF BlocksSound
  <2> QED
    BY <2>2 DEF Start, TypeOK
<1>3. \A v \in Workers \ {w} : toEmit'[v] = toEmit[v] /\ pc'[v] = pc[v] /\ block'[v] = block[v]
  BY DEF Start, TypeOK
<1>4. ListsFirst'
  BY <1>1, <1>2, <1>3 DEF ListsFirst
<1>5. \A v \in Workers, m \in Messages : Pending(v, m)' <=> Pending(v, m)
  <2> SUFFICES ASSUME NEW v \in Workers, NEW m \in Messages
               PROVE  Pending(v, m)' <=> Pending(v, m)
    OBVIOUS
  <2>1. CASE v = w
    <3>1. pc[w] = "start" /\ pc'[w] = "emit"
      BY DEF Start, TypeOK
    <3> QED
      BY <1>1, <1>2, <2>1, <3>1 DEF Pending
  <2>2. CASE v # w
    BY <1>3, <2>2, PendingSame
  <2> QED
    BY <2>1, <2>2
<1>6. EmissionOpen'
  BY <1>1, <1>5 DEF EmissionOpen
<1>7. \A m \in sent : Owed(m)' => Owed(m)
  BY <1>1 DEF Owed
<1>8. \A m \in sent : Safe(m) => Safe(m)'
  BY <1>1, <1>5 DEF Safe, Deleted, Visible, TypeOK, QueueTypeOK
<1> QED
  BY <1>1, <1>4, <1>6, <1>7, <1>8 DEF NotLost

\* The message at position i of w's block is enqueued as clean, or may have been,
\* and w's iteration goes on without it or ends.
Emission(w, i) ==
    /\ pc[w] = "emit" /\ pc'[w] # "start" /\ i \in toEmit[w]
    /\ \/ emitted' = emitted
       \/ emitted' = [emitted EXCEPT ![block[w][i].id] = emitted[block[w][i].id] + 1]
    /\ block'[w] = block[w] \/ block'[w] = <<>>
    /\ toEmit'[w] \subseteq toEmit[w] \ {i}
    /\ \A v \in Workers \ {w} : /\ block'[v] = block[v] /\ pc'[v] = pc[v]
                                /\ toEmit'[v] = toEmit[v]
    /\ UNCHANGED <<sent, queued, invisible, dequeueCount, expired, spoiled>>

LEMMA EmissionKinds ==
    ASSUME BlockInv, NEW w \in Workers, Emit(w) \/ EmitFails(w)
    PROVE  \E i \in DOMAIN block[w] : Emission(w, i)
<1> USE DEF BlockInv, consumerVars, loopVars, queueVars
<1>1. PICK i \in DOMAIN block[w] :
         /\ IsFirst(w, i)
         /\ \/ emitted' = emitted
            \/ emitted' = [emitted EXCEPT ![block[w][i].id] = emitted[block[w][i].id] + 1]
         /\ toEmit' = [toEmit EXCEPT ![w] = toEmit[w] \ {i}]
            \/ toEmit' = [toEmit EXCEPT ![w] = {}]
  BY DEF Emit, EmitFails, Abandon
<1>2. pc[w] = "emit" /\ i \in toEmit[w]
  BY <1>1 DEF Emit, EmitFails, IsFirst
<1>3. /\ toEmit'[w] \subseteq toEmit[w] \ {i}
      /\ \A v \in Workers \ {w} : toEmit'[v] = toEmit[v]
  BY <1>1 DEF TypeOK
<1>4. /\ pc'[w] # "start"
      /\ block'[w] = block[w] \/ block'[w] = <<>>
      /\ \A v \in Workers \ {w} : block'[v] = block[v] /\ pc'[v] = pc[v]
  <2>1. CASE UNCHANGED <<block, pc>>
    BY <1>2, <2>1
  <2>2. CASE EndIteration(w)
    BY <2>2 DEF EndIteration, TypeOK
  <2> QED
    BY <2>1, <2>2 DEF Emit, EmitFails, Abandon
<1>5. UNCHANGED <<sent, queued, invisible, dequeueCount, expired, spoiled>>
  BY DEF Emit, EmitFails, Abandon, EndIteration
<1> QED
  BY <1>1, <1>2, <1>3, <1>4, <1>5 DEF Emission

\* An emission is of a first delivery, and of an arrival not emitted before.
LEMMA EmissionIsFirst ==
    ASSUME BlockInv, EmissionOpen, NEW w \in Workers, NEW i \in DOMAIN block[w],
           Emission(w, i)
    PROVE  /\ block[w][i] \in QueueMessage /\ block[w][i].id \in Messages
           /\ FirstDelivery(block[w][i]) /\ block[w][i].dequeueCount = 1
           /\ emitted[block[w][i].id] = 0
<1> USE DEF BlockInv
<1> DEFINE d == block[w][i]
<1>1. d \in QueueMessage
  BY BlockElement
<1>2. FirstDelivery(d)
  BY DEF Emission, ListsFirst
<1>3. d.dequeueCount = 1 /\ d.id \in Messages
  BY <1>1, <1>2 DEF QueueMessage, FirstDelivery
<1>4. Pending(w, d.id)
  BY <1>2 DEF Pending, Emission
<1>5. emitted[d.id] = 0
  BY <1>3, <1>4 DEF EmissionOpen
<1> QED
  BY <1>1, <1>2, <1>3, <1>5

\* It ends all expectation of another one: the first delivery was the only one, and
\* in this block only.
LEMMA EmissionKeepsOpen ==
    ASSUME BlockInv, EmissionOpen, TypeOK', NEW w \in Workers, NEW i \in DOMAIN block[w],
           Emission(w, i)
    PROVE  ListsFirst' /\ EmissionOpen'
<1> USE DEF BlockInv
<1> DEFINE d == block[w][i]
<1>1. d \in QueueMessage /\ FirstDelivery(d) /\ d.dequeueCount = 1
  BY EmissionIsFirst
<1>n. PICK n \in Messages : n = d.id
  BY <1>1 DEF QueueMessage
<1>2. emitted[n] = 0
  BY <1>n, EmissionIsFirst
<1>3. dequeueCount'[n] # 0
  <2>1. d.dequeueCount <= dequeueCount[n] /\ dequeueCount[n] \in Nat
    BY <1>n, <1>1 DEF BlocksSound, TypeOK, QueueTypeOK
  <2> QED
    BY <1>n, <1>1, <2>1 DEF Emission
<1>4. ASSUME NEW v \in Workers PROVE ~Pending(v, n)'
  <2> SUFFICES ASSUME NEW j \in DOMAIN block'[v], block'[v][j].id = n,
                      FirstDelivery(block'[v][j]), pc'[v] = "start" \/ j \in toEmit'[v]
               PROVE  FALSE
    BY DEF Pending
  <2>1. CASE v = w
    <3>1. block'[w] = block[w] /\ j \in toEmit[w] /\ j # i
      BY <2>1, EmptySeq DEF Emission
    <3> QED
      BY <1>n, <2>1, <3>1 DEF BlocksSound
  <2>2. CASE v # w
    <3>1. block'[v] = block[v]
      BY <2>2 DEF Emission
    <3>2. block[v][j] \in QueueMessage /\ block[v][j].id = n
      BY <3>1, BlockElement
    <3>3. block[v][j].dequeueCount = 1
      BY <3>1, <3>2 DEF QueueMessage, FirstDelivery
    <3>4. block[v][j] = d
      BY <1>n, <1>1, <3>2, <3>3 DEF QueueMessage
    <3> QED
      BY <2>2, <3>1, <3>4 DEF SoleReceipts
  <2> QED
    BY <2>1, <2>2
<1>5. ASSUME NEW v \in Workers, NEW m \in Messages, Pending(v, m)' PROVE Pending(v, m)
  BY <1>5, PendingFrame DEF Emission
<1>6. EmissionOpen'
  <2> SUFFICES ASSUME NEW m \in Messages
               PROVE  /\ emitted'[m] <= 1
                      /\ dequeueCount'[m] = 0 => emitted'[m] = 0
                      /\ \A v \in Workers : Pending(v, m)' => emitted'[m] = 0
    BY DEF EmissionOpen
  <2>1. CASE m = n
    <3>1. emitted'[n] = 0 \/ emitted'[n] = 1
      BY <1>n, <1>1, <1>2 DEF Emission, TypeOK
    <3> QED
      BY <1>3, <1>4, <2>1, <3>1
  <2>2. CASE m # n
    <3>1. emitted'[m] = emitted[m] /\ dequeueCount' = dequeueCount
      BY <1>n, <1>1, <2>2 DEF Emission, TypeOK
    <3> QED
      BY <1>5, <3>1 DEF EmissionOpen
  <2> QED
    BY <2>1, <2>2
<1>7. ListsFirst'
  <2> SUFFICES ASSUME NEW v \in Workers, NEW j \in toEmit'[v] PROVE FirstDelivery(block'[v][j])
    BY DEF ListsFirst
  <2>1. j \in DOMAIN block'[v] /\ j \in toEmit[v]
    BY DEF TypeOK, Emission
  <2>2. block'[v] = block[v]
    BY <2>1, EmptySeq DEF Emission
  <2> QED
    BY <2>1, <2>2 DEF ListsFirst
<1> QED
  BY <1>6, <1>7

LEMMA EmitKeeps ==
    ASSUME BlockInv, EmissionOpen, NotLost, TypeOK', NEW w \in Workers, Emit(w)
    PROVE  ListsFirst' /\ EmissionOpen' /\ NotLost'
<1> USE DEF BlockInv, queueVars, consumerVars, loopVars
<1>1. PICK i \in DOMAIN block[w] :
         /\ IsFirst(w, i)
         /\ emitted' = [emitted EXCEPT ![block[w][i].id] = emitted[block[w][i].id] + 1]
         /\ toEmit' = [toEmit EXCEPT ![w] = toEmit[w] \ {i}]
  BY DEF Emit
<1>2. UNCHANGED <<sent, queued, invisible, dequeueCount, expired, mishaps, spoiled, block, pc>>
  BY DEF Emit
<1>3. pc[w] = "emit"
  BY DEF Emit
<1>4. ListsFirst' /\ EmissionOpen'
  <2>1. Emission(w, i)
    BY <1>1, <1>2, <1>3 DEF Emission, IsFirst, TypeOK
  <2> QED
    BY <2>1, EmissionKeepsOpen
<1>5. block[w][i].id \in Messages
  BY BlockElement DEF QueueMessage
<1>6. ASSUME NEW m \in sent, Owed(m)' PROVE Safe(m)'
  <2>0. m \in Messages
    BY DEF TypeOK, QueueTypeOK
  <2>1. m # block[w][i].id
    <3>1. emitted[block[w][i].id] \in Nat
      BY <1>5 DEF TypeOK
    <3>2. emitted'[block[w][i].id] = emitted[block[w][i].id] + 1
      BY <1>1, <1>5 DEF TypeOK
    <3>3. emitted'[m] = 0
      BY <1>6 DEF Owed
    <3> QED
      BY <3>1, <3>2, <3>3
  <2>2. Owed(m)
    BY <1>1, <1>2, <1>5, <1>6, <2>0, <2>1 DEF Owed, TypeOK
  <2>3. Safe(m)
    BY <2>2 DEF NotLost
  <2>4. ASSUME NEW v \in Workers, Pending(v, m) PROVE Pending(v, m)'
    <3>1. CASE v = w
      <4>1. PICK j \in DOMAIN block[w] : /\ block[w][j].id = m /\ FirstDelivery(block[w][j])
                                         /\ j \in toEmit[w]
        BY <1>3, <2>4, <3>1 DEF Pending
      <4>2. j \in toEmit'[w]
        BY <1>1, <2>1, <4>1 DEF TypeOK
      <4> QED
        BY <1>2, <3>1, <4>1, <4>2 DEF Pending
    <3>2. CASE v # w
      <4>1. toEmit'[v] = toEmit[v]
        BY <1>1, <3>2 DEF TypeOK
      <4> QED
        BY <1>2, <2>0, <2>4, <4>1, PendingSame
    <3> QED
      BY <3>1, <3>2
  <2> QED
    BY <1>2, <2>0, <2>3, <2>4 DEF Safe, Deleted, Visible
<1> QED
  BY <1>2, <1>4, <1>6 DEF NotLost

\* The list is through: nothing was pending any more.
LEMMA StartRemovingKeeps ==
    ASSUME BlockInv, EmissionOpen, NotLost, TypeOK', NEW w \in Workers, StartRemoving(w)
    PROVE  ListsFirst' /\ EmissionOpen' /\ NotLost'
<1> USE DEF BlockInv, queueVars, progressVars
<1>1. /\ UNCHANGED <<sent, queued, invisible, dequeueCount, expired, mishaps, spoiled>>
      /\ UNCHANGED <<block, toEmit, emitted>>
  BY DEF StartRemoving
<1>2. /\ pc[w] # "start" /\ pc'[w] # "start"
      /\ \A v \in Workers \ {w} : pc'[v] = pc[v]
  BY DEF StartRemoving, TypeOK
<1>3. \A v \in Workers, m \in Messages : Pending(v, m)' <=> Pending(v, m)
  BY <1>1, <1>2 DEF Pending
<1>4. ListsFirst' /\ EmissionOpen'
  BY <1>1, <1>3 DEF ListsFirst, EmissionOpen
<1>5. \A m \in sent : Owed(m)' => Owed(m)
  BY <1>1 DEF Owed
<1>6. \A m \in sent : Safe(m) => Safe(m)'
  BY <1>1, <1>3 DEF Safe, Deleted, Visible, TypeOK, QueueTypeOK
<1> QED
  BY <1>1, <1>4, <1>5, <1>6 DEF NotLost

\* An arrival somebody still has to emit is never the one that is removed: the
\* receipt its deleter would need is in the other's hands.
LEMMA RemoveNextKeeps ==
    ASSUME BlockInv, EmissionOpen, NotLost, TypeOK', NEW w \in Workers, RemoveNext(w)
    PROVE  ListsFirst' /\ EmissionOpen' /\ NotLost'
<1> USE DEF BlockInv, consumerVars, loopVars
<1> DEFINE d == block[w][next[w]]
<1>1. UNCHANGED <<sent, dequeueCount, expired, mishaps, spoiled, block, pc, toEmit, emitted>>
  BY DEF RemoveNext, Remove
<1>2. /\ pc[w] = "remove" /\ d \in QueueMessage
      /\ d.dequeueCount = dequeueCount[d.id]
      /\ queued' = queued \ {d.id} /\ invisible' = invisible \ {d.id}
  BY BlockElement DEF RemoveNext, Removing, Remove, Accepts
<1>3. \A v \in Workers, m \in Messages : Pending(v, m)' <=> Pending(v, m)
  BY <1>1, PendingSame
<1>4. ListsFirst' /\ EmissionOpen'
  BY <1>1, <1>3 DEF ListsFirst, EmissionOpen
<1>5. ASSUME NEW m \in sent, Owed(m)' PROVE Safe(m)'
  <2>0. m \in Messages
    BY DEF TypeOK, QueueTypeOK
  <2>1. Safe(m)
    BY <1>1, <1>5 DEF Owed, NotLost
  <2>2. m # d.id
    <3> SUFFICES ASSUME m = d.id PROVE FALSE
      OBVIOUS
    <3>1. d.dequeueCount = 1 /\ \E v \in Workers : Pending(v, m)
      BY <1>2, <2>1 DEF QueueMessage, Safe
    <3>2. PICK v \in Workers : Pending(v, m)
      BY <3>1
    <3>3. v # w
      BY <1>2, <3>2 DEF Pending, TypeOK
    <3>4. PICK i \in DOMAIN block[v] : block[v][i].id = m /\ FirstDelivery(block[v][i])
      BY <3>2 DEF Pending
    <3>5. block[v][i] \in QueueMessage
      BY BlockElement
    <3>6. block[v][i].dequeueCount = 1
      BY <3>4, <3>5 DEF QueueMessage, FirstDelivery
    <3>7. block[v][i] = d
      BY <1>2, <3>1, <3>4, <3>5, <3>6 DEF QueueMessage
    <3>8. next[w] \in DOMAIN block[w]
      BY DEF RemoveNext, Removing
    <3> QED
      BY <3>3, <3>7, <3>8 DEF SoleReceipts
  <2> QED
    BY <1>1, <1>2, <1>3, <2>0, <2>1, <2>2 DEF Safe, Deleted, Visible
<1> QED
  BY <1>1, <1>4, <1>5 DEF NotLost

\* The end of an iteration: what was still pending in it is excused.
LEMMA EndKeepsOthers ==
    ASSUME BlockInv, NotLost, TypeOK', NEW w \in Workers,
           block' = [block EXCEPT ![w] = <<>>], pc' = [pc EXCEPT ![w] = "poll"],
           toEmit' = [toEmit EXCEPT ![w] = {}],
           UNCHANGED <<sent, queued, invisible, dequeueCount, expired>>,
           \A m \in sent : Owed(m)' => Owed(m) /\ ~Pending(w, m)
    PROVE  NotLost'
<1> USE DEF BlockInv
<1> SUFFICES ASSUME NEW m \in sent, Owed(m)' PROVE Safe(m)'
  BY DEF NotLost
<1>1. m \in Messages
  BY DEF TypeOK, QueueTypeOK
<1>2. Safe(m) /\ ~Pending(w, m)
  BY DEF NotLost
<1>3. \A v \in Workers \ {w} : Pending(v, m) => Pending(v, m)'
  <2>1. \A v \in Workers \ {w} : block'[v] = block[v] /\ pc'[v] = pc[v] /\ toEmit'[v] = toEmit[v]
    BY DEF TypeOK
  <2> QED
    BY <1>1, <2>1, PendingSame
<1> QED
  BY <1>1, <1>2, <1>3 DEF Safe, Deleted, Visible

LEMMA EndKeepsOpen ==
    ASSUME BlockInv, EmissionOpen, TypeOK', NEW w \in Workers,
           block' = [block EXCEPT ![w] = <<>>], pc' = [pc EXCEPT ![w] = "poll"],
           toEmit' = [toEmit EXCEPT ![w] = {}], UNCHANGED <<dequeueCount, emitted>>
    PROVE  ListsFirst' /\ EmissionOpen'
<1> USE DEF BlockInv
<1>1. ASSUME NEW v \in Workers
      PROVE  /\ block'[v] = block[v] \/ block'[v] = <<>>
             /\ pc'[v] = "start" => pc[v] = "start"
             /\ toEmit'[v] \subseteq toEmit[v]
             /\ toEmit'[v] # {} => block'[v] = block[v]
  BY DEF TypeOK
<1>2. \A v \in Workers, m \in Messages : Pending(v, m)' => Pending(v, m)
  BY <1>1, PendingFrame
<1>3. ListsFirst'
  BY <1>1 DEF ListsFirst
<1>4. EmissionOpen'
  BY <1>2 DEF EmissionOpen
<1> QED
  BY <1>3, <1>4

\* A removal that is through, refused or failed: nothing is pending in it.
LEMMA RemovalEndKeeps ==
    ASSUME BlockInv, EmissionOpen, NotLost, TypeOK', NEW w \in Workers,
           Return(w) \/ RemoveRejected(w) \/ RemoveFails(w)
    PROVE  ListsFirst' /\ EmissionOpen' /\ NotLost'
<1>0. Next
  BY DEF Next, ProcessMessagesGroup
<1> USE DEF BlockInv
<1>1. pc[w] = "remove" /\ toEmit[w] = {}
  BY DEF Return, RemoveRejected, RemoveFails, Removing, TypeOK
<1>2. /\ block' = [block EXCEPT ![w] = <<>>]
      /\ pc' = [pc EXCEPT ![w] = "poll"]
      /\ emitted' = emitted
      /\ UNCHANGED <<sent, queued, invisible, dequeueCount, expired>>
  BY DEF Return, RemoveRejected, RemoveFails, Abandon, EndIteration, queueVars
<1>3. toEmit' = [toEmit EXCEPT ![w] = {}]
  <2>1. toEmit' = toEmit \/ toEmit' = [toEmit EXCEPT ![w] = {}]
    BY DEF Return, RemoveRejected, RemoveFails, Abandon
  <2> QED
    BY <1>1, <2>1 DEF TypeOK
<1>4. \A m \in sent : Owed(m)' => Owed(m) /\ ~Pending(w, m)
  <2>1. sent \subseteq Messages
    BY DEF TypeOK, QueueTypeOK
  <2> QED
    BY <1>0, <1>1, <2>1, OwedBefore DEF Pending
<1> QED
  BY <1>2, <1>3, <1>4, EndKeepsOthers, EndKeepsOpen

\* An iteration cut short: a mishap has hit every message in its block.
LEMMA CutShortKeeps ==
    ASSUME BlockInv, EmissionOpen, NotLost, TypeOK', NEW w \in Workers,
           \/ EmitFails(w)
           \/ /\ Crash(w)
              /\ toEmit' = [toEmit EXCEPT ![w] = {}]
              /\ next' = [next EXCEPT ![w] = 1]
              /\ UNCHANGED emitted
    PROVE  ListsFirst' /\ EmissionOpen' /\ NotLost'
<1>0. Next
  BY DEF Next
<1> USE DEF BlockInv
<1>1. /\ block' = [block EXCEPT ![w] = <<>>]
      /\ pc' = [pc EXCEPT ![w] = "poll"]
      /\ toEmit' = [toEmit EXCEPT ![w] = {}]
      /\ UNCHANGED <<sent, queued, invisible, dequeueCount, expired>>
      /\ Mishap(IdsFrom(w, 1))
  BY DEF EmitFails, Abandon, EndIteration, Crash
<1>2. \A m \in sent : Owed(m)' => Owed(m) /\ ~Pending(w, m)
  <2> SUFFICES ASSUME NEW m \in sent, Owed(m)' PROVE Owed(m) /\ ~Pending(w, m)
    OBVIOUS
  <2>1. m \in Messages /\ mishaps \in [Messages -> Nat]
    BY DEF TypeOK, QueueTypeOK
  <2>2. Owed(m)
    BY <1>0, <2>1, OwedBefore
  <2>3. m \notin IdsFrom(w, 1)
    <3>1. m \in IdsFrom(w, 1) => mishaps'[m] > 0
      BY <1>1, <2>1, MishapTyped
    <3>2. mishaps'[m] = 0
      BY DEF Owed
    <3> QED
      BY <3>1, <3>2
  <2>4. \A i \in DOMAIN block[w] : block[w][i].id # m
    <3>1. \A i \in DOMAIN block[w] : i \in Nat /\ i >= 1
      BY BlockElement
    <3> QED
      BY <2>3, <3>1 DEF IdsFrom
  <2> QED
    BY <2>2, <2>4 DEF Pending
<1>3. NotLost'
  BY <1>1, <1>2, EndKeepsOthers
<1>4. ListsFirst' /\ EmissionOpen'
  <2>1. CASE EmitFails(w)
    BY <2>1, EmissionKinds, EmissionKeepsOpen
  <2>2. CASE Crash(w) /\ UNCHANGED emitted
    BY <1>1, <2>2, EndKeepsOpen
  <2> QED
    BY <2>1, <2>2
<1> QED
  BY <1>3, <1>4

-----------------------------------------------------------------------------
LEMMA InvInit == Init => IInv
<1> SUFFICES ASSUME Init PROVE IInv
  OBVIOUS
<1>1. TypeOK
  BY TypeInit
<1>2. \A w \in Workers : block[w] = <<>> /\ toEmit[w] = {} /\ DOMAIN block[w] = {}
  BY EmptySeq DEF Init, ConsumerInit
<1>3. sent = {} /\ \A m \in Messages : dequeueCount[m] = 0 /\ emitted[m] = 0
  BY DEF Init, QueueInit
<1>4. BlockInv
  BY <1>1, <1>2, <1>3 DEF BlockInv, BlocksSound, SoleReceipts, ListsFirst, NeverHandedOut
<1>5. EmissionOpen /\ NotLost /\ UnreadableWaits
  BY <1>2, <1>3 DEF EmissionOpen, Pending, NotLost, UnreadableWaits, Deleted
<1> QED
  BY <1>4, <1>5 DEF IInv

LEMMA InvPreserved == IInv /\ [Next]_vars => IInv'
<1> SUFFICES ASSUME IInv, [Next]_vars PROVE IInv'
  OBVIOUS
<1>1. BlockInv /\ EmissionOpen /\ NotLost /\ TypeOK
  BY DEF IInv, BlockInv
<1>2. TypeOK'
  BY <1>1, TypePreserved DEF BlockInv
<1>3. BlocksSound' /\ SoleReceipts' /\ NeverHandedOut' /\ UnreadableWaits'
  BY <1>1, BlocksPreserved, UnreadablePreserved DEF IInv
<1>4. ListsFirst' /\ EmissionOpen' /\ NotLost'
  <2>1. CASE UNCHANGED vars
    <3>1. UNCHANGED <<sent, queued, invisible, dequeueCount, expired, mishaps,
                      pc, block, spoiled, toEmit, emitted>>
      BY <2>1 DEF vars, queueVars, consumerVars, loopVars, progressVars
    <3>2. \A v \in Workers, m \in Messages : Pending(v, m)' <=> Pending(v, m)
      BY <3>1, PendingSame
    <3>3. ListsFirst' /\ EmissionOpen'
      BY <1>1, <3>1, <3>2 DEF BlockInv, ListsFirst, EmissionOpen
    <3>4. sent \subseteq Messages
      BY <1>1 DEF TypeOK, QueueTypeOK
    <3>5. \A m \in sent : (Owed(m)' => Owed(m)) /\ (Safe(m) => Safe(m)')
      BY <3>1, <3>2, <3>4 DEF Owed, Safe, Deleted, Visible
    <3> QED
      BY <1>1, <3>1, <3>3, <3>5 DEF NotLost
  <2>2. ASSUME NEW m \in Messages,
               \/ TimesOut(m) \/ GrowsOld(m)
               \/ /\ Enqueue(m) \/ PrematureTimeout(m)
                  /\ UNCHANGED <<consumerVars, progressVars, emitted>>
        PROVE  ListsFirst' /\ EmissionOpen' /\ NotLost'
    BY <1>1, <1>2, <2>2, QueueStepKeeps
  <2>3. ASSUME NEW w \in Workers, PollStep(w)
        PROVE  ListsFirst' /\ EmissionOpen' /\ NotLost'
    <3>1. CASE DequeueBlock(w)
      <4>1. PICK ms \in Blocks :
                /\ Funs!Range(ms) \cap Unreadable = {}
                /\ HandOut(Funs!Range(ms))
                /\ block' = [block EXCEPT ![w] = [i \in DOMAIN ms |-> Delivery(ms[i])]]
        BY <3>1 DEF DequeueBlock
      <4>2. NewBlock(w, ms)
        BY <2>3, <3>1, <4>1 DEF PollStep, DequeueBlock, NewBlock
      <4> QED
        BY <1>1, <1>2, <4>2, NewBlockKeeps
    <3>2. CASE DequeueNothing(w)
      BY <1>1, <1>2, <2>3, <3>2, FruitlessPollKeeps DEF PollStep
    <3> QED
      BY <2>3, <3>1, <3>2 DEF PollStep, Poll
  <2>4. ASSUME NEW w \in Workers, DequeueAnswerLost(w) \/ DequeueUnreadable(w),
               UNCHANGED <<progressVars, emitted>>
        PROVE  ListsFirst' /\ EmissionOpen' /\ NotLost'
    BY <1>1, <1>2, <2>4, FruitlessPollKeeps
  <2>5. ASSUME NEW w \in Workers, ProcessMessagesGroup(w) \/ RemoveFails(w)
        PROVE  ListsFirst' /\ EmissionOpen' /\ NotLost'
    BY <1>1, <1>2, <2>5, StartKeeps, EmitKeeps, StartRemovingKeeps, RemoveNextKeeps,
       RemovalEndKeeps DEF ProcessMessagesGroup
  <2>6. ASSUME NEW w \in Workers,
               \/ EmitFails(w)
               \/ /\ Crash(w)
                  /\ toEmit' = [toEmit EXCEPT ![w] = {}]
                  /\ next' = [next EXCEPT ![w] = 1]
                  /\ UNCHANGED emitted
        PROVE  ListsFirst' /\ EmissionOpen' /\ NotLost'
    BY <1>1, <1>2, <2>6, CutShortKeeps
  <2> QED
    BY <2>1, <2>2, <2>3, <2>4, <2>5, <2>6 DEF Next
<1> QED
  BY <1>2, <1>3, <1>4 DEF IInv, BlockInv

LEMMA InvAlways == Spec => []IInv
BY InvInit, InvPreserved, PTL DEF Spec

\* The variables stay in their types, and a worker's progress in its block.
THEOREM TypeCorrect == Spec => []TypeOK
<1>1. IInv => TypeOK
  BY DEF IInv, BlockInv
<1> QED
  BY <1>1, InvAlways, PTL

\* No arrival becomes two clean messages, however many workers take blocks, however
\* often a block is handed out again and wherever an iteration is cut short.
THEOREM EmittedOnce == Spec => []EmittedAtMostOnce
<1>1. IInv => EmittedAtMostOnce
  BY DEF IInv, EmissionOpen, EmittedAtMostOnce
<1> QED
  BY <1>1, InvAlways, PTL

\* An arrival that is deleted without a clean message was hit by a mishap, or
\* handed out in a block with an unreadable message.
THEOREM NoArrivalLost == Spec => []LossNeedsMishap
<1>1. IInv => LossNeedsMishap
  <2> SUFFICES ASSUME IInv, NEW m \in Deleted
               PROVE  emitted[m] > 0 \/ mishaps[m] > 0 \/ m \in spoiled
    BY DEF LossNeedsMishap
  <2>1. m \in sent /\ m \in Messages
    BY DEF Deleted, IInv, BlockInv, TypeOK, QueueTypeOK
  <2>2. ~Owed(m) /\ m \notin Unreadable
    BY <2>1 DEF IInv, NotLost, Safe, UnreadableWaits
  <2>3. emitted[m] \in Nat /\ mishaps[m] \in Nat
    BY <2>1 DEF IInv, BlockInv, TypeOK, QueueTypeOK
  <2> QED
    BY <2>2, <2>3 DEF Owed
<1> QED
  BY <1>1, InvAlways, PTL

-----------------------------------------------------------------------------
(* The promise of AtMostOnce. *)

LEMMA BlocksOfSent ==
    ASSUME BlockInv, NEW w \in Workers, NEW i \in DOMAIN block[w]
    PROVE  block[w][i].id \in sent
<1>1. block[w][i] \in QueueMessage
  BY BlockElement DEF BlockInv
<1>2. /\ block[w][i].id \in Messages
      /\ block[w][i].dequeueCount \in Nat \ {0}
      /\ block[w][i].dequeueCount <= dequeueCount[block[w][i].id]
  BY <1>1 DEF QueueMessage, BlockInv, BlocksSound
<1> QED
  BY <1>2 DEF BlockInv, NeverHandedOut

\* Mishaps befall messages that were sent.
LEMMA MishapsOfSent ==
    ASSUME BlockInv, Next
    PROVE  mishaps' = mishaps \/ \E ms \in SUBSET sent : Mishap(ms)
<1>0. Visible \subseteq sent /\ invisible \subseteq sent
  BY DEF BlockInv, TypeOK, QueueTypeOK, Visible
<1>1. ASSUME NEW m \in Messages,
             \/ TimesOut(m) \/ GrowsOld(m)
             \/ /\ Enqueue(m) \/ PrematureTimeout(m)
                /\ UNCHANGED <<consumerVars, progressVars, emitted>>
      PROVE  mishaps' = mishaps \/ \E ms \in SUBSET sent : Mishap(ms)
  <2>1. CASE PrematureTimeout(m)
    <3>1. m \in sent /\ Mishap({m})
      BY <1>0, <2>1 DEF PrematureTimeout, BecomeVisible
    <3> QED
      BY <3>1
  <2>2. CASE TimesOut(m) \/ GrowsOld(m) \/ Enqueue(m)
    BY <2>2 DEF TimesOut, GrowsOld, VisibilityTimeout, Expire, Enqueue
  <2> QED
    BY <1>1, <2>1, <2>2
<1>2. ASSUME NEW w \in Workers, DequeueAnswerLost(w) \/ DequeueUnreadable(w)
      PROVE  mishaps' = mishaps \/ \E ms \in SUBSET sent : Mishap(ms)
  <2>1. PICK ms : /\ HandOutUnseen(ms)
                  /\ Mishap(ms \ Unreadable) \/ mishaps' = mishaps
    BY <1>2, UnseenPoll DEF BlockInv, TypeOK
  <2>2. ms \ Unreadable \subseteq sent
    BY <1>0, <2>1 DEF HandOutUnseen
  <2> QED
    BY <2>1, <2>2
<1>3. ASSUME NEW w \in Workers, EmitFails(w) \/ RemoveFails(w) \/ Crash(w)
      PROVE  \E ms \in SUBSET sent : Mishap(ms)
  <2>1. PICK i : Mishap(IdsFrom(w, i))
    BY <1>3 DEF EmitFails, RemoveFails, Crash
  <2>2. IdsFrom(w, i) \subseteq sent
    BY BlocksOfSent DEF IdsFrom
  <2> QED
    BY <2>1, <2>2
<1>4. ASSUME NEW w \in Workers, PollStep(w) \/ ProcessMessagesGroup(w)
      PROVE  mishaps' = mishaps
  BY <1>4 DEF PollStep, Poll, DequeueBlock, DequeueNothing, ProcessMessagesGroup, Start, Emit,
              StartRemoving, RemoveNext, RemoveRejected, Return, queueVars
<1> QED
  BY <1>1, <1>2, <1>3, <1>4 DEF Next

LEMMA HinderedGrows ==
    ASSUME BlockInv, TypeOK', Next, sent' = sent
    PROVE  \E ms \in SUBSET sent : Hindered' = Hindered \cup ms
<1>1. spoiled \subseteq spoiled' /\ spoiled' \subseteq sent /\ spoiled' \subseteq Messages
  BY SpoiledGrows DEF TypeOK, QueueTypeOK
<1>2. ASSUME NEW m \in Messages
      PROVE  /\ mishaps[m] > 0 => mishaps'[m] > 0
             /\ mishaps'[m] > 0 => mishaps[m] > 0 \/ m \in sent
  <2>1. mishaps \in [Messages -> Nat]
    BY DEF BlockInv, TypeOK, QueueTypeOK
  <2>2. CASE mishaps' = mishaps
    BY <2>2
  <2>3. CASE \E ms \in SUBSET sent : Mishap(ms)
    <3>1. PICK ms \in SUBSET sent : Mishap(ms)
      BY <2>3
    <3>2. \/ m \in ms
          \/ mishaps'[m] = mishaps[m]
      BY <2>1, <3>1, MishapTyped
    <3>3. mishaps[m] <= mishaps'[m] /\ mishaps[m] \in Nat /\ mishaps'[m] \in Nat
      BY <2>1, <3>1, MishapTyped
    <3> QED
      BY <3>1, <3>2, <3>3
  <2> QED
    BY <2>2, <2>3, MishapsOfSent
<1> DEFINE ms == Hindered' \ Hindered
<1>3. Hindered \subseteq Hindered'
  BY <1>1, <1>2 DEF Hindered
<1>4. ms \subseteq sent
  BY <1>1, <1>2 DEF Hindered
<1> QED
  BY <1>3, <1>4

\* A step that neither accepts, emits, finishes nor forgets can only hinder.
LEMMA QuietRefines ==
    ASSUME BlockInv, TypeOK', Next, UNCHANGED <<sent, queued, expired, emitted>>
    PROVE  Promise!Next
<1>1. PICK ms \in SUBSET sent : Hindered' = Hindered \cup ms
  BY HinderedGrows
<1>2. Promise!Hinder(ms)
  BY <1>1 DEF Promise!Hinder, Deleted
<1> QED
  BY <1>2 DEF Promise!Next

LEMMA EmissionRefines ==
    ASSUME BlockInv, EmissionOpen, TypeOK', Next, NEW w \in Workers, Emit(w) \/ EmitFails(w)
    PROVE  Promise!Next
<1>1. PICK i \in DOMAIN block[w] : Emission(w, i)
  BY EmissionKinds
<1> DEFINE m == block[w][i].id
<1>2. UNCHANGED <<sent, queued, expired>>
  BY <1>1 DEF Emission
<1>3. CASE emitted' = emitted
  BY <1>2, <1>3, QuietRefines
<1>4. CASE emitted' # emitted
  <2>1. m \in sent /\ emitted[m] = 0
    BY <1>1, EmissionIsFirst, BlocksOfSent
  <2>2. emitted' = [emitted EXCEPT ![m] = 1]
    BY <1>1, <1>4, <2>1 DEF Emission
  <2>3. PICK ms \in SUBSET sent : Hindered' = Hindered \cup ms
    BY <1>2, HinderedGrows
  <2>4. Promise!Emit(m, ms)
    BY <1>2, <2>1, <2>2, <2>3 DEF Promise!Emit, Deleted
  <2> QED
    BY <2>1, <2>4 DEF Promise!Next
<1> QED
  BY <1>3, <1>4

\* A removal finishes with an arrival that was emitted or hindered.
LEMMA RemovalRefines ==
    ASSUME BlockInv, IInv', NEW w \in Workers, RemoveNext(w)
    PROVE  Promise!Next
<1>1. PICK m \in queued : /\ queued' = queued \ {m}
                          /\ UNCHANGED <<sent, expired, mishaps, spoiled, emitted>>
  BY DEF RemoveNext, Remove, Accepts, consumerVars
<1>2. m \in sent /\ m \in Messages /\ m \notin expired
  BY DEF BlockInv, TypeOK, QueueTypeOK
<1>3. Deleted' = Deleted \cup {m} /\ m \in Promise!Open
  BY <1>1, <1>2 DEF Deleted, Promise!Open
<1>4. Hindered' = Hindered
  BY <1>1 DEF Hindered
<1>5. emitted[m] = 1 \/ m \in Hindered
  <2>1. ~Owed(m)' /\ m \notin Unreadable
    BY <1>1, <1>2, <1>3 DEF IInv, NotLost, Safe, UnreadableWaits
  <2>2. emitted[m] # 0 \/ mishaps[m] # 0 \/ m \in spoiled
    BY <1>1, <2>1 DEF Owed
  <2>3. emitted[m] \in Nat /\ mishaps[m] \in Nat
    BY <1>2 DEF BlockInv, TypeOK, QueueTypeOK
  <2>4. emitted[m] <= 1
    BY <1>1, <1>2 DEF IInv, EmissionOpen
  <2> QED
    BY <1>2, <2>2, <2>3, <2>4 DEF Hindered
<1>6. Promise!Finish(m)
  BY <1>1, <1>3, <1>4, <1>5 DEF Promise!Finish
<1> QED
  BY <1>2, <1>6 DEF Promise!Next

LEMMA QueueStepRefines ==
    ASSUME BlockInv, TypeOK', Next, NEW m \in Messages,
           \/ TimesOut(m) \/ GrowsOld(m)
           \/ /\ Enqueue(m) \/ PrematureTimeout(m)
              /\ UNCHANGED <<consumerVars, progressVars, emitted>>
    PROVE  Promise!Next
<1>0. queued \subseteq sent /\ expired \subseteq sent \ queued
  BY DEF BlockInv, TypeOK, QueueTypeOK
<1>1. CASE Enqueue(m) /\ UNCHANGED <<consumerVars, progressVars, emitted>>
  <2>1. Deleted' = Deleted /\ Hindered' = Hindered
    BY <1>0, <1>1 DEF Enqueue, Deleted, Hindered, consumerVars
  <2>2. Promise!Accept(m)
    BY <1>1, <2>1 DEF Enqueue, Promise!Accept
  <2> QED
    BY <2>2 DEF Promise!Next
<1>2. CASE GrowsOld(m)
  <2>1. Deleted' = Deleted /\ Hindered' = Hindered /\ m \in Promise!Open
    BY <1>0, <1>2 DEF GrowsOld, Expire, Deleted, Hindered, consumerVars, Promise!Open
  <2>2. Promise!Forget(m)
    BY <1>2, <2>1 DEF GrowsOld, Expire, Promise!Forget
  <2> QED
    BY <2>2 DEF Promise!Next
<1>3. CASE TimesOut(m) \/ (PrematureTimeout(m) /\ UNCHANGED emitted)
  BY <1>3, QuietRefines DEF TimesOut, VisibilityTimeout, PrematureTimeout, BecomeVisible
<1> QED
  BY <1>1, <1>2, <1>3

LEMMA StepRefines ==
    ASSUME IInv, IInv', Next
    PROVE  Promise!Next
<1>0. BlockInv /\ EmissionOpen /\ TypeOK'
  BY DEF IInv, BlockInv
<1>1. ASSUME NEW m \in Messages,
             \/ TimesOut(m) \/ GrowsOld(m)
             \/ /\ Enqueue(m) \/ PrematureTimeout(m)
                /\ UNCHANGED <<consumerVars, progressVars, emitted>>
      PROVE  Promise!Next
  BY <1>0, <1>1, QueueStepRefines
<1>2. ASSUME NEW w \in Workers, Emit(w) \/ EmitFails(w)
      PROVE  Promise!Next
  BY <1>0, <1>2, EmissionRefines
<1>3. ASSUME NEW w \in Workers, RemoveNext(w)
      PROVE  Promise!Next
  BY <1>0, <1>3, RemovalRefines
<1>4. ASSUME NEW w \in Workers,
             PollStep(w) \/ Start(w) \/ StartRemoving(w) \/ RemoveRejected(w) \/ Return(w)
             \/ RemoveFails(w)
      PROVE  Promise!Next
  <2>1. UNCHANGED <<sent, queued, expired, emitted>>
    BY <1>4 DEF PollStep, Poll, DequeueBlock, DequeueNothing, HandOut, Start, StartRemoving,
                RemoveRejected, Return, RemoveFails, Abandon, queueVars
  <2> QED
    BY <1>0, <2>1, QuietRefines
<1>5. ASSUME NEW w \in Workers, UNCHANGED emitted,
             DequeueAnswerLost(w) \/ DequeueUnreadable(w) \/ Crash(w)
      PROVE  Promise!Next
  <2>1. UNCHANGED <<sent, queued, expired, emitted>>
    BY <1>5 DEF DequeueAnswerLost, DequeueUnreadable, HandOutUnseen, Crash
  <2> QED
    BY <1>0, <2>1, QuietRefines
<1> QED
  BY <1>1, <1>2, <1>3, <1>4, <1>5 DEF Next, ProcessMessagesGroup

\* Every behaviour of the consumer is one AtMostOnce allows: whatever happens to the
\* blocks, no arrival is emitted twice, and none is finished with unemitted that
\* nothing had hindered by then.
THEOREM Refinement == Spec => KeepsPromise
<1>1. Init => Promise!Init
  BY DEF Init, QueueInit, ConsumerInit, Promise!Init, Deleted, Hindered
<1>2. IInv /\ IInv' /\ [Next]_vars => [Promise!Next]_(Promise!vars)
  <2>1. UNCHANGED vars => UNCHANGED Promise!vars
    BY DEF vars, queueVars, consumerVars, Promise!vars, Deleted, Hindered
  <2> QED
    BY <2>1, StepRefines
<1> QED
  BY <1>1, <1>2, InvAlways, PTL DEF Spec, KeepsPromise, Promise!Spec
=============================================================================
