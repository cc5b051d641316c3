------------------- MODULE MessagePollQueueConsumerProofs -------------------
(***************************************************************************)
(* What every step of the polling loop, of the queue and of the            *)
(* environment preserves, whatever the consumer does with a message.  The  *)
(* consumers' proofs rest on these lemmas.                                 *)
(***************************************************************************)
EXTENDS MessagePollQueueConsumer, TLAPS

\* A delivery in hand is of a message that was sent, and its receipt is not newer
\* than the last one issued.
ReceiptsIssued ==
    \A w \in Workers : held[w] # NoMessage =>
        held[w].dequeueCount <= dequeueCount[held[w].id]

LoopInv == QueueTypeOK /\ ConsumerTypeOK /\ ReceiptsIssued

LEMMA LoopInit == QueueInit /\ ConsumerInit => LoopInv
  BY IntervalAssumption
     DEF QueueInit, ConsumerInit, LoopInv, QueueTypeOK, ConsumerTypeOK, ReceiptsIssued

LEMMA LoopStutters == LoopInv /\ UNCHANGED <<queueVars, consumerVars>> => LoopInv'
  BY DEF LoopInv, QueueTypeOK, ConsumerTypeOK, ReceiptsIssued, queueVars, consumerVars

\* Reading and decreasing a frequencer keep its interval a natural number: under
\* a ceiling of at most half of MaxInt the doubling does not wrap.
LEMMA IntervalStaysNat ==
    ASSUME NEW c \in Nat
    PROVE  AfterRead(c, Ceiling) \in Nat /\ AfterDecrease(c, Floor, TRUE) \in Nat
  <1>1. c < Ceiling => Twice(c) = 2 * c
    BY IntervalAssumption DEF Twice, MaxInt
  <1>2. QED
    BY <1>1, IntervalAssumption DEF AfterRead, AfterDecrease

\* Counting one more mishap keeps the counters natural numbers.
LEMMA MishapTyped ==
    ASSUME NEW ms, mishaps \in [Messages -> Nat], Mishap(ms)
    PROVE  mishaps' \in [Messages -> Nat]
  BY DEF Mishap

\* The end of an iteration leaves the worker polling with nothing in hand.
LEMMA EndIterationTyped ==
    ASSUME NEW w \in Workers, ConsumerTypeOK, EndIteration(w)
    PROVE  ConsumerTypeOK'
  <1>1. AfterDecrease(interval[w], Floor, TRUE) \in Nat
    BY IntervalStaysNat DEF ConsumerTypeOK
  <1>2. QED
    BY <1>1 DEF ConsumerTypeOK, EndIteration

\* Of a delivery nothing was issued before.
LEMMA HandOutTyped ==
    ASSUME NEW m \in Messages, QueueTypeOK, HandOut({m})
    PROVE  /\ sent' \subseteq Messages /\ queued' \subseteq sent'
           /\ expired' \subseteq sent' \ queued'
           /\ invisible' \subseteq queued'
           /\ dequeueCount' \in [Messages -> Nat]
           /\ \A n \in Messages : dequeueCount[n] <= dequeueCount'[n]
           /\ dequeueCount'[m] = dequeueCount[m] + 1
           /\ Delivery(m) \in QueueMessage
  BY DEF QueueTypeOK, HandOut, Visible, Delivery, QueueMessage

\* Enqueue and the environment's steps on one message.
LEMMA EnqueuePreserves ==
    ASSUME LoopInv, NEW m \in Messages, Enqueue(m), UNCHANGED consumerVars
    PROVE  LoopInv'
  BY DEF LoopInv, QueueTypeOK, ConsumerTypeOK, ReceiptsIssued, Enqueue, consumerVars

LEMMA ExpiryPreserves ==
    ASSUME LoopInv, NEW m \in Messages, Expire(m), UNCHANGED consumerVars
    PROVE  LoopInv'
  BY DEF LoopInv, QueueTypeOK, ConsumerTypeOK, ReceiptsIssued, Expire, consumerVars

LEMMA TimeoutPreserves ==
    ASSUME LoopInv, NEW m \in Messages, VisibilityTimeout(m) \/ PrematureTimeout(m)
    PROVE  LoopInv'
  <1>1. mishaps' \in [Messages -> Nat]
    BY MishapTyped
       DEF LoopInv, QueueTypeOK, VisibilityTimeout, PrematureTimeout
  <1>2. BecomeVisible(m) /\ UNCHANGED consumerVars
    BY DEF VisibilityTimeout, PrematureTimeout
  <1>3. QED
    BY <1>1, <1>2
       DEF LoopInv, QueueTypeOK, ConsumerTypeOK, ReceiptsIssued, BecomeVisible, consumerVars

LEMMA DequeuePreserves ==
    ASSUME LoopInv, NEW w \in Workers, NEW m \in Messages,
           Dequeue(w, m) \/ DequeueFails(w, m)
    PROVE  LoopInv'
  <1>1. HandOut({m})
    BY DEF Dequeue, DequeueFails
  <1>2. QueueTypeOK'
    <2>1. mishaps' \in [Messages -> Nat]
      BY MishapTyped DEF LoopInv, QueueTypeOK, Dequeue, DequeueFails
    <2>2. QED
      BY <1>1, <2>1, HandOutTyped DEF LoopInv, QueueTypeOK
  <1>3. CASE Dequeue(w, m)
    <2>1. ConsumerTypeOK'
      BY <1>1, <1>3, HandOutTyped, NoMessageAssumption DEF LoopInv, ConsumerTypeOK, Dequeue
    <2>2. ReceiptsIssued'
      <3>1. ASSUME NEW v \in Workers, held'[v] # NoMessage
            PROVE  held'[v].dequeueCount <= dequeueCount'[held'[v].id]
        <4>1. CASE v = w
          BY <1>1, <1>3, <4>1, HandOutTyped
             DEF LoopInv, ConsumerTypeOK, QueueTypeOK, Dequeue, Delivery
        <4>2. CASE v # w
          <5>1. held'[v] = held[v] /\ held[v] \in QueueMessage
            BY <1>3, <3>1, <4>2 DEF LoopInv, ConsumerTypeOK, Dequeue
          <5>2. /\ held[v].dequeueCount <= dequeueCount[held[v].id]
                /\ dequeueCount[held[v].id] <= dequeueCount'[held[v].id]
            BY <1>1, <3>1, <5>1, HandOutTyped DEF LoopInv, ReceiptsIssued, QueueMessage
          <5>3. QED
            BY <1>2, <5>1, <5>2 DEF LoopInv, QueueTypeOK, QueueMessage
        <4>3. QED
          BY <4>1, <4>2
      <3>2. QED
        BY <3>1 DEF ReceiptsIssued
    <2>3. QED
      BY <1>2, <2>1, <2>2 DEF LoopInv
  <1>4. CASE DequeueFails(w, m)
    <2>1. ConsumerTypeOK' /\ held' = held
      BY <1>4 DEF LoopInv, ConsumerTypeOK, DequeueFails, consumerVars
    <2>2. ASSUME NEW v \in Workers, held[v] # NoMessage
          PROVE  held[v].dequeueCount <= dequeueCount'[held[v].id]
      <3>1. held[v] \in QueueMessage
        BY <2>2 DEF LoopInv, ConsumerTypeOK
      <3>2. /\ held[v].dequeueCount <= dequeueCount[held[v].id]
            /\ dequeueCount[held[v].id] <= dequeueCount'[held[v].id]
        BY <1>1, <2>2, <3>1, HandOutTyped DEF LoopInv, ReceiptsIssued, QueueMessage
      <3>3. QED
        BY <1>2, <3>1, <3>2 DEF LoopInv, QueueTypeOK, QueueMessage
    <2>3. QED
      BY <1>2, <2>1, <2>2 DEF LoopInv, ReceiptsIssued
  <1>5. QED
    BY <1>3, <1>4
\* An empty poll only lengthens the interval.
LEMMA EmptyPollPreserves ==
    ASSUME LoopInv, NEW w \in Workers, DequeueNothing(w)
    PROVE  LoopInv'
  <1>1. AfterRead(interval[w], Ceiling) \in Nat
    BY IntervalStaysNat DEF LoopInv, ConsumerTypeOK
  <1>2. QED
    BY <1>1 DEF LoopInv, QueueTypeOK, ConsumerTypeOK, ReceiptsIssued, DequeueNothing, queueVars

\* Whatever ends an iteration without handing a message out keeps the receipts.
LEMMA EndIterationPreserves ==
    ASSUME LoopInv, NEW w \in Workers, EndIteration(w),
           QueueTypeOK', dequeueCount' = dequeueCount
    PROVE  LoopInv'
  <1>1. ConsumerTypeOK'
    BY EndIterationTyped DEF LoopInv
  <1>2. ReceiptsIssued'
    BY DEF LoopInv, ConsumerTypeOK, ReceiptsIssued, EndIteration
  <1>3. QED
    BY <1>1, <1>2 DEF LoopInv

LEMMA FinishPreserves ==
    ASSUME LoopInv, NEW w \in Workers, Finish(w) \/ RemoveFails(w)
    PROVE  LoopInv'
  <1>1. EndIteration(w) /\ dequeueCount' = dequeueCount
    BY DEF Finish, RemoveMessage, RemoveRejected, RemoveFails, Remove, queueVars
  <1>2. QueueTypeOK'
    BY MishapTyped
       DEF LoopInv, QueueTypeOK, Finish, RemoveMessage, RemoveRejected, RemoveFails,
           Remove, queueVars
  <1>3. QED
    BY <1>1, <1>2, EndIterationPreserves

LEMMA CrashPreserves ==
    ASSUME LoopInv, NEW w \in Workers, Crash(w)
    PROVE  LoopInv'
  <1>1. mishaps' \in [Messages -> Nat]
    BY MishapTyped DEF LoopInv, QueueTypeOK, Crash
  <1>2. QED
    BY <1>1, IntervalAssumption
       DEF LoopInv, QueueTypeOK, ConsumerTypeOK, ReceiptsIssued, Crash

\* The two ways out of ProcessMessages.
LEMMA ReturnsPreserves ==
    ASSUME LoopInv, NEW w \in Workers, Returns(w)
    PROVE  LoopInv'
  BY DEF LoopInv, QueueTypeOK, ConsumerTypeOK, ReceiptsIssued, Returns, Processing, queueVars

LEMMA ThrowsPreserves ==
    ASSUME LoopInv, NEW w \in Workers, Throws(w)
    PROVE  LoopInv'
  <1>1. EndIteration(w) /\ dequeueCount' = dequeueCount /\ QueueTypeOK'
    BY DEF LoopInv, QueueTypeOK, Throws, queueVars
  <1>2. QED
    BY <1>1, EndIterationPreserves

\* No step around ProcessMessages breaks the loop's invariant.
LEMMA LoopPreserves == LoopInv /\ LoopStep => LoopInv'
  BY EnqueuePreserves, ExpiryPreserves, TimeoutPreserves, DequeuePreserves, EmptyPollPreserves,
     FinishPreserves, CrashPreserves
     DEF LoopStep, Poll

-----------------------------------------------------------------------------
(* What the consumers' own invariants need to know of a step of the loop. *)

\* Receipts are only ever issued.
LEMMA LoopCounts ==
    ASSUME LoopInv, LoopStep, NEW m \in Messages
    PROVE  dequeueCount[m] <= dequeueCount'[m]
  <1>1. CASE \E w \in Workers, n \in Messages : Dequeue(w, n) \/ DequeueFails(w, n)
    <2>1. PICK n \in Messages : HandOut({n})
      BY <1>1 DEF Dequeue, DequeueFails
    <2>2. QED
      BY <2>1, HandOutTyped DEF LoopInv
  <1>2. CASE ~\E w \in Workers, n \in Messages : Dequeue(w, n) \/ DequeueFails(w, n)
    <2>1. dequeueCount' = dequeueCount
      BY <1>2
         DEF LoopStep, Poll, Finish, Enqueue, Expire, DequeueNothing, RemoveMessage, RemoveRejected,
             RemoveFails, Crash, VisibilityTimeout, PrematureTimeout, BecomeVisible, Remove,
             queueVars
    <2>2. QED
      BY <2>1 DEF LoopInv, QueueTypeOK
  <1>3. QED
    BY <1>1, <1>2

\* A worker about to remove a message was already about to remove it.
LEMMA LoopHolds ==
    ASSUME LoopInv, LoopStep, NEW w \in Workers, pc'[w] = "remove"
    PROVE  pc[w] = "remove" /\ held'[w] = held[w]
  BY DEF LoopInv, ConsumerTypeOK, LoopStep, Poll, Finish, Enqueue, Expire, Dequeue, DequeueNothing,
         DequeueFails, RemoveMessage, RemoveRejected, RemoveFails, Crash, EndIteration,
         VisibilityTimeout, PrematureTimeout, consumerVars

\* A message is deleted only by a worker that holds its last receipt and whose
\* ProcessMessages returned.
LEMMA LoopRemoves ==
    ASSUME LoopInv, LoopStep, NEW m \in Deleted', m \notin Deleted
    PROVE  \E w \in Workers : /\ RemoveMessage(w)
                             /\ held[w].id = m
                             /\ held[w].dequeueCount = dequeueCount[m]
  <1>1. PICK w \in Workers : RemoveMessage(w)
    BY DEF LoopStep, Poll, Finish, Enqueue, Expire, Dequeue, DequeueNothing, DequeueFails,
           RemoveRejected, RemoveFails, Crash, VisibilityTimeout, PrematureTimeout,
           BecomeVisible, HandOut, Deleted, queueVars
  <1>2. QED
    BY <1>1 DEF RemoveMessage, Remove, Accepts, Deleted
=============================================================================
