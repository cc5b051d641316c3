----------------------- MODULE ApiAccessLogSaverProofs -----------------------
(***************************************************************************)
(* Proofs about ApiAccessLogSaver, for any number of messages, workers and *)
(* mishaps and any poison limit.                                           *)
(***************************************************************************)
EXTENDS ApiAccessLogSaver, MessagePollQueueConsumerProofs

\* A worker that is about to remove a message has seen its row saved, or has let
\* it go.  This is what makes NothingDroppedUnsaved inductive.
RemovableIsSaved ==
    \A w \in Workers : pc[w] = "remove" =>
        RowSaved(held[w].id) \/ held[w].dequeueCount > PoisonLimit

Inv == LoopInv /\ RowsTypeOK /\ RemovableIsSaved /\ NothingDroppedUnsaved

LEMMA InvInit == Init => Inv
  <1> SUFFICES ASSUME Init PROVE Inv
    OBVIOUS
  <1>1. LoopInv
    BY LoopInit DEF Init
  <1>2. RowsTypeOK /\ RemovableIsSaved /\ NothingDroppedUnsaved
    BY DEF Init, QueueInit, ConsumerInit, RowsTypeOK, RemovableIsSaved, NothingDroppedUnsaved,
           Deleted
  <1>3. QED
    BY <1>1, <1>2 DEF Inv

\* A step of the loop leaves the rows alone; what it removes was removable.
LEMMA LoopKeepsInv ==
    ASSUME Inv, LoopStep, UNCHANGED rows
    PROVE  Inv'
  <1>1. LoopInv'
    BY LoopPreserves DEF Inv
  <1>2. RowsTypeOK' /\ \A m \in Messages : RowSaved(m)' <=> RowSaved(m)
    BY DEF Inv, RowsTypeOK, RowSaved
  <1>3. RemovableIsSaved'
    <2>1. ASSUME NEW w \in Workers, pc'[w] = "remove"
          PROVE  RowSaved(held[w].id)' \/ held'[w].dequeueCount > PoisonLimit
      BY <2>1, LoopHolds DEF Inv, RemovableIsSaved, RowSaved
    <2>2. ASSUME NEW w \in Workers, pc'[w] = "remove"
          PROVE  held'[w].id = held[w].id
      BY <2>2, LoopHolds DEF Inv
    <2>3. QED
      BY <2>1, <2>2 DEF RemovableIsSaved, RowSaved
  <1>4. NothingDroppedUnsaved'
    <2>1. ASSUME NEW m \in Deleted'
          PROVE  RowSaved(m) \/ dequeueCount'[m] > PoisonLimit
      <3>1. m \in Messages
        BY <1>1 DEF LoopInv, QueueTypeOK, Deleted
      <3>2. dequeueCount[m] <= dequeueCount'[m] /\ dequeueCount[m] \in Nat
            /\ dequeueCount'[m] \in Nat
        BY <1>1, <3>1, LoopCounts DEF Inv, LoopInv, QueueTypeOK
      <3>3. CASE m \in Deleted
        BY <3>2, <3>3, PoisonLimitAssumption DEF Inv, NothingDroppedUnsaved
      <3>4. CASE m \notin Deleted
        <4>1. PICK w \in Workers : /\ RemoveMessage(w)
                                   /\ held[w].id = m
                                   /\ held[w].dequeueCount = dequeueCount[m]
          BY <3>4, LoopRemoves DEF Inv
        <4>2. RowSaved(m) \/ dequeueCount[m] > PoisonLimit
          BY <4>1 DEF Inv, RemovableIsSaved, RemoveMessage
        <4>3. QED
          BY <3>2, <4>2, PoisonLimitAssumption
      <3>5. QED
        BY <3>3, <3>4
    <2>2. QED
      BY <2>1 DEF NothingDroppedUnsaved, RowSaved
  <1>5. QED
    BY <1>1, <1>2, <1>3, <1>4 DEF Inv

\* What ProcessMessages may do to the rows: nothing, or add the message's own.
LEMMA ProcessingAddsOwnRow ==
    ASSUME Inv, NEW w \in Workers, ProcessMessages(w)
    PROVE  /\ held[w].id \in Messages /\ held[w] \in QueueMessage
           /\ \/ rows' = rows
              \/ /\ held[w].dequeueCount <= PoisonLimit
                 /\ rows' = rows \cup {RowKey(held[w])}
  BY DEF Inv, LoopInv, ConsumerTypeOK, ProcessMessages, LetGo, AddRow, AddConflicts, AddFails,
         Returns, Throws, Processing, QueueMessage

\* ProcessMessages returns with the row saved or the message poisoned.
LEMMA ProcessingKeepsInv ==
    ASSUME Inv, NEW w \in Workers, ProcessMessages(w)
    PROVE  Inv'
  <1>1. Returns(w) \/ Throws(w)
    BY DEF ProcessMessages, LetGo, AddRow, AddConflicts, AddFails
  <1>2. LoopInv'
    BY <1>1, ReturnsPreserves, ThrowsPreserves DEF Inv
  <1>3. RowsTypeOK' /\ \A m \in Messages : RowSaved(m) => RowSaved(m)'
    <2>1. held[w].dequeueCount <= PoisonLimit =>
              held[w] \in [id : Messages, dequeueCount : 1 .. PoisonLimit]
      BY ProcessingAddsOwnRow, PoisonLimitAssumption DEF QueueMessage
    <2>2. QED
      BY <2>1, ProcessingAddsOwnRow DEF Inv, RowsTypeOK, RowSaved
  <1>4. NothingDroppedUnsaved'
    <2>1. UNCHANGED queueVars /\ sent \subseteq Messages
      BY <1>1 DEF Returns, Throws, Inv, LoopInv, QueueTypeOK
    <2>2. QED
      BY <1>3, <2>1 DEF Inv, NothingDroppedUnsaved, Deleted, queueVars, RowSaved
  <1>5. RemovableIsSaved'
    <2> SUFFICES ASSUME NEW v \in Workers, pc'[v] = "remove"
                 PROVE  RowSaved(held[v].id)' \/ held'[v].dequeueCount > PoisonLimit
      BY DEF RemovableIsSaved, RowSaved
    <2>1. CASE v # w
      <3>1. pc[v] = "remove" /\ held'[v] = held[v]
        BY <1>1, <2>1 DEF Inv, LoopInv, ConsumerTypeOK, Returns, Throws, EndIteration
      <3>2. held[v].id \in Messages
        BY <3>1 DEF Inv, LoopInv, ConsumerTypeOK, QueueMessage
      <3>3. QED
        BY <1>3, <3>1, <3>2 DEF Inv, RemovableIsSaved, RowSaved
    <2>2. CASE v = w
      <3>1. LetGo(w) \/ AddRow(w)
        BY <2>2 DEF Inv, LoopInv, ConsumerTypeOK, ProcessMessages, AddConflicts, AddFails,
                    Throws, EndIteration
      <3>2. held'[w] = held[w]
        BY <3>1 DEF LetGo, AddRow, Returns
      <3>3. AddRow(w) => <<held[w].id>> \in rows'
        BY DEF AddRow, RowKey
      <3>4. QED
        BY <2>2, <3>1, <3>2, <3>3 DEF LetGo, RowSaved
    <2>3. QED
      BY <2>1, <2>2
  <1>6. QED
    BY <1>2, <1>3, <1>4, <1>5 DEF Inv

\* The inductive invariant of the access log.
THEOREM Invariant == Spec => []Inv
  <1>1. Inv /\ [Next]_vars => Inv'
    <2>1. Inv /\ UNCHANGED vars => Inv'
      BY LoopStutters
         DEF Inv, RowsTypeOK, RemovableIsSaved, NothingDroppedUnsaved, Deleted, RowSaved,
             vars, queueVars, consumerVars
    <2>2. QED
      BY <2>1, LoopKeepsInv, ProcessingKeepsInv DEF Next
  <1>2. QED
    BY <1>1, InvInit, PTL DEF Spec

\* No access-log message is dropped before its row is saved, or the poison limit
\* is exceeded, for any number of workers.
THEOREM NoLogEntryLost == Spec => []NothingDroppedUnsaved
  <1>1. Inv => NothingDroppedUnsaved
    BY DEF Inv
  <1>2. QED
    BY <1>1, Invariant, PTL

\* The table never holds two rows of one message.
THEOREM RowUniqueness == Spec => []OneRowPerMessage
  <1>1. Inv => OneRowPerMessage
    BY DEF Inv, RowsTypeOK, RowKey, OneRowPerMessage
  <1>2. QED
    BY <1>1, Invariant, PTL

\* Every variable keeps its type.
THEOREM TypeCorrect == Spec => []TypeOK
  <1>1. Inv => TypeOK
    BY DEF Inv, LoopInv, TypeOK
  <1>2. QED
    BY <1>1, Invariant, PTL

-----------------------------------------------------------------------------
(* The saver implements AtLeastOnce. *)

\* A step of the loop is an acceptance, an attempt or a completion, or none.
LEMMA LoopRefines ==
    ASSUME Inv, LoopStep, UNCHANGED rows
    PROVE  Promise!Next \/ UNCHANGED Promise!vars
  <1> DEFINE effected == {m \in Messages : RowSaved(m)}
  <1>1. effected' = effected
    BY DEF RowSaved
  <1>2. CASE \E m \in Messages : Enqueue(m)
    <2>1. PICK m \in Messages : Enqueue(m)
      BY <1>2
    <2>2. Deleted' = Deleted /\ expired' = expired
      BY <2>1 DEF Enqueue, Deleted, Inv, LoopInv, QueueTypeOK
    <2>3. Promise!Accept(m)
      BY <1>1, <2>1, <2>2 DEF Promise!Accept, Enqueue
    <2>4. QED
      BY <2>3 DEF Promise!Next
  <1>3. CASE \E m \in Messages : HandOut({m})
    <2>1. PICK m \in Messages : HandOut({m})
      BY <1>3
    <2>2. dequeueCount' = [dequeueCount EXCEPT ![m] = @ + 1]
      BY <2>1 DEF HandOut, Inv, LoopInv, QueueTypeOK
    <2>3. m \in Promise!Open /\ Deleted' = Deleted /\ UNCHANGED <<sent, expired>>
      BY <2>1 DEF HandOut, Visible, Deleted, Promise!Open, Inv, LoopInv, QueueTypeOK
    <2>4. Promise!Attempt(m)
      BY <1>1, <2>2, <2>3 DEF Promise!Attempt
    <2>5. QED
      BY <2>4 DEF Promise!Next
  <1>4. CASE \E w \in Workers : RemoveMessage(w)
    <2>1. PICK w \in Workers : RemoveMessage(w)
      BY <1>4
    <2> DEFINE m == held[w].id
    <2>2. /\ m \in queued /\ queued \subseteq sent /\ sent \subseteq Messages
          /\ queued' = queued \ {m}
          /\ UNCHANGED <<sent, dequeueCount, expired>>
          /\ held[w].dequeueCount = dequeueCount[m]
      BY <2>1 DEF RemoveMessage, Remove, Accepts, Inv, LoopInv, QueueTypeOK
    <2>3. m \in effected \/ dequeueCount[m] >= PoisonLimit + 1
      BY <2>1, <2>2, PoisonLimitAssumption
         DEF RemoveMessage, Inv, RemovableIsSaved, LoopInv, QueueTypeOK
    <2>4. m \in Messages /\ m \in Promise!Open /\ Deleted' = Deleted \cup {m}
      BY <2>2 DEF Deleted, Promise!Open, Inv, LoopInv, QueueTypeOK
    <2>5. Promise!Complete(m)
      BY <1>1, <2>2, <2>3, <2>4 DEF Promise!Complete
    <2>6. QED
      BY <2>4, <2>5 DEF Promise!Next
  <1>5. CASE \E m \in Messages : Expire(m)
    <2>1. PICK m \in Messages : Expire(m)
      BY <1>5
    <2>2. m \in Promise!Open /\ Deleted' = Deleted
      BY <2>1 DEF Expire, Deleted, Promise!Open, Inv, LoopInv, QueueTypeOK
    <2>3. Promise!Expire(m)
      BY <1>1, <2>1, <2>2 DEF Promise!Expire, Expire
    <2>4. QED
      BY <2>3 DEF Promise!Next
  <1>6. CASE UNCHANGED <<sent, queued, expired, dequeueCount>>
    BY <1>1, <1>6 DEF Deleted, Promise!vars
  <1>7. QED
    BY <1>2, <1>3, <1>4, <1>5, <1>6
       DEF LoopStep, Poll, Finish, Dequeue, DequeueNothing, DequeueFails, RemoveRejected,
           RemoveFails, Crash, VisibilityTimeout, PrematureTimeout, BecomeVisible, queueVars

\* Processing brings the effect about or leaves everything abstract alone.
LEMMA ProcessingRefines ==
    ASSUME Inv, NEW w \in Workers, ProcessMessages(w)
    PROVE  Promise!Next \/ UNCHANGED Promise!vars
  <1> DEFINE m == held[w].id
             effected == {n \in Messages : RowSaved(n)}
  <1>1. UNCHANGED queueVars /\ pc[w] = "process"
    BY DEF ProcessMessages, LetGo, AddRow, AddConflicts, AddFails, Returns, Throws, Processing
  <1>2. CASE rows' = rows
    BY <1>1, <1>2 DEF Promise!vars, Deleted, RowSaved, queueVars
  <1>3. CASE rows' = rows \cup {RowKey(held[w])}
    <2>1. effected' = effected \cup {m}
      <3>1. RowKey(held[w])[1] = m /\ m \in Messages
        BY ProcessingAddsOwnRow DEF RowKey
      <3>2. \A n \in Messages : RowSaved(n)' <=> RowSaved(n) \/ n = m
        BY <1>3, <3>1 DEF RowSaved
      <3>3. QED
        BY <3>1, <3>2
    <2>2. m \in Messages /\ dequeueCount[m] > 0
      BY <1>1, ProcessingAddsOwnRow
         DEF Inv, LoopInv, QueueTypeOK, ConsumerTypeOK, ReceiptsIssued, QueueMessage
    <2>3. Promise!Effect(m)
      BY <1>1, <2>1, <2>2 DEF Promise!Effect, Deleted, queueVars
    <2>4. QED
      BY <2>2, <2>3 DEF Promise!Next
  <1>4. QED
    BY <1>2, <1>3, ProcessingAddsOwnRow

\* Every behaviour of the saver is one AtLeastOnce allows.
THEOREM Refinement == Spec => KeepsPromise
  <1>1. Init => Promise!Init
    BY DEF Init, QueueInit, Promise!Init, Deleted, RowSaved
  <1>2. Inv /\ [Next]_vars => [Promise!Next]_Promise!vars
    <2>1. UNCHANGED vars => UNCHANGED Promise!vars
      BY DEF vars, queueVars, Promise!vars, Deleted, RowSaved
    <2>2. QED
      BY <2>1, LoopRefines, ProcessingRefines DEF Next
  <1>3. QED
    BY <1>1, <1>2, Invariant, PTL DEF Spec, KeepsPromise, Promise!Spec
=============================================================================
