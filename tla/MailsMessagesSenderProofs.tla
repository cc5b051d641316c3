---------------------- MODULE MailsMessagesSenderProofs ----------------------
(***************************************************************************)
(* Proofs about MailsMessagesSender, for any number of mails, workers and  *)
(* mishaps and any delivery at which a failure is no longer rethrown.      *)
(***************************************************************************)
EXTENDS MailsMessagesSender, MessagePollQueueConsumerProofs, FiniteSetTheorems

\* A worker that is about to remove a mail has seen it sent, or holds a delivery
\* late enough to give up.  This makes MailSentOrGivenUp inductive.
RemovableIsSent ==
    \A w \in Workers : pc[w] = "remove" =>
        sends[held[w].id] > 0 \/ held[w].dequeueCount >= GiveUpAt

SendsTypeOK == sends \in [Messages -> Nat]

Inv == LoopInv /\ SendsTypeOK /\ RemovableIsSent /\ MailSentOrGivenUp

LEMMA InvInit == Init => Inv
  <1> SUFFICES ASSUME Init PROVE Inv
    OBVIOUS
  <1>1. LoopInv
    BY LoopInit DEF Init
  <1>2. SendsTypeOK /\ RemovableIsSent /\ MailSentOrGivenUp
    BY DEF Init, QueueInit, ConsumerInit, SendsTypeOK, RemovableIsSent, MailSentOrGivenUp,
           Deleted
  <1>3. QED
    BY <1>1, <1>2 DEF Inv

\* What the loop removes was removable; it never touches what was sent.
LEMMA LoopKeepsInv ==
    ASSUME Inv, LoopStep, UNCHANGED sends
    PROVE  Inv'
  <1>1. LoopInv' /\ SendsTypeOK'
    BY LoopPreserves DEF Inv, SendsTypeOK
  <1>2. RemovableIsSent'
    BY LoopHolds DEF Inv, RemovableIsSent
  <1>3. MailSentOrGivenUp'
    <2> SUFFICES ASSUME NEW m \in Deleted'
                 PROVE  sends[m] > 0 \/ dequeueCount'[m] >= GiveUpAt
      BY DEF MailSentOrGivenUp
    <2>1. m \in Messages
      BY <1>1 DEF LoopInv, QueueTypeOK, Deleted
    <2>2. /\ dequeueCount[m] \in Nat /\ dequeueCount'[m] \in Nat
          /\ dequeueCount[m] <= dequeueCount'[m]
      BY <1>1, <2>1, LoopCounts DEF Inv, LoopInv, QueueTypeOK
    <2>3. sends[m] > 0 \/ dequeueCount[m] >= GiveUpAt
      <3>1. CASE m \in Deleted
        BY <3>1 DEF Inv, MailSentOrGivenUp
      <3>2. CASE m \notin Deleted
        BY <3>2, LoopRemoves DEF Inv, RemovableIsSent, RemoveMessage
      <3>3. QED
        BY <3>1, <3>2
    <2>4. QED
      BY <2>2, <2>3, GiveUpAtAssumption
  <1>4. QED
    BY <1>1, <1>2, <1>3 DEF Inv

\* The two outcomes of ProcessMessages, as the loop sees them: it returned or it
\* threw, and the mail server has at most one more copy of the mail in hand.
ServerGot(w) == sends' \in {sends, [sends EXCEPT ![held[w].id] = @ + 1]}

\* Whatever the outcome, nothing was taken from the queue, and a worker that will
\* remove the mail has a copy sent or gave up.
Outcome(w) == ProcessMessages(w) \/ SendAnswerLost(w)

LEMMA OutcomeFacts ==
    ASSUME Inv, NEW w \in Workers, Outcome(w)
    PROVE  /\ held[w] \in QueueMessage /\ held[w].id \in Messages
           /\ UNCHANGED <<sent, queued, expired, dequeueCount>>
           /\ ServerGot(w)
           /\ pc'[w] = "remove" => /\ held' = held
                                   /\ \/ sends'[held[w].id] > 0
                                      \/ held[w].dequeueCount >= GiveUpAt
           /\ \A v \in Workers : v # w => pc'[v] = pc[v] /\ held'[v] = held[v]
  <1>1. pc[w] = "process" /\ held[w] \in QueueMessage /\ held[w].id \in Messages
    BY DEF Outcome, ProcessMessages, Send, SendFails, SendGivenUp, SendAnswerLost, Returns,
           Throws, Processing, Inv, LoopInv, ConsumerTypeOK, QueueMessage
  <1>2. held[w].dequeueCount \in Nat
    BY <1>1 DEF QueueMessage
  <1> USE <1>1, <1>2, GiveUpAtAssumption
      DEF Inv, LoopInv, ConsumerTypeOK, SendsTypeOK, ServerGot
  <1>3. CASE Send(w)
    BY <1>3 DEF Send, Returns, queueVars
  <1>4. CASE SendFails(w)
    BY <1>4 DEF SendFails, Throws, EndIteration, queueVars
  <1>5. CASE SendGivenUp(w)
    BY <1>5 DEF SendGivenUp, Returns, queueVars
  <1>6. CASE SendAnswerLost(w)
    <2>1. sends'[held[w].id] = sends[held[w].id] + 1 /\ ServerGot(w)
      BY <1>6 DEF SendAnswerLost
    <2>2. UNCHANGED <<sent, queued, expired, dequeueCount>>
      BY <1>6 DEF SendAnswerLost
    <2>3. CASE EndIteration(w)
      BY <2>1, <2>2, <2>3 DEF EndIteration
    <2>4. CASE pc' = [pc EXCEPT ![w] = "remove"] /\ UNCHANGED held
      BY <2>1, <2>2, <2>4
    <2>5. QED
      BY <1>6, <2>3, <2>4 DEF SendAnswerLost
  <1>7. QED
    BY <1>3, <1>4, <1>5, <1>6 DEF Outcome, ProcessMessages

\* The lost answer leaves the loop as a return or as an exception would.
LEMMA AnswerLostPreserves ==
    ASSUME LoopInv, NEW w \in Workers, SendAnswerLost(w)
    PROVE  LoopInv'
  <1>1. QueueTypeOK' /\ dequeueCount' = dequeueCount
    BY MishapTyped DEF LoopInv, QueueTypeOK, SendAnswerLost
  <1>2. CASE EndIteration(w)
    BY <1>1, <1>2, EndIterationPreserves
  <1>3. CASE pc' = [pc EXCEPT ![w] = "remove"] /\ UNCHANGED <<held, interval>>
    BY <1>1, <1>3 DEF LoopInv, ConsumerTypeOK, ReceiptsIssued, SendAnswerLost, Processing
  <1>4. QED
    BY <1>2, <1>3 DEF SendAnswerLost

LEMMA OutcomeKeepsInv ==
    ASSUME Inv, NEW w \in Workers, Outcome(w)
    PROVE  Inv'
  <1>1. LoopInv'
    BY ReturnsPreserves, ThrowsPreserves, AnswerLostPreserves
       DEF Inv, Outcome, ProcessMessages, Send, SendFails, SendGivenUp
  <1>2. SendsTypeOK' /\ \A m \in Messages : sends[m] > 0 => sends'[m] > 0
    BY OutcomeFacts DEF Inv, SendsTypeOK, ServerGot
  <1>3. RemovableIsSent'
    <2> SUFFICES ASSUME NEW v \in Workers, pc'[v] = "remove"
                 PROVE  sends'[held'[v].id] > 0 \/ held'[v].dequeueCount >= GiveUpAt
      BY DEF RemovableIsSent
    <2>1. CASE v = w
      BY <2>1, OutcomeFacts
    <2>2. CASE v # w
      <3>1. pc[v] = "remove" /\ held'[v] = held[v]
        BY <2>2, OutcomeFacts
      <3>2. held[v].id \in Messages
        BY <3>1 DEF Inv, LoopInv, ConsumerTypeOK, QueueMessage
      <3>3. QED
        BY <1>2, <3>1, <3>2 DEF Inv, RemovableIsSent
    <2>3. QED
      BY <2>1, <2>2
  <1>4. MailSentOrGivenUp'
    BY <1>2, OutcomeFacts DEF Inv, MailSentOrGivenUp, Deleted, LoopInv, QueueTypeOK
  <1>5. QED
    BY <1>1, <1>2, <1>3, <1>4 DEF Inv

\* The inductive invariant of the mails.
THEOREM Invariant == Spec => []Inv
  <1>1. Inv /\ [Next]_vars => Inv'
    <2>1. Inv /\ UNCHANGED vars => Inv'
      BY LoopStutters
         DEF Inv, SendsTypeOK, RemovableIsSent, MailSentOrGivenUp, Deleted, vars, queueVars,
             consumerVars
    <2>2. QED
      BY <2>1, LoopKeepsInv, OutcomeKeepsInv DEF Next, Outcome
  <1>2. QED
    BY <1>1, InvInit, PTL DEF Spec

\* A mail leaves the queue only when it was sent or its attempts were used up.
THEOREM NoMailLost == Spec => []MailSentOrGivenUp
  <1>1. Inv => MailSentOrGivenUp
    BY DEF Inv
  <1>2. QED
    BY <1>1, Invariant, PTL

\* Every variable keeps its type.
THEOREM TypeCorrect == Spec => []TypeOK
  <1>1. Inv => TypeOK
    BY DEF Inv, LoopInv, SendsTypeOK, TypeOK
  <1>2. QED
    BY <1>1, Invariant, PTL

-----------------------------------------------------------------------------
(* The sender implements AtLeastOnce. *)

LEMMA LoopRefines ==
    ASSUME Inv, LoopStep, UNCHANGED sends
    PROVE  Promise!Next \/ UNCHANGED Promise!vars
  <1> DEFINE effected == {m \in Messages : sends[m] > 0}
  <1>1. effected' = effected
    OBVIOUS
  <1>2. CASE \E m \in Messages : Enqueue(m)
    <2>1. PICK m \in Messages : Enqueue(m)
      BY <1>2
    <2>2. Deleted' = Deleted /\ expired' = expired
      BY <2>1 DEF Enqueue, Deleted, Inv, LoopInv, QueueTypeOK
    <2>3. Promise!Accept(m)
      BY <1>1, <2>1, <2>2 DEF Promise!Accept, Enqueue
    <2>4. QED
      BY <2>3 DEF Promise!Next
  <1>3. CASE \E m \in Messages : HandOut({m})
    <2>1. PICK m \in Messages : HandOut({m})
      BY <1>3
    <2>2. dequeueCount' = [dequeueCount EXCEPT ![m] = @ + 1]
      BY <2>1 DEF HandOut, Inv, LoopInv, QueueTypeOK
    <2>3. m \in Promise!Open /\ Deleted' = Deleted /\ UNCHANGED <<sent, expired>>
      BY <2>1 DEF HandOut, Visible, Deleted, Promise!Open, Inv, LoopInv, QueueTypeOK
    <2>4. Promise!Attempt(m)
      BY <1>1, <2>2, <2>3 DEF Promise!Attempt
    <2>5. QED
      BY <2>4 DEF Promise!Next
  <1>4. CASE \E w \in Workers : RemoveMessage(w)
    <2>1. PICK w \in Workers : RemoveMessage(w)
      BY <1>4
    <2> DEFINE m == held[w].id
    <2>2. /\ m \in queued /\ queued \subseteq sent /\ sent \subseteq Messages
          /\ queued' = queued \ {m}
          /\ UNCHANGED <<sent, dequeueCount, expired>>
          /\ held[w].dequeueCount = dequeueCount[m]
      BY <2>1 DEF RemoveMessage, Remove, Accepts, Inv, LoopInv, QueueTypeOK
    <2>3. m \in Messages /\ m \in Promise!Open /\ Deleted' = Deleted \cup {m}
      BY <2>2 DEF Deleted, Promise!Open, Inv, LoopInv, QueueTypeOK
    <2>4. m \in effected \/ dequeueCount[m] >= GiveUpAt
      BY <2>1, <2>2, <2>3 DEF RemoveMessage, Inv, RemovableIsSent
    <2>5. Promise!Complete(m)
      BY <1>1, <2>2, <2>3, <2>4 DEF Promise!Complete
    <2>6. QED
      BY <2>3, <2>5 DEF Promise!Next
  <1>5. CASE \E m \in Messages : Expire(m)
    <2>1. PICK m \in Messages : Expire(m)
      BY <1>5
    <2>2. m \in Promise!Open /\ Deleted' = Deleted
      BY <2>1 DEF Expire, Deleted, Promise!Open, Inv, LoopInv, QueueTypeOK
    <2>3. Promise!Expire(m)
      BY <1>1, <2>1, <2>2 DEF Promise!Expire, Expire
    <2>4. QED
      BY <2>3 DEF Promise!Next
  <1>6. CASE UNCHANGED <<sent, queued, expired, dequeueCount>>
    BY <1>1, <1>6 DEF Deleted, Promise!vars
  <1>7. QED
    BY <1>2, <1>3, <1>4, <1>5, <1>6
       DEF LoopStep, Poll, Finish, Dequeue, DequeueNothing, DequeueFails, RemoveRejected,
           RemoveFails, Crash, VisibilityTimeout, PrematureTimeout, BecomeVisible, queueVars

\* Processing is the effect of an attempt, or nothing.
LEMMA OutcomeRefines ==
    ASSUME Inv, NEW w \in Workers, Outcome(w)
    PROVE  Promise!Next \/ UNCHANGED Promise!vars
  <1>1. PICK m \in Messages : m = held[w].id
    BY OutcomeFacts
  <1>2. UNCHANGED <<sent, queued, expired, dequeueCount>>
    BY OutcomeFacts
  <1>3. CASE sends' = sends
    BY <1>2, <1>3 DEF Deleted, Promise!vars
  <1>4. CASE sends' = [sends EXCEPT ![m] = @ + 1]
    <2> DEFINE effected == {n \in Messages : sends[n] > 0}
    <2>1. effected' = effected \cup {m}
      BY <1>4 DEF Inv, SendsTypeOK
    <2>2. pc[w] = "process" /\ held[w] \in QueueMessage
      BY OutcomeFacts
         DEF Outcome, ProcessMessages, Send, SendFails, SendGivenUp, SendAnswerLost, Returns,
             Throws, Processing
    <2>3. dequeueCount[m] > 0
      BY <1>1, <2>2
         DEF Inv, LoopInv, QueueTypeOK, ConsumerTypeOK, ReceiptsIssued, QueueMessage
    <2>4. Promise!Effect(m)
      BY <1>2, <2>1, <2>3 DEF Deleted, Promise!Effect
    <2>5. QED
      BY <2>4 DEF Promise!Next
  <1>5. QED
    BY <1>1, <1>3, <1>4, OutcomeFacts DEF ServerGot

\* Every behaviour of the sender is one AtLeastOnce allows.
THEOREM Refinement == Spec => KeepsPromise
  <1>1. Init => Promise!Init
    BY DEF Init, QueueInit, Deleted, Promise!Init
  <1>2. Inv /\ [Next]_vars => [Promise!Next]_Promise!vars
    <2>1. UNCHANGED vars => UNCHANGED Promise!vars
      BY DEF vars, queueVars, Deleted, Promise!vars
    <2>2. QED
      BY <2>1, LoopRefines, OutcomeRefines DEF Next, Outcome
  <1>3. QED
    BY <1>1, <1>2, Invariant, PTL DEF Spec, KeepsPromise, Promise!Spec

-----------------------------------------------------------------------------
(* Every copy of a mail is paid for. *)

\* The workers that may be about to send a copy of m.
Sending(m) == {w \in Workers : pc[w] = "process" /\ held[w].id = m}

\* m can be handed out again, now or after its timeout, without a mishap.
Obtainable(m) == m \in queued /\ (m \in Visible \/ ~InHand(m))

Share(m) == IF Obtainable(m) THEN 1 ELSE 0
Mine(w, m) == IF w \in Sending(m) THEN 1 ELSE 0

\* The copies sent, those that workers may be about to send, and the one a further
\* delivery may add: one is free, the others are paid for by mishaps.
PaidFor(m) == /\ IsFiniteSet(Sending(m))
              /\ sends[m] + Cardinality(Sending(m)) + Share(m) <= 1 + mishaps[m]

AllPaidFor == \A m \in Messages : PaidFor(m)

NoneBeforeSent == \A m \in Messages \ sent : sends[m] = 0 /\ dequeueCount[m] = 0

CountInv == LoopInv /\ SendsTypeOK /\ NoneBeforeSent /\ AllPaidFor

LEMMA PaidForTyped ==
    ASSUME LoopInv, SendsTypeOK, NEW m \in Messages
    PROVE  sends[m] \in Nat /\ mishaps[m] \in Nat /\ dequeueCount[m] \in Nat
BY DEF LoopInv, QueueTypeOK, SendsTypeOK

\* A step of one worker stays paid for if what that worker changes is.
LEMMA WorkerBalance ==
    ASSUME LoopInv, SendsTypeOK, LoopInv', SendsTypeOK',
           NEW m \in Messages, PaidFor(m), NEW w \in Workers,
           \A v \in Workers \ {w} : v \in Sending(m)' <=> v \in Sending(m),
           sends'[m] + Mine(w, m)' + Share(m)' + mishaps[m]
              <= sends[m] + Mine(w, m) + Share(m) + mishaps'[m]
    PROVE  PaidFor(m)'
  <1> DEFINE S == Sending(m) \ {w}
  <1>1. IsFiniteSet(S) /\ Cardinality(S) \in Nat
    BY FS_RemoveElement, FS_CardinalityType DEF PaidFor
  <1>2. Cardinality(Sending(m)) = Cardinality(S) + Mine(w, m)
    <2>1. CASE w \in Sending(m)
      <3>1. Sending(m) = S \cup {w} /\ w \notin S
        BY <2>1
      <3>2. QED
        BY <1>1, <2>1, <3>1, FS_AddElement DEF Mine
    <2>2. CASE w \notin Sending(m)
      <3>1. Sending(m) = S
        BY <2>2
      <3>2. QED
        BY <1>1, <2>2, <3>1 DEF Mine
    <2>3. QED
      BY <2>1, <2>2
  <1>3. IsFiniteSet(Sending(m)') /\ Cardinality(Sending(m)') = Cardinality(S) + Mine(w, m)'
    <2>0. Sending(m) \subseteq Workers /\ Sending(m)' \subseteq Workers
      BY DEF Sending
    <2>1. CASE w \in Sending(m)'
      <3>1. Sending(m)' = S \cup {w} /\ w \notin S
        BY <2>0, <2>1
      <3>2. QED
        BY <1>1, <2>1, <3>1, FS_AddElement DEF Mine
    <2>2. CASE w \notin Sending(m)'
      <3>1. Sending(m)' = S
        BY <2>0, <2>2
      <3>2. QED
        BY <1>1, <2>2, <3>1 DEF Mine
    <2>3. QED
      BY <2>1, <2>2
  <1>4. /\ Mine(w, m) \in Nat /\ Mine(w, m)' \in Nat
        /\ Share(m) \in Nat /\ Share(m)' \in Nat
    BY DEF Mine, Share
  <1>5. /\ sends[m] \in Nat /\ mishaps[m] \in Nat
        /\ sends'[m] \in Nat /\ mishaps'[m] \in Nat
    BY DEF LoopInv, QueueTypeOK, SendsTypeOK
  <1>6. sends[m] + Cardinality(Sending(m)) + Share(m) <= 1 + mishaps[m]
    BY DEF PaidFor
  <1> HIDE DEF S
  <1>7. sends'[m] + Cardinality(Sending(m)') + Share(m)' <= 1 + mishaps'[m]
    BY <1>1, <1>2, <1>3, <1>4, <1>5, <1>6
  <1>8. QED
    BY <1>3, <1>7 DEF PaidFor

\* So does a step of no worker.
LEMMA QueueBalance ==
    ASSUME LoopInv, SendsTypeOK, LoopInv', SendsTypeOK',
           NEW m \in Messages, PaidFor(m), Sending(m)' = Sending(m),
           sends'[m] + Share(m)' + mishaps[m] <= sends[m] + Share(m) + mishaps'[m]
    PROVE  PaidFor(m)'
  <1>1. Cardinality(Sending(m)) \in Nat
    BY FS_CardinalityType DEF PaidFor
  <1>2. Share(m) \in Nat /\ Share(m)' \in Nat
    BY DEF Share
  <1>3. /\ sends[m] \in Nat /\ mishaps[m] \in Nat
        /\ sends'[m] \in Nat /\ mishaps'[m] \in Nat
    BY DEF LoopInv, QueueTypeOK, SendsTypeOK
  <1>4. QED
    BY <1>1, <1>2, <1>3 DEF PaidFor

\* The steps of the queue, and a hand-out that reaches no worker.
LEMMA QueueStepPaidFor ==
    ASSUME CountInv, LoopInv', NEW m \in Messages, NEW n \in Messages, UNCHANGED sends,
           UNCHANGED consumerVars,
           \/ Enqueue(n) \/ Expire(n) \/ VisibilityTimeout(n) \/ PrematureTimeout(n)
           \/ HandOut({n}) /\ Mishap({n})
    PROVE  PaidFor(m)'
  <1> USE DEF CountInv, consumerVars
  <1>1. PaidFor(m) /\ SendsTypeOK' /\ sends'[m] = sends[m]
    BY DEF AllPaidFor, SendsTypeOK
  <1>2. Sending(m)' = Sending(m)
    BY DEF Sending
  <1>3. /\ sends[m] \in Nat /\ mishaps[m] \in Nat
        /\ Share(m) \in {0, 1} /\ Share(m)' \in {0, 1}
    BY PaidForTyped DEF Share
  <1>4. CASE m = n /\ Enqueue(n)
    <2>1. sends[m] = 0 /\ dequeueCount[m] = 0
      BY <1>4 DEF NoneBeforeSent, Enqueue
    <2>2. Sending(m) = {}
      <3>1. ASSUME NEW w \in Sending(m) PROVE FALSE
        <4>1. held[w] \in QueueMessage /\ held[w].id = m /\ held[w] # NoMessage
          BY <3>1, NoMessageAssumption DEF Sending, LoopInv, ConsumerTypeOK
        <4>2. held[w].dequeueCount <= 0
          BY <2>1, <3>1, <4>1 DEF Sending, LoopInv, ReceiptsIssued
        <4>3. QED
          BY <4>1, <4>2 DEF QueueMessage
      <3>2. QED
        BY <3>1
    <2>3. IsFiniteSet(Sending(m)') /\ Cardinality(Sending(m)') = 0
      BY <1>2, <2>2, FS_EmptySet
    <2>4. mishaps'[m] = mishaps[m]
      BY <1>4 DEF Enqueue
    <2>5. QED
      BY <1>1, <1>3, <2>1, <2>3, <2>4 DEF PaidFor
  <1>5. CASE m # n \/ ~Enqueue(n)
    <2>1. /\ mishaps'[m] \in Nat
          /\ Share(m)' + mishaps[m] <= Share(m) + mishaps'[m]
      <3>1. CASE m # n
        <4>1. /\ mishaps'[m] = mishaps[m] /\ dequeueCount'[m] = dequeueCount[m]
              /\ m \in queued' <=> m \in queued
              /\ m \in invisible' <=> m \in invisible
          BY <3>1 DEF Enqueue, Expire, VisibilityTimeout, PrematureTimeout, BecomeVisible,
                      HandOut, Mishap, LoopInv, QueueTypeOK
        <4>2. InHand(m)' <=> InHand(m)
          BY <4>1 DEF InHand
        <4>3. Share(m)' = Share(m)
          BY <4>1, <4>2 DEF Share, Obtainable, Visible
        <4>4. QED
          BY <1>3, <4>1, <4>3
      <3>2. CASE m = n /\ Expire(n)
        <4>1. Share(m)' = 0 /\ mishaps'[m] = mishaps[m]
          BY <3>2 DEF Expire, Share, Obtainable
        <4>2. QED
          BY <1>3, <4>1
      <3>3. CASE m = n /\ VisibilityTimeout(n)
        <4>1. Share(m) = 1 /\ mishaps'[m] = mishaps[m]
          BY <3>3 DEF VisibilityTimeout, BecomeVisible, Share, Obtainable, LoopInv, QueueTypeOK
        <4>2. QED
          BY <1>3, <4>1
      <3>4. CASE m = n /\ Mishap({n})
        <4>1. mishaps'[m] = mishaps[m] + 1
          BY <3>4 DEF Mishap
        <4>2. QED
          BY <1>3, <4>1
      <3>5. QED
        BY <1>5, <3>1, <3>2, <3>3, <3>4 DEF PrematureTimeout
    <2>2. QED
      BY <1>1, <1>2, <1>3, <2>1, QueueBalance
  <1>6. QED
    BY <1>4, <1>5

\* A step of worker w alone that touches no other message than its own.
LEMMA WorkerFacts ==
    ASSUME LoopInv, NEW w \in Workers, NEW m \in Messages,
           \A v \in Workers \ {w} : pc'[v] = pc[v] /\ held'[v] = held[v],
           dequeueCount'[m] = dequeueCount[m], m \in queued' <=> m \in queued,
           m \in invisible' <=> m \in invisible,
           held[w] = NoMessage \/ held[w].id # m \/ held[w].dequeueCount # dequeueCount[m],
           held'[w] = NoMessage \/ held'[w].id # m \/ held'[w].dequeueCount # dequeueCount[m]
    PROVE  Share(m)' = Share(m)
  <1>1. InHand(m)' <=> InHand(m)
    BY DEF InHand
  <1>2. QED
    BY <1>1 DEF Share, Obtainable, Visible

\* A message is handed out to a worker: the delivery it may send takes the place
\* of the one that could be handed out.
LEMMA DequeuePaidFor ==
    ASSUME CountInv, LoopInv', NEW m \in Messages, NEW w \in Workers, NEW n \in Messages,
           Dequeue(w, n), UNCHANGED sends
    PROVE  PaidFor(m)'
  <1> USE DEF CountInv
  <1>1. PaidFor(m) /\ SendsTypeOK' /\ sends'[m] = sends[m] /\ mishaps'[m] = mishaps[m]
    BY DEF AllPaidFor, SendsTypeOK, Dequeue
  <1>2. /\ \A v \in Workers \ {w} : pc'[v] = pc[v] /\ held'[v] = held[v]
        /\ held[w] = NoMessage /\ pc[w] = "poll" /\ pc'[w] = "process"
        /\ held'[w] = Delivery(n)
    BY DEF Dequeue, LoopInv, ConsumerTypeOK
  <1>3. \A v \in Workers \ {w} : v \in Sending(m)' <=> v \in Sending(m)
    BY <1>2 DEF Sending
  <1>4. /\ sends[m] \in Nat /\ mishaps[m] \in Nat
        /\ Share(m) \in {0, 1} /\ Share(m)' \in {0, 1}
    BY PaidForTyped DEF Share
  <1>5. Mine(w, m) = 0
    BY <1>2 DEF Mine, Sending
  <1>6. HandOut({n})
    BY DEF Dequeue
  <1>7. Mine(w, m)' + Share(m)' <= Share(m)
    <2>1. CASE m = n
      <3>1. Share(m) = 1
        BY <1>6, <2>1 DEF HandOut, Share, Obtainable, Visible
      <3>2. /\ dequeueCount'[m] = dequeueCount[m] + 1
            /\ held'[w].id = m /\ held'[w].dequeueCount = dequeueCount[m] + 1
            /\ m \in invisible'
        BY <1>2, <1>6, <2>1 DEF HandOut, Delivery
      <3>3. held'[w] # NoMessage
        BY <1>2 DEF LoopInv, ConsumerTypeOK
      <3>4. InHand(m)'
        BY <3>2, <3>3 DEF InHand
      <3>5. Share(m)' = 0
        BY <3>2, <3>4 DEF Share, Obtainable, Visible
      <3>6. Mine(w, m)' \in {0, 1}
        BY DEF Mine
      <3>7. QED
        BY <3>1, <3>5, <3>6
    <2>2. CASE m # n
      <3>1. /\ dequeueCount'[m] = dequeueCount[m] /\ held'[w].id = n
            /\ m \in queued' <=> m \in queued
            /\ m \in invisible' <=> m \in invisible
        BY <1>2, <1>6, <2>2 DEF HandOut, Delivery
      <3>2. Share(m)' = Share(m)
        BY <1>2, <2>2, <3>1, WorkerFacts
      <3>3. Mine(w, m)' = 0
        BY <2>2, <3>1 DEF Mine, Sending
      <3>4. QED
        BY <1>4, <3>2, <3>3
    <2>3. QED
      BY <2>1, <2>2
  <1>8. Mine(w, m)' \in {0, 1}
    BY DEF Mine
  <1>9. sends'[m] + Mine(w, m)' + Share(m)' + mishaps[m]
           <= sends[m] + Mine(w, m) + Share(m) + mishaps'[m]
    BY <1>1, <1>4, <1>5, <1>7, <1>8
  <1>10. QED
    BY <1>1, <1>3, <1>9, WorkerBalance

\* Another message than the one the worker has in hand notices nothing.
LEMMA OthersPaidFor ==
    ASSUME CountInv, LoopInv', SendsTypeOK', NEW m \in Messages, NEW w \in Workers,
           \A v \in Workers \ {w} : pc'[v] = pc[v] /\ held'[v] = held[v],
           held[w] = NoMessage \/ held[w].id # m, held'[w] \in {held[w], NoMessage},
           dequeueCount' = dequeueCount, m \in queued' <=> m \in queued,
           m \in invisible' <=> m \in invisible,
           sends'[m] = sends[m], mishaps'[m] = mishaps[m]
    PROVE  PaidFor(m)'
  <1> USE DEF CountInv
  <1>1. Share(m)' = Share(m)
    BY WorkerFacts
  <1>2. Sending(m)' = Sending(m)
    <2>1. w \notin Sending(m) /\ w \notin Sending(m)'
      BY DEF Sending, LoopInv, ConsumerTypeOK
    <2>2. \A v \in Workers \ {w} : v \in Sending(m)' <=> v \in Sending(m)
      BY DEF Sending
    <2>3. Sending(m) \subseteq Workers /\ Sending(m)' \subseteq Workers
      BY DEF Sending
    <2>4. QED
      BY <2>1, <2>2, <2>3
  <1>3. QED
    BY <1>1, <1>2 DEF PaidFor, AllPaidFor

\* The message in hand: what a worker that stops processing or removing it owes.
LEMMA OwnPaidFor ==
    ASSUME CountInv, LoopInv', SendsTypeOK', NEW w \in Workers, NEW m \in Messages,
           held[w] # NoMessage, held[w].id = m, pc'[w] # "process",
           \A v \in Workers \ {w} : pc'[v] = pc[v] /\ held'[v] = held[v],
           \/ /\ pc[w] = "process"
              /\ \/ sends'[m] + mishaps[m] <= sends[m] + mishaps'[m]
                 \/ sends'[m] = sends[m] + 1 /\ mishaps'[m] = mishaps[m] /\ Share(m)' = Share(m)
           \/ /\ pc[w] = "remove" /\ sends'[m] = sends[m]
              /\ \/ mishaps'[m] = mishaps[m] + 1
                 \/ mishaps'[m] = mishaps[m] /\ Share(m)' <= Share(m)
    PROVE  PaidFor(m)'
  <1> USE DEF CountInv
  <1>1. PaidFor(m)
    BY DEF AllPaidFor
  <1>2. \A v \in Workers \ {w} : v \in Sending(m)' <=> v \in Sending(m)
    BY DEF Sending
  <1>3. /\ sends[m] \in Nat /\ mishaps[m] \in Nat
        /\ sends'[m] \in Nat /\ mishaps'[m] \in Nat
        /\ Share(m) \in {0, 1} /\ Share(m)' \in {0, 1}
    BY DEF Share, LoopInv, QueueTypeOK, SendsTypeOK
  <1>4. Mine(w, m)' = 0 /\ Mine(w, m) = IF pc[w] = "process" THEN 1 ELSE 0
    BY DEF Mine, Sending
  <1>5. sends'[m] + Mine(w, m)' + Share(m)' + mishaps[m]
           <= sends[m] + Mine(w, m) + Share(m) + mishaps'[m]
    <2>1. CASE pc[w] = "process"
      BY <1>3, <1>4, <2>1
    <2>2. CASE pc[w] = "remove"
      BY <1>3, <1>4, <2>2
    <2>3. QED
      BY <2>1, <2>2
  <1>6. QED
    BY <1>1, <1>2, <1>5, WorkerBalance

\* The worker's steps after it was handed a message, and its death.
LEMMA EndPaidFor ==
    ASSUME CountInv, LoopInv', NEW m \in Messages, NEW w \in Workers, UNCHANGED sends,
           Finish(w) \/ RemoveFails(w) \/ Crash(w)
    PROVE  PaidFor(m)'
  <1> USE DEF CountInv
  <1>1. SendsTypeOK' /\ sends'[m] = sends[m] /\ mishaps \in [Messages -> Nat]
    BY DEF SendsTypeOK, LoopInv, QueueTypeOK
  <1>2. /\ pc' = [pc EXCEPT ![w] = "poll"] /\ held' = [held EXCEPT ![w] = NoMessage]
        /\ dequeueCount' = dequeueCount
    BY DEF Finish, RemoveMessage, RemoveRejected, RemoveFails, Crash, EndIteration, Remove, queueVars
  <1>3. /\ \A v \in Workers \ {w} : pc'[v] = pc[v] /\ held'[v] = held[v]
        /\ pc'[w] = "poll" /\ held'[w] = NoMessage
    BY <1>2 DEF LoopInv, ConsumerTypeOK
  <1>4. CASE held[w] = NoMessage \/ held[w].id # m
    <2>1. /\ m \in queued' <=> m \in queued
          /\ m \in invisible' <=> m \in invisible
          /\ mishaps'[m] = mishaps[m]
      BY <1>4 DEF Finish, RemoveMessage, RemoveRejected, RemoveFails, Crash, Remove, Mishap,
                  queueVars, LoopInv, ConsumerTypeOK
    <2>2. QED
      BY <1>1, <1>2, <1>3, <1>4, <2>1, OthersPaidFor
  <1>5. CASE held[w] # NoMessage /\ held[w].id = m
    <2>1. held[w] \in QueueMessage /\ (pc[w] = "process" \/ pc[w] = "remove")
      BY <1>5 DEF LoopInv, ConsumerTypeOK
    <2>2. CASE RemoveMessage(w)
      <3>1. pc[w] = "remove" /\ mishaps' = mishaps /\ m \notin queued'
        BY <1>5, <2>2 DEF RemoveMessage, Remove
      <3>2. Share(m)' = 0 /\ Share(m) \in {0, 1}
        BY <3>1 DEF Share, Obtainable
      <3>3. Share(m)' <= Share(m)
        BY <3>2
      <3>4. QED
        BY <1>1, <1>3, <1>5, <3>1, <3>3, OwnPaidFor
    <2>3. CASE RemoveRejected(w)
      <3>1. /\ pc[w] = "remove" /\ mishaps' = mishaps
            /\ queued' = queued /\ invisible' = invisible
            /\ m \notin queued \/ held[w].dequeueCount # dequeueCount[m]
        BY <1>5, <2>3 DEF RemoveRejected, Accepts, queueVars
      <3>2. Share(m)' <= Share(m)
        <4>1. CASE m \notin queued
          BY <3>1, <4>1 DEF Share, Obtainable
        <4>2. CASE held[w].dequeueCount # dequeueCount[m]
          <5>1. Share(m)' = Share(m)
            BY <1>2, <1>3, <3>1, <4>2, WorkerFacts
          <5>2. QED
            BY <5>1 DEF Share
        <4>3. QED
          BY <3>1, <4>1, <4>2
      <3>3. QED
        BY <1>1, <1>3, <1>5, <3>1, <3>2, OwnPaidFor
    <2>4. CASE RemoveFails(w) \/ Crash(w)
      <3>1. mishaps'[m] = mishaps[m] + 1
        BY <1>1, <1>5, <2>4 DEF RemoveFails, Crash, Mishap
      <3>2. sends[m] \in Nat /\ mishaps[m] \in Nat
        BY PaidForTyped
      <3>3. sends'[m] + mishaps[m] <= sends[m] + mishaps'[m]
        BY <1>1, <3>1, <3>2
      <3>4. QED
        BY <1>1, <1>3, <1>5, <2>1, <3>1, <3>3, OwnPaidFor
    <2>5. QED
      BY <2>2, <2>3, <2>4 DEF Finish
  <1>6. QED
    BY <1>4, <1>5

\* The outcome of ProcessMessages: a copy sent takes the place of the one the worker
\* might send, and what follows a failure is another delivery in its place.
LEMMA OutcomePaidFor ==
    ASSUME CountInv, LoopInv', SendsTypeOK', NEW m \in Messages, NEW w \in Workers, Outcome(w)
    PROVE  PaidFor(m)'
  <1> USE DEF CountInv
  <1>1. /\ pc[w] = "process" /\ held[w] \in QueueMessage /\ held[w] # NoMessage
        /\ held[w].id \in Messages
    BY NoMessageAssumption
       DEF Outcome, ProcessMessages, Send, SendFails, SendGivenUp, SendAnswerLost, Returns,
           Throws, Processing, LoopInv, ConsumerTypeOK, QueueMessage
  <1>2. /\ pc' = [pc EXCEPT ![w] = "poll"] \/ pc' = [pc EXCEPT ![w] = "remove"]
        /\ held' = held \/ held' = [held EXCEPT ![w] = NoMessage]
    BY DEF Outcome, ProcessMessages, Send, SendFails, SendGivenUp, SendAnswerLost, Returns,
           Throws, EndIteration
  <1>3. UNCHANGED <<queued, invisible, dequeueCount>>
    BY DEF Outcome, ProcessMessages, Send, SendFails, SendGivenUp, SendAnswerLost, Returns,
           Throws, queueVars
  <1>4. /\ \A v \in Workers \ {w} : pc'[v] = pc[v] /\ held'[v] = held[v]
        /\ pc'[w] # "process" /\ held'[w] \in {held[w], NoMessage}
    BY <1>2 DEF LoopInv, ConsumerTypeOK
  <1>5. /\ sends[m] \in Nat /\ mishaps[m] \in Nat
        /\ sends \in [Messages -> Nat] /\ mishaps \in [Messages -> Nat]
    BY DEF LoopInv, QueueTypeOK, SendsTypeOK
  <1>6. CASE held[w].id # m
    <2>1. sends'[m] = sends[m] /\ mishaps'[m] = mishaps[m]
      BY <1>5, <1>6 DEF Outcome, ProcessMessages, Send, SendFails, SendGivenUp, SendAnswerLost,
                        Returns, Throws, Mishap, queueVars
    <2>2. QED
      BY <1>3, <1>4, <1>6, <2>1, OthersPaidFor
  <1>7. CASE held[w].id = m
    <2>1. CASE Send(w)
      <3>1. sends'[m] = sends[m] + 1 /\ mishaps'[m] = mishaps[m] /\ held' = held
        BY <1>5, <1>7, <2>1 DEF Send, Returns, queueVars
      <3>2. Share(m)' = Share(m)
        BY <1>3, <3>1 DEF Share, Obtainable, Visible, InHand
      <3>3. QED
        BY <1>1, <1>4, <1>7, <3>1, <3>2, OwnPaidFor
    <2>2. CASE SendFails(w) \/ SendGivenUp(w)
      <3>1. sends'[m] = sends[m] /\ mishaps'[m] = mishaps[m]
        BY <2>2 DEF SendFails, SendGivenUp, Returns, Throws, queueVars
      <3>2. sends'[m] + mishaps[m] <= sends[m] + mishaps'[m]
        BY <1>5, <3>1
      <3>3. QED
        BY <1>1, <1>4, <1>7, <3>2, OwnPaidFor
    <2>3. CASE SendAnswerLost(w)
      <3>1. sends'[m] = sends[m] + 1 /\ mishaps'[m] = mishaps[m] + 1
        BY <1>5, <1>7, <2>3 DEF SendAnswerLost, Mishap
      <3>2. sends'[m] + mishaps[m] <= sends[m] + mishaps'[m]
        BY <1>5, <3>1
      <3>3. QED
        BY <1>1, <1>4, <1>7, <3>2, OwnPaidFor
    <2>4. QED
      BY <2>1, <2>2, <2>3 DEF Outcome, ProcessMessages
  <1>8. QED
    BY <1>6, <1>7

\* Nothing is handed out, let alone sent, before somebody enqueued it.
LEMMA NoneBeforeSentPreserved ==
    ASSUME CountInv, Inv, [Next]_vars
    PROVE  NoneBeforeSent'
  <1> SUFFICES ASSUME NEW m \in Messages \ sent' PROVE sends'[m] = 0 /\ dequeueCount'[m] = 0
    BY DEF NoneBeforeSent
  <1>1. m \notin sent
    BY DEF Next, Outcome, LoopStep, Poll, Finish, Enqueue, Expire, Dequeue, DequeueNothing,
           DequeueFails, RemoveMessage, RemoveRejected, RemoveFails, Crash, Remove, HandOut,
           VisibilityTimeout, PrematureTimeout, BecomeVisible, ProcessMessages, Send, SendFails,
           SendGivenUp, SendAnswerLost, Returns, Throws, vars, queueVars
  <1>2. sends[m] = 0 /\ dequeueCount[m] = 0
    BY <1>1 DEF CountInv, NoneBeforeSent
  <1>3. CASE LoopStep /\ UNCHANGED sends
    <2>1. CASE \E n \in Messages : HandOut({n})
      <3>1. PICK n \in Messages : HandOut({n})
        BY <2>1
      <3>2. m # n
        BY <1>1, <3>1 DEF HandOut, Visible, CountInv, LoopInv, QueueTypeOK
      <3>3. QED
        BY <1>2, <1>3, <3>1, <3>2 DEF HandOut
    <2>2. CASE dequeueCount' = dequeueCount
      BY <1>2, <1>3, <2>2
    <2>3. QED
      BY <1>3, <2>1, <2>2
         DEF LoopStep, Poll, Finish, Enqueue, Expire, Dequeue, DequeueNothing, DequeueFails,
             RemoveMessage, RemoveRejected, RemoveFails, Crash, Remove, VisibilityTimeout,
             PrematureTimeout, BecomeVisible, queueVars
  <1>4. ASSUME NEW w \in Workers, Outcome(w)
        PROVE  sends'[m] = 0 /\ dequeueCount'[m] = 0
    <2>1. UNCHANGED dequeueCount /\ ServerGot(w)
      BY <1>4, OutcomeFacts
    <2>2. held[w].id # m
      <3>1. held[w] \in QueueMessage /\ held[w] # NoMessage
        BY <1>4, OutcomeFacts, NoMessageAssumption
      <3>2. held[w].dequeueCount <= dequeueCount[held[w].id]
        BY <3>1 DEF CountInv, LoopInv, ReceiptsIssued
      <3>3. QED
        BY <1>2, <3>1, <3>2 DEF QueueMessage
    <2>3. sends'[m] = sends[m]
      BY <2>1, <2>2 DEF ServerGot, CountInv, SendsTypeOK
    <2>4. QED
      BY <1>2, <2>1, <2>3
  <1>5. CASE UNCHANGED vars
    BY <1>2, <1>5 DEF vars, queueVars
  <1>6. QED
    BY <1>3, <1>4, <1>5 DEF Next, Outcome

LEMMA CountInit == Init => CountInv
  <1> SUFFICES ASSUME Init PROVE CountInv
    OBVIOUS
  <1>1. LoopInv /\ SendsTypeOK /\ NoneBeforeSent
    BY LoopInit DEF Init, QueueInit, SendsTypeOK, NoneBeforeSent
  <1>2. ASSUME NEW m \in Messages PROVE PaidFor(m)
    <2>1. Sending(m) = {}
      BY DEF Init, ConsumerInit, Sending
    <2>2. IsFiniteSet(Sending(m)) /\ Cardinality(Sending(m)) = 0
      BY <2>1, FS_EmptySet
    <2>3. sends[m] = 0 /\ mishaps[m] = 0 /\ Share(m) = 0
      BY DEF Init, QueueInit, Share, Obtainable
    <2>4. QED
      BY <2>2, <2>3 DEF PaidFor
  <1>3. QED
    BY <1>1, <1>2 DEF CountInv, AllPaidFor

LEMMA CountPreserved == CountInv /\ Inv /\ Inv' /\ [Next]_vars => CountInv'
  <1> SUFFICES ASSUME CountInv, Inv, Inv', [Next]_vars PROVE CountInv'
    OBVIOUS
  <1>1. LoopInv' /\ SendsTypeOK' /\ NoneBeforeSent'
    BY NoneBeforeSentPreserved DEF Inv
  <1>2. ASSUME NEW m \in Messages PROVE PaidFor(m)'
    <2>1. CASE LoopStep /\ UNCHANGED sends
      <3>1. CASE \E n \in Messages : /\ UNCHANGED consumerVars
                                     /\ \/ Enqueue(n) \/ Expire(n)
                                        \/ VisibilityTimeout(n) \/ PrematureTimeout(n)
                                        \/ HandOut({n}) /\ Mishap({n})
        BY <1>1, <2>1, <3>1, QueueStepPaidFor
      <3>2. CASE \E w \in Workers, n \in Messages : Dequeue(w, n)
        BY <1>1, <2>1, <3>2, DequeuePaidFor
      <3>3. CASE \E w \in Workers : Finish(w) \/ RemoveFails(w) \/ Crash(w)
        BY <1>1, <2>1, <3>3, EndPaidFor
      <3>4. CASE \E w \in Workers : DequeueNothing(w)
        <4>1. UNCHANGED <<queued, invisible, dequeueCount, mishaps, pc, held, sends>>
          BY <2>1, <3>4 DEF DequeueNothing, queueVars
        <4>2. Sending(m)' = Sending(m) /\ Share(m)' = Share(m)
          BY <4>1 DEF Sending, Share, Obtainable, Visible, InHand
        <4>3. QED
          BY <4>1, <4>2 DEF PaidFor, CountInv, AllPaidFor
      <3>5. QED
        BY <2>1, <3>1, <3>2, <3>3, <3>4
           DEF LoopStep, Poll, DequeueFails, VisibilityTimeout, PrematureTimeout
    <2>2. CASE \E w \in Workers : Outcome(w)
      BY <1>1, <2>2, OutcomePaidFor
    <2>3. CASE UNCHANGED vars
      <3>1. UNCHANGED <<queued, invisible, dequeueCount, mishaps, pc, held, sends>>
        BY <2>3 DEF vars, queueVars, consumerVars
      <3>2. Sending(m)' = Sending(m) /\ Share(m)' = Share(m)
        BY <3>1 DEF Sending, Share, Obtainable, Visible, InHand
      <3>3. QED
        BY <3>1, <3>2 DEF PaidFor, CountInv, AllPaidFor
    <2>4. QED
      BY <2>1, <2>2, <2>3 DEF Next, Outcome
  <1>3. QED
    BY <1>1, <1>2 DEF CountInv, AllPaidFor

\* A recipient's further copies of a mail are paid for by that mail's mishaps.
THEOREM DuplicatesArePaidFor == Spec => []DuplicatesNeedMishaps
  <1>1. CountInv => DuplicatesNeedMishaps
    <2> SUFFICES ASSUME CountInv, NEW m \in Messages PROVE sends[m] <= 1 + mishaps[m]
      BY DEF DuplicatesNeedMishaps
    <2>1. PaidFor(m) /\ sends[m] \in Nat /\ mishaps[m] \in Nat
      BY PaidForTyped DEF CountInv, AllPaidFor
    <2>2. Cardinality(Sending(m)) \in Nat /\ Share(m) \in Nat
      BY <2>1, FS_CardinalityType DEF PaidFor, Share
    <2>3. QED
      BY <2>1, <2>2 DEF PaidFor
  <1>2. Spec => []CountInv
    BY CountInit, CountPreserved, Invariant, PTL DEF Spec
  <1>3. QED
    BY <1>1, <1>2, PTL
=============================================================================
