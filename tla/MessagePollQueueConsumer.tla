---------------------- MODULE MessagePollQueueConsumer ----------------------
(***************************************************************************)
(* MessagePollQueueConsumer.cs: the endless loop of a thread that takes    *)
(* one message at a time, lets the consumer process it, removes it, and    *)
(* adapts how long it sleeps when there is nothing.  Several workers poll  *)
(* the same queue: the role's instances, and whoever runs a consumer by    *)
(* hand beside them.                                                       *)
(*                                                                         *)
(* What Consumer.ProcessMessages does is left to the modules that extend   *)
(* this one: they use Returns and Throws for its two ways out.             *)
(***************************************************************************)
EXTENDS MessageQueue, PollingInterval

CONSTANTS Workers,         \* the polling threads
          Floor, Ceiling,  \* of the frequencer each of them owns
          NoMessage        \* "no message in hand"

ASSUME NoMessageAssumption == NoMessage \notin QueueMessage
ASSUME IntervalAssumption == Floor \in Nat /\ Ceiling \in Nat /\ 2 * Ceiling <= MaxInt

VARIABLES pc,        \* where a worker's loop is
          held,      \* the QueueMessage in its variable "message"
          interval   \* its frequencer's field "current"

consumerVars == <<pc, held, interval>>

Processing(w) == pc[w] = "process"

\* Some worker has the current receipt of m, that is, the delivery still counts.
InHand(m) == \E w \in Workers : /\ held[w] # NoMessage
                                /\ held[w].id = m
                                /\ held[w].dequeueCount = dequeueCount[m]

ConsumerTypeOK == /\ pc \in [Workers -> {"poll", "process", "remove"}]
                  /\ held \in [Workers -> QueueMessage \cup {NoMessage}]
                  /\ interval \in [Workers -> Nat]
                  /\ \A w \in Workers : pc[w] = "poll" <=> held[w] = NoMessage

ConsumerInit == /\ pc = [w \in Workers |-> "poll"]
                /\ held = [w \in Workers |-> NoMessage]
                /\ interval = [w \in Workers |-> Floor]

-----------------------------------------------------------------------------
\* message = queue.Dequeue(), and there was one.
Dequeue(w, m) == /\ pc[w] = "poll"
                 /\ m \notin Unreadable
                 /\ HandOut({m})
                 /\ held' = [held EXCEPT ![w] = Delivery(m)]
                 /\ pc' = [pc EXCEPT ![w] = "process"]
                 /\ UNCHANGED <<mishaps, interval>>

\* There was none: Thread.Sleep(frequencer.Current).
DequeueNothing(w) == /\ pc[w] = "poll"
                     /\ Visible = {}
                     /\ interval' = [interval EXCEPT ![w] = AfterRead(@, Ceiling)]
                     /\ UNCHANGED <<queueVars, pc, held>>

\* The service handed m out and Dequeue threw all the same, because the answer
\* got lost or the content does not deserialize: the outer catch logs and sleeps
\* five seconds.  (A failure before the hand-out changes nothing.)
DequeueFails(w, m) == /\ pc[w] = "poll"
                      /\ HandOut({m})
                      /\ Mishap({m})
                      /\ UNCHANGED consumerVars

\* Mutant: the message variable outlives its iteration.
EndIteration_KeepsMessage(w) ==
    /\ pc' = [pc EXCEPT ![w] = "poll"]
    /\ held' = held
    /\ interval' = [interval EXCEPT ![w] = AfterDecrease(@, Floor, TRUE)]

\* The end of an iteration that had a message: the finally block.
EndIteration(w) == /\ pc' = [pc EXCEPT ![w] = "poll"]
                   /\ held' = [held EXCEPT ![w] = NoMessage]
                   /\ interval' = [interval EXCEPT ![w] = AfterDecrease(@, Floor, TRUE)]

\* ProcessMessages returned: queue.Remove(message) is next.
Returns(w) == /\ Processing(w)
              /\ pc' = [pc EXCEPT ![w] = "remove"]
              /\ UNCHANGED <<queueVars, held, interval>>

\* Mutant: no catch around the iteration, so that the exception ends the thread.
Throws_EndsThread(w) == /\ Processing(w)
                        /\ pc' = [pc EXCEPT ![w] = "ended"]
                        /\ held' = [held EXCEPT ![w] = NoMessage]
                        /\ UNCHANGED <<queueVars, interval>>

\* ProcessMessages threw: logged, and the message stays where it is.
Throws(w) == /\ Processing(w)
             /\ EndIteration(w)
             /\ UNCHANGED queueVars

\* queue.Remove(message) does what it says...
RemoveMessage(w) == /\ pc[w] = "remove"
                    /\ Remove(held[w])
                    /\ EndIteration(w)
                    /\ UNCHANGED mishaps

\* ...or throws, because the receipt is no longer the one the service accepts...
RemoveRejected(w) == /\ pc[w] = "remove"
                     /\ ~Accepts(held[w])
                     /\ EndIteration(w)
                     /\ UNCHANGED queueVars

\* ...or because the service could not be reached.
RemoveFails(w) == /\ pc[w] = "remove"
                  /\ Mishap({held[w].id})
                  /\ EndIteration(w)
                  /\ UNCHANGED <<sent, queued, invisible, dequeueCount, expired>>

-----------------------------------------------------------------------------
(* The environment. *)

\* Nobody will remove m with this receipt any more: its timeout brings it back.
VisibilityTimeout(m) == /\ ~InHand(m)
                        /\ BecomeVisible(m)
                        /\ UNCHANGED <<mishaps, consumerVars>>

\* The timeout fires while a slow worker still has m in hand.
PrematureTimeout(m) == /\ InHand(m)
                       /\ BecomeVisible(m)
                       /\ Mishap({m})
                       /\ UNCHANGED consumerVars

\* The worker's process dies; its successor starts with a new frequencer.
Crash(w) == /\ IF held[w] = NoMessage THEN UNCHANGED mishaps
                                      ELSE Mishap({held[w].id})
            /\ pc' = [pc EXCEPT ![w] = "poll"]
            /\ held' = [held EXCEPT ![w] = NoMessage]
            /\ interval' = [interval EXCEPT ![w] = Floor]
            /\ UNCHANGED <<sent, queued, invisible, dequeueCount, expired>>

-----------------------------------------------------------------------------
\* What a worker does by itself around ProcessMessages when nothing goes wrong.
Poll(w) == DequeueNothing(w) \/ \E m \in Messages : Dequeue(w, m)
Finish(w) == RemoveMessage(w) \/ RemoveRejected(w)

\* Every step of the loop, of the queue and of the environment but processing.
LoopStep == \/ \E m \in Messages : Enqueue(m) /\ UNCHANGED consumerVars
            \/ \E m \in Messages : Expire(m) /\ UNCHANGED consumerVars
            \/ \E w \in Workers : Poll(w) \/ Finish(w) \/ RemoveFails(w) \/ Crash(w)
            \/ \E w \in Workers, m \in Messages : DequeueFails(w, m)
            \/ \E m \in Messages : VisibilityTimeout(m) \/ PrematureTimeout(m)
=============================================================================
