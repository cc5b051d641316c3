------------------- MODULE TrenEnEstacionReduceDuplicates -------------------
(***************************************************************************)
(* TrenEnEstacionReduceDuplicates.cs: the consumer that turns reported     *)
(* arrivals of trains (queue trenenestacion, fed by LiveTrenController at  *)
(* every scrape) into clean ones (queue trenenestacionclean).              *)
(***************************************************************************)
EXTENDS MessageBlockPollQueueConsumer

CONSTANT Arrival  \* of each message: its train (Key, Vuelta, Estacion) and Time

ASSUME ArrivalAssumption == \A m \in Messages : Arrival[m].time \in Nat

VARIABLES toEmit,  \* cleanList: the positions in the block not yet gone through
          next,    \* the position in the block the removal's loop is at
          emitted  \* history: how often each arrival was enqueued as clean

progressVars == <<toEmit, next>>
vars == <<queueVars, consumerVars, progressVars, emitted>>

TypeOK == /\ QueueTypeOK
          /\ pc \in [Workers -> {"poll", "start", "emit", "remove"}]
          /\ block \in [Workers -> Seq(QueueMessage)]
          /\ interval \in [Workers -> Nat]
          /\ spoiled \subseteq sent \ Unreadable
          /\ toEmit \in [Workers -> SUBSET Nat]
          /\ next \in [Workers -> Nat \ {0}]
          /\ emitted \in [Messages -> Nat]
          /\ \A w \in Workers :
                /\ pc[w] = "poll" <=> block[w] = <<>>
                /\ toEmit[w] \subseteq DOMAIN block[w]
                /\ toEmit[w] # {} => pc[w] = "emit"
                /\ next[w] # 1 => pc[w] = "remove"

Init == /\ QueueInit
        /\ ConsumerInit
        /\ toEmit = [w \in Workers |-> {}]
        /\ next = [w \in Workers |-> 1]
        /\ emitted = [m \in Messages |-> 0]

-----------------------------------------------------------------------------
(* TrenEnEstacionCompare and Enumerable.Distinct. *)

FiveMinutes == 300

\* Equals(x, y): the same train at the same station, less than five minutes
\* later; not the absolute difference.
Equals(x, y) == /\ Arrival[x.id].train = Arrival[y.id].train
                /\ Arrival[x.id].time - Arrival[y.id].time < FiveMinutes

\* GetHashCode(codeh) is codeh.GetHashCode(), which TrenEnEstacion inherits from
\* Object: the object's identity, and every message is an object of its own.
HashCode(x) == x.id

\* Mutants: the filter off by one either way.
FirstDelivery_OrSecond(d) == d.dequeueCount <= 2
FirstDelivery_Never(d) == d.dequeueCount < 1

FirstDelivery(d) == d.dequeueCount <= 1

\* Where(FirstDelivery).Distinct(comparer): an element stays unless one before it
\* that stayed has its hash code and equals it.
CleanList(ds) ==
    CHOOSE kept \in SUBSET DOMAIN ds :
        \A i \in DOMAIN ds :
            i \in kept <=> /\ FirstDelivery(ds[i])
                           /\ ~\E j \in kept : /\ j < i
                                               /\ HashCode(ds[j]) = HashCode(ds[i])
                                               /\ Equals(ds[j], ds[i])

-----------------------------------------------------------------------------
\* The top of ProcessMessagesGroup: cleanList is computed.
Start(w) == /\ pc[w] = "start"
            /\ pc' = [pc EXCEPT ![w] = "emit"]
            /\ toEmit' = [toEmit EXCEPT ![w] = CleanList(block[w])]
            /\ UNCHANGED <<queueVars, block, interval, spoiled, next, emitted>>

\* The first of the positions left.
IsFirst(w, i) == i \in toEmit[w] /\ \A j \in toEmit[w] : i <= j

\* AzureQueue.Enqueue(new TrenEnEstacionClean...) of the next element.
Emit(w) == /\ pc[w] = "emit"
           /\ \E i \in DOMAIN block[w] :
                 /\ IsFirst(w, i)
                 /\ emitted' = [emitted EXCEPT ![block[w][i].id] = @ + 1]
                 /\ toEmit' = [toEmit EXCEPT ![w] = @ \ {i}]
           /\ UNCHANGED <<queueVars, consumerVars, next>>

\* The list is through: messagesRemover.RemoveProcessedMessages(queueMessages).
StartRemoving(w) == /\ pc[w] = "emit" /\ toEmit[w] = {}
                    /\ pc' = [pc EXCEPT ![w] = "remove"]
                    /\ UNCHANGED <<queueVars, block, interval, spoiled, progressVars, emitted>>

Removing(w) == pc[w] = "remove" /\ next[w] \in DOMAIN block[w]

\* One turn of Remove's foreach.
RemoveNext(w) == /\ Removing(w)
                 /\ Remove(block[w][next[w]])
                 /\ next' = [next EXCEPT ![w] = @ + 1]
                 /\ UNCHANGED <<mishaps, consumerVars, toEmit, emitted>>

Return(w) == /\ pc[w] = "remove" /\ next[w] \notin DOMAIN block[w]
             /\ EndIteration(w)
             /\ next' = [next EXCEPT ![w] = 1]
             /\ UNCHANGED <<queueVars, toEmit, emitted>>

\* Mutant: the next iteration inherits the list.
Abandon_KeepsList(w) == /\ EndIteration(w)
                        /\ next' = [next EXCEPT ![w] = 1]
                        /\ UNCHANGED <<sent, queued, invisible, dequeueCount, expired, toEmit>>

\* An exception leaves ProcessMessagesGroup with the rest of its work undone.
Abandon(w) == /\ EndIteration(w)
              /\ toEmit' = [toEmit EXCEPT ![w] = {}]
              /\ next' = [next EXCEPT ![w] = 1]
              /\ UNCHANGED <<sent, queued, invisible, dequeueCount, expired>>

\* A clean message could not be enqueued, or was but the answer got lost.
EmitFails(w) == /\ pc[w] = "emit"
                /\ \E i \in DOMAIN block[w] :
                      /\ IsFirst(w, i)
                      /\ emitted' \in {emitted, [emitted EXCEPT ![block[w][i].id] = @ + 1]}
                /\ Mishap(IdsFrom(w, 1))
                /\ Abandon(w)

\* Mutant: a refused delete is tried again until it succeeds.
RemoveRejected_Retries(w) == /\ Removing(w)
                             /\ ~Accepts(block[w][next[w]])
                             /\ UNCHANGED vars

\* A delete is refused because the receipt is stale: the messages after it in
\* the block are not removed either.
RemoveRejected(w) == /\ Removing(w)
                     /\ ~Accepts(block[w][next[w]])
                     /\ Abandon(w)
                     /\ UNCHANGED <<mishaps, emitted>>

\* A delete could not be sent.
RemoveFails(w) == /\ Removing(w)
                  /\ Mishap(IdsFrom(w, next[w]))
                  /\ Abandon(w)
                  /\ UNCHANGED emitted

-----------------------------------------------------------------------------
ProcessMessagesGroup(w) == \/ Start(w) \/ Emit(w) \/ StartRemoving(w)
                           \/ RemoveNext(w) \/ RemoveRejected(w) \/ Return(w)

PollStep(w) == Poll(w) /\ UNCHANGED <<progressVars, emitted>>

TimesOut(m) == VisibilityTimeout(m) /\ UNCHANGED <<progressVars, emitted>>

GrowsOld(m) == Expire(m) /\ UNCHANGED <<consumerVars, progressVars, emitted>>

Next == \/ \E m \in Messages : \/ TimesOut(m) \/ GrowsOld(m)
                               \/ /\ Enqueue(m) \/ PrematureTimeout(m)
                                  /\ UNCHANGED <<consumerVars, progressVars, emitted>>
        \/ \E w \in Workers : \/ PollStep(w) \/ ProcessMessagesGroup(w)
                              \/ EmitFails(w) \/ RemoveFails(w)
                              \/ /\ DequeueAnswerLost(w) \/ DequeueUnreadable(w)
                                 /\ UNCHANGED <<progressVars, emitted>>
                              \/ /\ Crash(w)
                                 /\ toEmit' = [toEmit EXCEPT ![w] = {}]
                                 /\ next' = [next EXCEPT ![w] = 1]
                                 /\ UNCHANGED emitted

Spec == Init /\ [][Next]_vars

FairSpec == /\ Spec
            /\ \A w \in Workers : WF_vars(PollStep(w)) /\ WF_vars(ProcessMessagesGroup(w))
            /\ \A m \in Messages : WF_vars(TimesOut(m))
            /\ \A m \in Unreadable : WF_vars(GrowsOld(m))

-----------------------------------------------------------------------------
(* Correctness. *)

\* However often an arrival is delivered, to however many workers, it becomes at
\* most one clean message: only the first delivery emits.
EmittedAtMostOnce == \A m \in Messages : emitted[m] <= 1

\* The price: an arrival can be deleted without having been emitted, but only if
\* a mishap hit it or its block, or it came in one block with a message that does
\* not deserialize: the only harm such a message does to the others.  Nothing is
\* lost in a quiet run, and an aborted removal of others loses nothing.
LossNeedsMishap == \A m \in Deleted : emitted[m] > 0 \/ mishaps[m] > 0 \/ m \in spoiled

\* Every reported arrival leaves the queue, through blocks whose removal is
\* refused half-way too, and although no block with an unreadable message in it
\* can be processed: that message's age is all that ends the blockade.
EveryArrivalLeaves == \A m \in Messages : m \in sent ~> m \notin queued

\* The consumer keeps the promise of AtMostOnce: an arrival is done when it is
\* deleted, and hindered when LossNeedsMishap would excuse its loss.
Hindered == {m \in Messages : mishaps[m] > 0 \/ m \in spoiled}
Promise == INSTANCE AtMostOnce WITH accepted <- sent, done <- Deleted, hindered <- Hindered
KeepsPromise == Promise!Spec

\* What the comparer says (TrenEnEstacionReduceDuplicates.cs:58, "//5 mins") the
\* class is for: no block emits two reports of a train at a station less than
\* five minutes apart.  The hash code is the object's identity, so Distinct
\* never compares two of them.
NoDuplicatesInBlock ==
    \A w \in Workers : \A i, j \in toEmit[w] :
        i < j => ~Equals(block[w][i], block[w][j])
=============================================================================
