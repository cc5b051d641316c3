-------------------------- MODULE ApiAccessLogSaver --------------------------
(***************************************************************************)
(* The access log: AccessLogHandler enqueues one ApiAccessLog per request, *)
(* ApiAccessLogSaver inserts it as a row of table storage and lets the     *)
(* polling loop remove it.  DenunciaPreciosSaver is the same code over     *)
(* another message type.                                                   *)
(***************************************************************************)
EXTENDS MessagePollQueueConsumer

CONSTANT PoisonLimit  \* deliveries after which a message is let go (100)

ASSUME PoisonLimitAssumption == PoisonLimit \in Nat

VARIABLE rows  \* the keys in the table ApiAccessLogData

vars == <<queueVars, consumerVars, rows>>

\* Mutant: a row of its own for every delivery.
RowKey_PerDelivery(d) == <<d.id, d.dequeueCount>>

\* ApiAccessLogData's PartitionKey and RowKey: the request's instant, which is
\* the message's own, and the message's id; both the same at every delivery.
RowKey(d) == <<d.id>>

RowSaved(m) == \E r \in rows : r[1] = m

RowsTypeOK == rows \subseteq {RowKey(d) : d \in [id : Messages, dequeueCount : 1 .. PoisonLimit]}

TypeOK == QueueTypeOK /\ ConsumerTypeOK /\ RowsTypeOK

Init == QueueInit /\ ConsumerInit /\ rows = {}

-----------------------------------------------------------------------------
\* ProcessMessages, for a message delivered too often: return at once.
LetGo(w) == /\ Returns(w)
            /\ held[w].dequeueCount > PoisonLimit
            /\ UNCHANGED rows

\* _tablePersister.Add, a TableOperation.Insert, of a row that is not there...
AddRow(w) == /\ Returns(w)
             /\ held[w].dequeueCount <= PoisonLimit
             /\ RowKey(held[w]) \notin rows
             /\ rows' = rows \cup {RowKey(held[w])}

\* ...which an insert refuses when an earlier delivery put it there...
AddConflicts(w) == /\ Throws(w)
                   /\ held[w].dequeueCount <= PoisonLimit
                   /\ RowKey(held[w]) \in rows
                   /\ UNCHANGED rows

\* Mutant: the failure of an insert is swallowed.
AddFails_Swallowed(w) == /\ Returns(w)
                         /\ held[w].dequeueCount <= PoisonLimit
                         /\ rows' \in {rows, rows \cup {RowKey(held[w])}}

\* ...and which may fail on the way there or on the way back.
AddFails(w) == /\ Throws(w)
               /\ held[w].dequeueCount <= PoisonLimit
               /\ rows' \in {rows, rows \cup {RowKey(held[w])}}

ProcessMessages(w) == LetGo(w) \/ AddRow(w) \/ AddConflicts(w) \/ AddFails(w)

Next == \/ LoopStep /\ UNCHANGED rows
        \/ \E w \in Workers : ProcessMessages(w)

\* A worker's thread keeps running, the service's clock too; nothing makes a
\* request, a failure or a crash happen.
Fairness == /\ \A w \in Workers : /\ WF_vars(Poll(w) /\ UNCHANGED rows)
                                  /\ WF_vars(ProcessMessages(w))
                                  /\ WF_vars(Finish(w) /\ UNCHANGED rows)
            /\ \A m \in Messages : WF_vars(VisibilityTimeout(m) /\ UNCHANGED rows)
            /\ \A m \in Unreadable : WF_vars(Expire(m) /\ UNCHANGED <<consumerVars, rows>>)

Spec == Init /\ [][Next]_vars
FairSpec == Spec /\ Fairness

-----------------------------------------------------------------------------
(* Correctness. *)

\* A message is gone from the queue only when its row is in the table, it was
\* delivered over PoisonLimit times or it expired, whatever crashed, failed or timed out on
\* the way, and however many workers had it in hand at once.
NothingDroppedUnsaved ==
    \A m \in Deleted : RowSaved(m) \/ dequeueCount[m] > PoisonLimit

\* However often a message is delivered, to however many workers, the table
\* holds at most one row of it.
OneRowPerMessage == \A r, s \in rows : r[1] = s[1] => r = s

\* Every message the handler enqueued leaves the queue in the end, the poisoned
\* ones too: those whose row is there while their removal failed conflict at
\* each delivery until PoisonLimit lets them go.
EveryMessageLeaves == \A m \in Messages : m \in sent ~> m \notin queued

\* The saver keeps the promise of AtLeastOnce: attempts are deliveries, the
\* effect is the row, a message is done when it is deleted.
Promise == INSTANCE AtLeastOnce WITH
             GiveUpAt <- PoisonLimit + 1,
             accepted <- sent,
             done <- Deleted,
             effected <- {m \in Messages : RowSaved(m)},
             attempts <- dequeueCount
KeepsPromise == Promise!Spec

\* What IPersister.Add's documentation says (IPersister.cs:14): "Save a new
\* instance or, Update and existing one", so that adding a row that is already
\* there does not fail.  TablePersister inserts.
AddUpdatesExisting == [][\A w \in Workers : ~AddConflicts(w)]_vars
=============================================================================
