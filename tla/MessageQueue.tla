---------------------------- MODULE MessageQueue ----------------------------
(***************************************************************************)
(* MessageQueue.cs over an Azure storage queue.                            *)
(*                                                                         *)
(* The storage service is external.  What the code relies on: a message    *)
(* handed out by Dequeue stays in the queue but is invisible until its     *)
(* visibility timeout; every hand-out counts (DequeueCount) and issues a   *)
(* new PopReceipt, the only one DeleteMessage then accepts.  A receipt is  *)
(* therefore identified with the DequeueCount it came with.  A message     *)
(* nobody deleted for seven days expires.                                  *)
(*                                                                         *)
(* Unreadable messages are those whose content DeserializeObjectFromString *)
(* refuses: written by another version of the message's class, or by hand. *)
(*                                                                         *)
(* A mishap is an event of the environment the code has no say in: a lost  *)
(* response, a crash, a call that fails, a timeout that fires while the    *)
(* message is still being worked on.  mishaps[m] counts those that befell  *)
(* message m, at most MaxMishaps of them.                                  *)
(***************************************************************************)
EXTENDS Naturals, FiniteSets

CONSTANTS Messages,    \* the message identities the service will give out
          Unreadable,  \* those whose content does not deserialize
          MaxMishaps   \* bound on the mishaps of one message

ASSUME UnreadableAssumption == Unreadable \subseteq Messages
ASSUME MaxMishapsAssumption == MaxMishaps \in Nat

VARIABLES sent,          \* messages some producer enqueued
          queued,        \* of these, the ones not yet deleted
          invisible,     \* of these, the ones handed out and not timed out
          dequeueCount,  \* hand-outs so far: DequeueCount and PopReceipt
          expired,       \* history: messages the service dropped for their age
          mishaps

queueVars == <<sent, queued, invisible, dequeueCount, expired, mishaps>>

Visible == queued \ invisible

\* The messages some consumer deleted.
Deleted == sent \ (queued \cup expired)

\* QueueMessage<TMessage>: what the consumer keeps of a hand-out.
QueueMessage == [id : Messages, dequeueCount : Nat \ {0}]

QueueTypeOK == /\ sent \subseteq Messages
               /\ queued \subseteq sent
               /\ invisible \subseteq queued
               /\ dequeueCount \in [Messages -> Nat]
               /\ expired \subseteq sent \ queued
               /\ mishaps \in [Messages -> Nat]

QueueInit == /\ sent = {}
             /\ queued = {}
             /\ invisible = {}
             /\ dequeueCount = [m \in Messages |-> 0]
             /\ expired = {}
             /\ mishaps = [m \in Messages |-> 0]

-----------------------------------------------------------------------------
\* The caller's message is a new one: AddMessage gives every call a fresh id.
Enqueue(m) == /\ m \notin sent
              /\ sent' = sent \cup {m}
              /\ queued' = queued \cup {m}
              /\ UNCHANGED <<invisible, dequeueCount, expired, mishaps>>

\* GetMessage / GetMessages hand out the messages of the set ms.
HandOut(ms) ==
    /\ ms \subseteq Visible
    /\ invisible' = invisible \cup ms
    /\ dequeueCount' = [m \in Messages |->
                          IF m \in ms THEN dequeueCount[m] + 1 ELSE dequeueCount[m]]
    /\ UNCHANGED <<sent, queued, expired>>

\* The hand-outs of the set ms as QueueMessages, at the counts they leave with.
Delivery(m) == [id |-> m, dequeueCount |-> dequeueCount[m] + 1]

\* DeleteMessage(Id, PopReceipt): the service accepts the last receipt issued,
\* even after its timeout, as long as nobody was handed the message since.
Accepts(d) == d.id \in queued /\ d.dequeueCount = dequeueCount[d.id]

Remove(d) == /\ Accepts(d)
             /\ queued' = queued \ {d.id}
             /\ invisible' = invisible \ {d.id}
             /\ UNCHANGED <<sent, dequeueCount, expired>>

\* The visibility timeout of m runs out.
BecomeVisible(m) == /\ m \in invisible
                    /\ invisible' = invisible \ {m}
                    /\ UNCHANGED <<sent, queued, dequeueCount, expired>>

\* Its seven days are over.
Expire(m) == /\ m \in queued
             /\ queued' = queued \ {m}
             /\ invisible' = invisible \ {m}
             /\ expired' = expired \cup {m}
             /\ UNCHANGED <<sent, dequeueCount, mishaps>>

\* One more mishap befalls every message of the set ms.
Mishap(ms) == /\ \A m \in ms : mishaps[m] < MaxMishaps
              /\ mishaps' = [m \in Messages |->
                               IF m \in ms THEN mishaps[m] + 1 ELSE mishaps[m]]
=============================================================================
