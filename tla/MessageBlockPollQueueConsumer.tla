-------------------- MODULE MessageBlockPollQueueConsumer --------------------
(***************************************************************************)
(* MessageBlockPollQueueConsumer.cs: the loop of a thread that takes a     *)
(* block of messages at a time and leaves both their processing and their  *)
(* removal to the consumer, which may remove some, all or none of them.    *)
(***************************************************************************)
EXTENDS MessageQueue, PollingInterval, Sequences

CONSTANTS Workers,         \* the polling threads
          BlockSize,       \* what the consumer asks for
          MaxBlock,        \* MaxMessageBlockAllowedByAzure
          Floor, Ceiling   \* of the frequencer each worker owns

ASSUME BlockAssumption == BlockSize \in Nat \ {0} /\ MaxBlock \in Nat \ {0}
ASSUME IntervalAssumption == Floor \in Nat /\ Ceiling \in Nat /\ 2 * Ceiling <= MaxInt

VARIABLES pc,        \* where a worker's loop is
          block,     \* the list "messages" of its iteration
          interval,  \* its frequencer's field "current"
          spoiled    \* history: messages handed out beside an unreadable one

Funs == INSTANCE Functions

loopVars == <<pc, block, interval>>
consumerVars == <<loopVars, spoiled>>

Processing(w) == pc[w] # "poll"

\* The messages of w's block from the i-th one on.
IdsFrom(w, i) == {block[w][j].id : j \in {k \in DOMAIN block[w] : i <= k}}

InHand(m) == \E w \in Workers : \E i \in DOMAIN block[w] :
                block[w][i].id = m /\ block[w][i].dequeueCount = dequeueCount[m]

ConsumerInit == /\ pc = [w \in Workers |-> "poll"]
                /\ block = [w \in Workers |-> <<>>]
                /\ interval = [w \in Workers |-> Floor]
                /\ spoiled = {}

-----------------------------------------------------------------------------
\* What one GetMessages call may return: visible messages in any order, at most
\* BlockSize and at most what the service allows.
Blocks == UNION {Funs!Injection(1 .. n, Visible) :
                    n \in (1 .. BlockSize) \cap (1 .. MaxBlock)}

\* queue.Dequeue(BlockSize).ToList(), and the list has messages.
DequeueBlock(w) ==
    /\ pc[w] = "poll"
    /\ \E ms \in Blocks :
          /\ Funs!Range(ms) \cap Unreadable = {}
          /\ HandOut(Funs!Range(ms))
          /\ block' = [block EXCEPT ![w] = [i \in DOMAIN ms |-> Delivery(ms[i])]]
    /\ pc' = [pc EXCEPT ![w] = "start"]
    /\ UNCHANGED <<mishaps, interval, spoiled>>

\* The list is empty: Thread.Sleep(frequencer.Current).
DequeueNothing(w) == /\ pc[w] = "poll"
                     /\ Visible = {}
                     /\ interval' = [interval EXCEPT ![w] = AfterRead(@, Ceiling)]
                     /\ UNCHANGED <<queueVars, pc, block, spoiled>>

\* A hand-out whose receipts reach nobody.  The code asks of a DequeueCount whether
\* it is the first, the service of a receipt whether it is the last: a message
\* handed out before, its last receipt in nobody's hands, is no different after one
\* more, and the model lets its count stay (or it would grow without bound).
HandOutUnseen(ms) ==
    /\ ms \subseteq Visible
    /\ invisible' = invisible \cup ms
    /\ dequeueCount' = [m \in Messages |->
                          IF m \in ms /\ (dequeueCount[m] = 0 \/ InHand(m))
                          THEN dequeueCount[m] + 1 ELSE dequeueCount[m]]
    /\ UNCHANGED <<sent, queued, expired>>

\* The service handed a block out but the answer never arrived: no mishap for the
\* unreadable messages in it, which no answer brings any further.
DequeueAnswerLost(w) == /\ pc[w] = "poll"
                        /\ \E ms \in Blocks : /\ HandOutUnseen(Funs!Range(ms))
                                              /\ Mishap(Funs!Range(ms) \ Unreadable)
                        /\ UNCHANGED consumerVars

\* One content that does not deserialize makes ToList() throw, at every poll that
\* meets the message: the whole block is lost to this iteration, and its readable
\* messages have used up a delivery.
DequeueUnreadable(w) == /\ pc[w] = "poll"
                        /\ \E ms \in Blocks :
                              /\ Funs!Range(ms) \cap Unreadable # {}
                              /\ HandOutUnseen(Funs!Range(ms))
                              /\ spoiled' = spoiled \cup (Funs!Range(ms) \ Unreadable)
                        /\ UNCHANGED <<mishaps, loopVars>>

\* The end of ProcessMessagesGroup, returning or throwing: the finally block.
EndIteration(w) == /\ pc' = [pc EXCEPT ![w] = "poll"]
                   /\ block' = [block EXCEPT ![w] = <<>>]
                   /\ interval' = [interval EXCEPT ![w] = AfterDecrease(@, Floor, TRUE)]
                   /\ UNCHANGED spoiled

-----------------------------------------------------------------------------
(* The environment. *)

VisibilityTimeout(m) == /\ ~InHand(m)
                        /\ BecomeVisible(m)
                        /\ UNCHANGED <<mishaps, consumerVars>>

PrematureTimeout(m) == /\ InHand(m)
                       /\ BecomeVisible(m)
                       /\ Mishap({m})
                       /\ UNCHANGED consumerVars

\* The worker's process dies in an iteration (between two it loses nothing but
\* its interval); its successor starts with a new frequencer.
Crash(w) == /\ Processing(w)
            /\ Mishap(IdsFrom(w, 1))
            /\ pc' = [pc EXCEPT ![w] = "poll"]
            /\ block' = [block EXCEPT ![w] = <<>>]
            /\ interval' = [interval EXCEPT ![w] = Floor]
            /\ UNCHANGED <<sent, queued, invisible, dequeueCount, expired, spoiled>>

Poll(w) == DequeueBlock(w) \/ DequeueNothing(w)
=============================================================================
