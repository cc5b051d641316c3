------------------------- MODULE MailsMessagesSender -------------------------
(***************************************************************************)
(* MailsMessagesSender.cs: the consumer that sends the queued mails        *)
(* through the mail server and gives up a mail that keeps failing.         *)
(***************************************************************************)
EXTENDS MessagePollQueueConsumer

CONSTANT GiveUpAt  \* the delivery whose failure is no longer rethrown (20)

ASSUME GiveUpAtAssumption == GiveUpAt \in Nat \ {0}

VARIABLE sends  \* how often the mail server accepted each mail

vars == <<queueVars, consumerVars, sends>>

TypeOK == QueueTypeOK /\ ConsumerTypeOK /\ sends \in [Messages -> Nat]

Init == QueueInit /\ ConsumerInit /\ sends = [m \in Messages |-> 0]

-----------------------------------------------------------------------------
\* Mutant: an exception after the mail was sent, such as a failing log call.
Send_ThenThrows(w) == /\ Throws(w)
                      /\ sends' = [sends EXCEPT ![held[w].id] = @ + 1]

\* mailSender.Send(mailMessage) succeeds.
Send(w) == /\ Returns(w)
           /\ sends' = [sends EXCEPT ![held[w].id] = @ + 1]

\* It fails (no server, a refused or malformed mail): the catch rethrows early
\* deliveries to keep the mail in the queue...
SendFails(w) == /\ Throws(w)
                /\ held[w].dequeueCount < GiveUpAt
                /\ UNCHANGED sends

\* Mutant: every failure is swallowed.
SendGivenUp_AtOnce(w) == Returns(w) /\ UNCHANGED sends

\* ...and swallows the failure of later ones, so that the loop removes the mail.
SendGivenUp(w) == /\ Returns(w)
                  /\ held[w].dequeueCount >= GiveUpAt
                  /\ UNCHANGED sends

\* The server accepted the mail but the sender saw an exception.
SendAnswerLost(w) ==
    /\ Processing(w)
    /\ sends' = [sends EXCEPT ![held[w].id] = @ + 1]
    /\ Mishap({held[w].id})
    /\ IF held[w].dequeueCount < GiveUpAt
       THEN EndIteration(w)
       ELSE pc' = [pc EXCEPT ![w] = "remove"] /\ UNCHANGED <<held, interval>>
    /\ UNCHANGED <<sent, queued, invisible, dequeueCount, expired>>

ProcessMessages(w) == Send(w) \/ SendFails(w) \/ SendGivenUp(w)

Next == \/ LoopStep /\ UNCHANGED sends
        \/ \E w \in Workers : ProcessMessages(w) \/ SendAnswerLost(w)

\* As for the access log: threads and the service's clock run; the mail server
\* may fail for ever.
Fairness == /\ \A w \in Workers : /\ WF_vars(Poll(w) /\ UNCHANGED sends)
                                  /\ WF_vars(ProcessMessages(w))
                                  /\ WF_vars(Finish(w) /\ UNCHANGED sends)
            /\ \A m \in Messages : WF_vars(VisibilityTimeout(m) /\ UNCHANGED sends)
            /\ \A m \in Unreadable : WF_vars(Expire(m) /\ UNCHANGED <<consumerVars, sends>>)

Spec == Init /\ [][Next]_vars
FairSpec == Spec /\ Fairness

-----------------------------------------------------------------------------
(* Correctness. *)

\* A mail that left the queue before it expired was sent, or its last delivery was
\* at least the GiveUpAt-th: a stale worker whose earlier delivery failed cannot
\* remove it.
MailSentOrGivenUp ==
    \A m \in Deleted : sends[m] > 0 \/ dequeueCount[m] >= GiveUpAt

\* The recipient gets a mail twice only for a reason outside the code: every
\* further copy is paid for by a mishap of that mail (a timeout while it was in
\* hand, a crash, a lost answer, a failed removal).
DuplicatesNeedMishaps == \A m \in Messages : sends[m] <= 1 + mishaps[m]

\* Even with a mail server that always fails, every mail leaves the queue.
EveryMailLeaves == \A m \in Messages : m \in sent ~> m \notin queued

\* The sender keeps the promise of AtLeastOnce: the effect is a mail accepted.
Promise == INSTANCE AtLeastOnce WITH
             accepted <- sent,
             done <- Deleted,
             effected <- {m \in Messages : sends[m] > 0},
             attempts <- dequeueCount
KeepsPromise == Promise!Spec
=============================================================================
