----------------------------- MODULE AtLeastOnce -----------------------------
(***************************************************************************)
(* What a queue with a consumer promises its producers, told without       *)
(* workers, receipts or timeouts: an accepted message is attempted again   *)
(* and again until it is done, and it is done only once the effect it asks *)
(* for has happened or a fixed number of attempts was spent on it.  One    *)
(* that is too old is forgotten.                                           *)
(***************************************************************************)
EXTENDS Naturals

CONSTANTS Messages, GiveUpAt

VARIABLES accepted, done, effected, attempts, expired

vars == <<accepted, done, effected, attempts, expired>>

Open == accepted \ (done \cup expired)

Init == /\ accepted = {}
        /\ done = {}
        /\ effected = {}
        /\ attempts = [m \in Messages |-> 0]
        /\ expired = {}

Accept(m) == /\ m \notin accepted
             /\ accepted' = accepted \cup {m}
             /\ UNCHANGED <<done, effected, attempts, expired>>

\* A message that is done or forgotten is never attempted again.
Attempt(m) == /\ m \in Open
              /\ attempts' = [attempts EXCEPT ![m] = @ + 1]
              /\ UNCHANGED <<accepted, done, effected, expired>>

\* The effect comes only of an attempt; an attempt may bring it about late,
\* after another one finished the message.
Effect(m) == /\ attempts[m] > 0
             /\ effected' = effected \cup {m}
             /\ UNCHANGED <<accepted, done, attempts, expired>>

Complete(m) == /\ m \in Open
               /\ m \in effected \/ attempts[m] >= GiveUpAt
               /\ done' = done \cup {m}
               /\ UNCHANGED <<accepted, effected, attempts, expired>>

Expire(m) == /\ m \in Open
             /\ expired' = expired \cup {m}
             /\ UNCHANGED <<accepted, done, effected, attempts>>

Next == \E m \in Messages : \/ Accept(m) \/ Attempt(m) \/ Effect(m)
                            \/ Complete(m) \/ Expire(m)

Spec == Init /\ [][Next]_vars
=============================================================================
