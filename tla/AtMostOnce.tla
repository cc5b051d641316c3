----------------------------- MODULE AtMostOnce -----------------------------
(***************************************************************************)
(* What the consumer of the arrivals promises, told without workers,       *)
(* blocks, receipts or timeouts: an accepted arrival is emitted at most    *)
(* once, and is finished with unemitted only if something hindered it.     *)
(* What hinders a block hinders all the arrivals in it at once, and may    *)
(* strike while one of them is being emitted, whether that one gets        *)
(* through or not.  An arrival that is too old is forgotten.               *)
(***************************************************************************)
EXTENDS Naturals

CONSTANT Messages

VARIABLES accepted, done, emitted, hindered, expired

vars == <<accepted, done, emitted, hindered, expired>>

Open == accepted \ (done \cup expired)

Init == /\ accepted = {}
        /\ done = {}
        /\ emitted = [m \in Messages |-> 0]
        /\ hindered = {}
        /\ expired = {}

Accept(m) == /\ m \notin accepted
             /\ accepted' = accepted \cup {m}
             /\ UNCHANGED <<done, emitted, hindered, expired>>

Hinder(ms) == /\ ms \subseteq accepted
              /\ hindered' = hindered \cup ms
              /\ UNCHANGED <<accepted, done, emitted, expired>>

\* The emission may come late, after the arrival was finished with or forgotten.
Emit(m, ms) == /\ m \in accepted /\ ms \subseteq accepted
               /\ emitted[m] = 0
               /\ emitted' = [emitted EXCEPT ![m] = 1]
               /\ hindered' = hindered \cup ms
               /\ UNCHANGED <<accepted, done, expired>>

Finish(m) == /\ m \in Open
             /\ emitted[m] = 1 \/ m \in hindered
             /\ done' = done \cup {m}
             /\ UNCHANGED <<accepted, emitted, hindered, expired>>

Forget(m) == /\ m \in Open
             /\ expired' = expired \cup {m}
             /\ UNCHANGED <<accepted, done, emitted, hindered>>

Next == \/ \E m \in Messages : Accept(m) \/ Finish(m) \/ Forget(m)
        \/ \E ms \in SUBSET accepted : Hinder(ms) \/ \E m \in accepted : Emit(m, ms)

Spec == Init /\ [][Next]_vars
=============================================================================
