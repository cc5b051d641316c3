---------------------------- MODULE HandlerProofs ----------------------------
(***************************************************************************)
(* Proofs about the two handlers of which one object serves all requests   *)
(* of a route, for any number of requests: AccessLogHandler, and then      *)
(* RedirectRouteHandler.                                                   *)
(***************************************************************************)
EXTENDS AccessLogHandler, RedirectRouteHandler, TLAPS

\* What an undisturbed request can count on while it is inside: nobody else sets
\* up a client, and the field's client is its own, as far as it got with it.
OwnsField(r) ==
    r \in Active =>
        /\ \A s \in SettingUp : s = r
        /\ pc[r] \in {"id", "name"} => telemetry.keyed
        /\ pc[r] = "name" => telemetry.id = r
        /\ pc[r] \notin {"key", "id", "name"} => telemetry = Own(r)

Undisturbed(r) == /\ OwnsField(r)
                  /\ r \notin foreign
                  /\ r \in Handled => r \in logged \cup noticed

IInv == TypeOK /\ \A r \in Requests \ disturbed : Undisturbed(r)

LEMMA InitInv == Init => IInv
BY DEF Init, IInv, TypeOK, Context, Blank, Undisturbed, OwnsField, Active, Handled

LEMMA TypePreserved == TypeOK /\ [Next]_vars => TypeOK'
<1> SUFFICES ASSUME TypeOK, [Next]_vars PROVE TypeOK'
  OBVIOUS
<1> USE DEF TypeOK, Context, Handled
<1>1. ASSUME NEW r \in Requests, NewClient(r) PROVE TypeOK'
  BY <1>1 DEF NewClient, Disturb, Blank, Active
<1>2. ASSUME NEW r \in Requests, SetKey(r) PROVE TypeOK'
  BY <1>2 DEF SetKey
<1>3. ASSUME NEW r \in Requests, SetId(r) PROVE TypeOK'
  BY <1>3 DEF SetId
<1>4. ASSUME NEW r \in Requests, SetName(r) PROVE TypeOK'
  BY <1>4 DEF SetName
<1>5. ASSUME NEW r \in Requests, TrackEvent(r) PROVE TypeOK'
  BY <1>5 DEF TrackEvent, Track
<1>6. ASSUME NEW r \in Requests, Enqueue(r) PROVE TypeOK'
  BY <1>6 DEF Enqueue
<1>7. ASSUME NEW r \in Requests, EnqueueFails(r) PROVE TypeOK'
  BY <1>7 DEF EnqueueFails
<1>8. ASSUME NEW r \in Requests, TrackException(r) PROVE TypeOK'
  BY <1>8 DEF TrackException, Track
<1>9. ASSUME NEW r \in Requests, InnerReturns(r) \/ InnerThrows(r) PROVE TypeOK'
  BY <1>9 DEF InnerReturns, InnerThrows
<1>10. ASSUME NEW r \in Requests, TrackRequest(r) PROVE TypeOK'
  BY <1>10 DEF TrackRequest, Track
<1>11. CASE UNCHANGED vars
  BY <1>11 DEF vars
<1> QED
  BY <1>1, <1>2, <1>3, <1>4, <1>5, <1>6, <1>7, <1>8, <1>9, <1>10, <1>11
     DEF Next, SendAsync, AllEnded

\* Once disturbed, always disturbed; so only requests undisturbed before and
\* after a step need a look.
LEMMA DisturbedGrows == [Next]_vars => disturbed \subseteq disturbed'
BY DEF Next, SendAsync, AllEnded, vars, NewClient, Disturb, SetKey, SetId, SetName,
       TrackEvent, Enqueue, EnqueueFails, TrackException, InnerReturns, InnerThrows, TrackRequest

\* A request u that stays undisturbed while another one, or itself, takes a step.
LEMMA UndisturbedPreserved ==
    ASSUME TypeOK, TypeOK', [Next]_vars,
           NEW u \in Requests, u \notin disturbed', Undisturbed(u)
    PROVE  Undisturbed(u)'
<1> USE DEF TypeOK, Context, Undisturbed, OwnsField, Active, SettingUp, Handled
<1>1. ASSUME NEW r \in Requests, NewClient(r) PROVE Undisturbed(u)'
  BY <1>1 DEF NewClient, Disturb
<1>2. ASSUME NEW r \in Requests, SetKey(r) PROVE Undisturbed(u)'
  BY <1>2 DEF SetKey
<1>3. ASSUME NEW r \in Requests, SetId(r) PROVE Undisturbed(u)'
  BY <1>3 DEF SetId
<1>4. ASSUME NEW r \in Requests, SetName(r) PROVE Undisturbed(u)'
  <2>1. CASE u = r
    <3>1. telemetry' = Own(r)
      BY <1>4, <2>1 DEF SetName, Own
    <3> QED
      BY <1>4, <2>1, <3>1 DEF SetName
  <2>2. CASE u # r
    BY <1>4, <2>2 DEF SetName
  <2> QED
    BY <2>1, <2>2
<1>5. ASSUME NEW r \in Requests, TrackEvent(r) PROVE Undisturbed(u)'
  BY <1>5 DEF TrackEvent, Track
<1>6. ASSUME NEW r \in Requests, Enqueue(r) PROVE Undisturbed(u)'
  BY <1>6 DEF Enqueue
<1>7. ASSUME NEW r \in Requests, EnqueueFails(r) PROVE Undisturbed(u)'
  BY <1>7 DEF EnqueueFails
<1>8. ASSUME NEW r \in Requests, TrackException(r) PROVE Undisturbed(u)'
  BY <1>8 DEF TrackException, Track
<1>9. ASSUME NEW r \in Requests, InnerReturns(r) \/ InnerThrows(r) PROVE Undisturbed(u)'
  BY <1>9 DEF InnerReturns, InnerThrows
<1>10. ASSUME NEW r \in Requests, TrackRequest(r) PROVE Undisturbed(u)'
  BY <1>10 DEF TrackRequest, Track
<1>11. CASE UNCHANGED vars
  BY <1>11 DEF vars
<1> QED
  BY <1>1, <1>2, <1>3, <1>4, <1>5, <1>6, <1>7, <1>8, <1>9, <1>10, <1>11
     DEF Next, SendAsync, AllEnded

LEMMA Invariant == Spec => []IInv
<1>1. IInv /\ [Next]_vars => IInv'
  <2> SUFFICES ASSUME IInv, [Next]_vars PROVE IInv'
    OBVIOUS
  <2>1. TypeOK /\ TypeOK'
    BY TypePreserved DEF IInv
  <2>2. ASSUME NEW u \in Requests, u \notin disturbed' PROVE Undisturbed(u)'
    BY <2>1, <2>2, DisturbedGrows, UndisturbedPreserved DEF IInv
  <2> QED
    BY <2>1, <2>2 DEF IInv
<1> QED
  BY InitInv, <1>1, PTL DEF Spec

-----------------------------------------------------------------------------
\* The types of the handler's field and of the requests' progress.
THEOREM TypeCorrect == Spec => []TypeOK
<1>1. IInv => TypeOK
  BY DEF IInv
<1> QED
  BY Invariant, <1>1, PTL

\* For any number of requests: one into whose way no other's set-up came tracks
\* everything under its own operation and is never lost silently.
THEOREM OwnTelemetry == Spec => []OwnTelemetryUnlessDisturbed
<1>1. IInv => OwnTelemetryUnlessDisturbed
  BY DEF IInv, Undisturbed, OwnTelemetryUnlessDisturbed
<1> QED
  BY Invariant, <1>1, PTL

-----------------------------------------------------------------------------
\* What holds at each point of GetHttpHandler while no two requests met: one
\* request at most is inside, and it knows what the field holds.
Alone ==
    ~overlapped =>
        /\ \A r, s \in Inside : r = s
        /\ redirectUrl = <<>> \/ Len(redirectUrl) = 1
        /\ \A r \in Visits :
              /\ place[r] = "query" => redirectUrl = <<>>
              /\ place[r] = "append" => operand[r] = <<>>
              /\ place[r] = "answer" => redirectUrl = OwnUrl(r)
              /\ place[r] = "answered" => location[r] = OwnUrl(r)

RedirectInv == RedirectTypeOK /\ Alone

LEMMA OwnUrlLength == ASSUME NEW r \in Visits
                      PROVE  OwnUrl(r) = <<>> \/ Len(OwnUrl(r)) = 1
BY DEF OwnUrl

LEMMA RedirectInvInit == RedirectInit => RedirectInv
<1> SUFFICES ASSUME RedirectInit PROVE RedirectInv
  OBVIOUS
<1>1. <<>> \in Seq(Queries)
  OBVIOUS
<1>2. RedirectTypeOK
  BY <1>1 DEF RedirectInit, RedirectTypeOK
<1>3. Alone
  BY DEF RedirectInit, Alone, Inside
<1> QED
  BY <1>2, <1>3 DEF RedirectInv

LEMMA RedirectTypePreserved == RedirectTypeOK /\ [RedirectNext]_redirectVars => RedirectTypeOK'
<1> SUFFICES ASSUME RedirectTypeOK, [RedirectNext]_redirectVars PROVE RedirectTypeOK'
  OBVIOUS
<1> USE DEF RedirectTypeOK
<1>1. ASSUME NEW r \in Visits, Enter(r) PROVE RedirectTypeOK'
  BY <1>1 DEF Enter
<1>2. ASSUME NEW r \in Visits, SplitUrl(r) PROVE RedirectTypeOK'
  BY <1>2 DEF SplitUrl
<1>3. ASSUME NEW r \in Visits, Cut(r) PROVE RedirectTypeOK'
  BY <1>3 DEF Cut
<1>4. ASSUME NEW r \in Visits, ReadQuery(r) PROVE RedirectTypeOK'
  BY <1>4 DEF ReadQuery
<1>5. ASSUME NEW r \in Visits, AppendQuery(r) PROVE RedirectTypeOK'
  <2>1. Query[r] \in Queries
    BY <1>5 DEF AppendQuery, Queries
  <2>2. Append(operand[r], Query[r]) \in Seq(Queries)
    BY <2>1
  <2> QED
    BY <1>5, <2>2 DEF AppendQuery
<1>6. ASSUME NEW r \in Visits, Answer(r) PROVE RedirectTypeOK'
  BY <1>6 DEF Answer
<1>7. CASE UNCHANGED redirectVars
  BY <1>7 DEF redirectVars
<1> QED
  BY <1>1, <1>2, <1>3, <1>4, <1>5, <1>6, <1>7
     DEF RedirectNext, GetHttpHandler, AllAnswered

LEMMA AlonePreserved == RedirectInv /\ [RedirectNext]_redirectVars => Alone'
<1> SUFFICES ASSUME RedirectInv, [RedirectNext]_redirectVars, ~overlapped'
             PROVE  Alone'
  BY DEF Alone
<1> USE DEF RedirectInv, RedirectTypeOK
<1>0. ~overlapped
  BY DEF RedirectNext, GetHttpHandler, Enter, SplitUrl,
         Cut, ReadQuery, AppendQuery, Answer,
         AllAnswered, redirectVars
<1>1. ASSUME NEW r \in Visits, Enter(r) PROVE Alone'
  BY <1>0, <1>1 DEF Enter, Alone, Inside, OwnUrl
<1>2. ASSUME NEW r \in Visits, SplitUrl(r) PROVE Alone'
  BY <1>0, <1>2 DEF SplitUrl, Alone, Inside, OwnUrl
<1>3. ASSUME NEW r \in Visits, Cut(r) PROVE Alone'
  BY <1>0, <1>3 DEF Cut, Alone, Inside, OwnUrl
<1>4. ASSUME NEW r \in Visits, ReadQuery(r) PROVE Alone'
  BY <1>0, <1>4 DEF ReadQuery, Alone, Inside, OwnUrl
<1>5. ASSUME NEW r \in Visits, AppendQuery(r) PROVE Alone'
  <2>1. operand[r] = <<>> /\ Query[r] # NoQuery
    BY <1>0, <1>5 DEF AppendQuery, Alone
  <2>2. redirectUrl' = OwnUrl(r)
    BY <1>5, <2>1 DEF AppendQuery, OwnUrl
  <2> QED
    BY <1>0, <1>5, <2>2, OwnUrlLength
       DEF AppendQuery, Alone, Inside, OwnUrl
<1>6. ASSUME NEW r \in Visits, Answer(r) PROVE Alone'
  BY <1>0, <1>6 DEF Answer, Alone, Inside, OwnUrl
<1>7. CASE UNCHANGED redirectVars
  BY <1>7 DEF redirectVars, Alone, Inside, OwnUrl
<1> QED
  BY <1>1, <1>2, <1>3, <1>4, <1>5, <1>6, <1>7
     DEF RedirectNext, GetHttpHandler, AllAnswered

LEMMA RedirectInvariant == RedirectSpec => []RedirectInv
<1>1. RedirectInv /\ [RedirectNext]_redirectVars => RedirectInv'
  BY RedirectTypePreserved, AlonePreserved DEF RedirectInv
<1> QED
  BY RedirectInvInit, <1>1, PTL DEF RedirectSpec

\* The types of the handler's field and of the requests' progress.
THEOREM RedirectTypeCorrect == RedirectSpec => []RedirectTypeOK
<1>1. RedirectInv => RedirectTypeOK
  BY DEF RedirectInv
<1> QED
  BY RedirectInvariant, <1>1, PTL

\* For any number of requests with any queries: one request at a time, each is
\* sent to the target with its own query, whatever those before it left behind.
THEOREM OwnQuery == RedirectSpec => []OwnQueryUnlessOverlapped
<1>1. RedirectInv => OwnQueryUnlessOverlapped
  BY DEF RedirectInv, Alone, OwnQueryUnlessOverlapped
<1> QED
  BY RedirectInvariant, <1>1, PTL
=============================================================================
