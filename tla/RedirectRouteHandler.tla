------------------------ MODULE RedirectRouteHandler ------------------------
(***************************************************************************)
(* RouteExtensions.cs: the permanent redirects of the old routes           *)
(* (RouteConfig.cs).  One handler object serves a route for ever, and      *)
(* GetHttpHandler builds the Location of each request in the handler's own *)
(* field _redirectUrl, which no lock protects.                             *)
(*                                                                         *)
(* The field always holds the route's target followed by some queries, so  *)
(* it is modelled by those queries.  The branch for targets that begin     *)
(* with "~/" is left out: no route has one.                                *)
(***************************************************************************)
EXTENDS Naturals, Sequences

CONSTANTS Visits,    \* the requests of one route, each served once
          Query,     \* of each: PathAndQuery.Split('?')[1], the text between its
                     \* first "?" and the next (what follows that one is lost)
          NoQuery    \* there is no "?"

VARIABLES redirectUrl,  \* the field: the queries behind the target
          place,        \* where each request is in GetHttpHandler
          operand,      \* the left side of its +=, once read
          location,     \* the Location it was answered
          overlapped    \* history: were two requests ever in the handler at once?

redirectVars == <<redirectUrl, place, operand, location, overlapped>>

Queries == {Query[r] : r \in Visits} \ {NoQuery}

\* The target with the request's own query, if it has one.
OwnUrl(r) == IF Query[r] = NoQuery THEN <<>> ELSE <<Query[r]>>

Inside == {r \in Visits : place[r] \notin {"waiting", "answered"}}

RedirectTypeOK == /\ redirectUrl \in Seq(Queries)
                  /\ place \in [Visits -> {"waiting", "split", "cut", "query",
                                            "append", "answer", "answered"}]
                  /\ operand \in [Visits -> Seq(Queries)]
                  /\ location \in [Visits -> Seq(Queries)]
                  /\ overlapped \in BOOLEAN
                  /\ \A r \in Visits : place[r] = "append" => Query[r] # NoQuery

RedirectInit == /\ redirectUrl = <<>>
                /\ place = [r \in Visits |-> "waiting"]
                /\ operand = [r \in Visits |-> <<>>]
                /\ location = [r \in Visits |-> <<>>]
                /\ overlapped = FALSE

-----------------------------------------------------------------------------
(* GetHttpHandler, one access to the field at a time. *)

Enter(r) == /\ place[r] = "waiting"
            /\ place' = [place EXCEPT ![r] = "split"]
            /\ overlapped' = (overlapped \/ Inside # {})
            /\ UNCHANGED <<redirectUrl, operand, location>>

\* Mutant: the old query is looked for one "?" too far.
SplitUrl_OffByOne(r) ==
    /\ place[r] = "split"
    /\ place' = [place EXCEPT ![r] = IF Len(redirectUrl) = 2 THEN "cut" ELSE "query"]
    /\ UNCHANGED <<redirectUrl, operand, location, overlapped>>

\* if (_redirectUrl.Split('?').Length == 2): the target and exactly one query.
SplitUrl(r) ==
    /\ place[r] = "split"
    /\ place' = [place EXCEPT ![r] = IF Len(redirectUrl) = 1 THEN "cut" ELSE "query"]
    /\ UNCHANGED <<redirectUrl, operand, location, overlapped>>

\* _redirectUrl = _redirectUrl.Split('?')[0]
Cut(r) == /\ place[r] = "cut"
          /\ redirectUrl' = <<>>
          /\ place' = [place EXCEPT ![r] = "query"]
          /\ UNCHANGED <<operand, location, overlapped>>

\* Mutant: the missing query is appended as well.
ReadQuery_Always(r) == /\ place[r] = "query"
                       /\ place' = [place EXCEPT ![r] = "append"]
                       /\ operand' = [operand EXCEPT ![r] = redirectUrl]
                       /\ UNCHANGED <<redirectUrl, location, overlapped>>

\* The request has no query, or it has and += reads the field...
ReadQuery(r) == /\ place[r] = "query"
                /\ IF Query[r] = NoQuery
                   THEN /\ place' = [place EXCEPT ![r] = "answer"]
                        /\ UNCHANGED operand
                   ELSE /\ place' = [place EXCEPT ![r] = "append"]
                        /\ operand' = [operand EXCEPT ![r] = redirectUrl]
                /\ UNCHANGED <<redirectUrl, location, overlapped>>

\* ...and writes it.
AppendQuery(r) == /\ place[r] = "append"
                  /\ redirectUrl' = Append(operand[r], Query[r])
                  /\ place' = [place EXCEPT ![r] = "answer"]
                  /\ UNCHANGED <<operand, location, overlapped>>

\* new RedirectHandler(_redirectUrl, false), which writes the Location.
Answer(r) == /\ place[r] = "answer"
             /\ location' = [location EXCEPT ![r] = redirectUrl]
             /\ place' = [place EXCEPT ![r] = "answered"]
             /\ UNCHANGED <<redirectUrl, operand, overlapped>>

GetHttpHandler(r) == \/ SplitUrl(r) \/ Cut(r) \/ ReadQuery(r)
                     \/ AppendQuery(r) \/ Answer(r)

AllAnswered == (\A r \in Visits : place[r] = "answered") /\ UNCHANGED redirectVars

RedirectNext == (\E r \in Visits : Enter(r) \/ GetHttpHandler(r)) \/ AllAnswered

RedirectSpec == RedirectInit /\ [][RedirectNext]_redirectVars

-----------------------------------------------------------------------------
(* Correctness. *)

\* As long as no two requests were ever in the handler together, each is sent to
\* the target with its own Query, whatever the requests before it asked for: the
\* query one leaves behind is cut off by the next.
OwnQueryUnlessOverlapped ==
    ~overlapped => \A r \in Visits : place[r] = "answered" => location[r] = OwnUrl(r)
=============================================================================
