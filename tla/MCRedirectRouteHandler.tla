----------------------- MODULE MCRedirectRouteHandler -----------------------
EXTENDS RedirectRouteHandler, TLC

CONSTANTS r1, r2, r3, r4, q1, q2, q3

MCQuery == (r1 :> q1) @@ (r2 :> q2) @@ (r3 :> q3) @@ (r4 :> NoQuery)
=============================================================================
