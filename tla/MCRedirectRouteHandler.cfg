SPECIFICATION RedirectSpec
CONSTANTS
    r1 = r1
    r2 = r2
    r3 = r3
    r4 = r4
    q1 = q1
    q2 = q2
    q3 = q3
    NoQuery = NoQuery
    Visits = {r1, r2, r3, r4}
    Query <- MCQuery
INVARIANTS RedirectTypeOK OwnQueryUnlessOverlapped
