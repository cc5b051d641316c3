SPECIFICATION FairSpec
CONSTANTS
    Requests = {r1, r2, r3}
    NoRequest = NoRequest
INVARIANTS TypeOK OwnTelemetryUnlessDisturbed
PROPERTY EveryRequestIsHandled
