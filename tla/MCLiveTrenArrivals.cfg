SPECIFICATION FairSpec
CONSTANTS
    Chains = {c1, c2}
    Ramales <- MCRamales
    Failing = {1}
    MaxStops = 2
    MaxFailures = 1
INVARIANTS TypeOK PublishedIsReported
PROPERTY EveryLongStopIsReported
