SPECIFICATION FairSpec
CONSTANTS
    Messages = {m1, m2}
    Workers = {w1, w2}
    NoMessage = NoMessage
    Unreadable = {}
    MaxMishaps = 2
    PoisonLimit = 2
    Floor = 2
    Ceiling = 3
INVARIANTS TypeOK NothingDroppedUnsaved OneRowPerMessage
PROPERTY KeepsPromise EveryMessageLeaves
