SPECIFICATION FairSpec
CONSTANTS
    Messages = {m1, m2}
    Workers = {w1, w2}
    NoMessage = NoMessage
    Unreadable = {m2}
    MaxMishaps = 3
    GiveUpAt = 3
    Floor = 2
    Ceiling = 3
INVARIANTS TypeOK MailSentOrGivenUp DuplicatesNeedMishaps
PROPERTY KeepsPromise EveryMailLeaves
