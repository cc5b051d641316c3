SPECIFICATION FairSpec
CONSTANTS
    m1 = m1
    m2 = m2
    m3 = m3
    mitre = mitre
    sarmiento = sarmiento
    Messages = {m1, m2, m3}
    Arrival <- MCArrival
    Unreadable = {m3}
    Workers = {w1, w2}
    MaxMishaps = 1
    BlockSize = 3
    MaxBlock = 2
    Floor = 2
    Ceiling = 2
INVARIANTS TypeOK EmittedAtMostOnce LossNeedsMishap
PROPERTIES KeepsPromise EveryArrivalLeaves
