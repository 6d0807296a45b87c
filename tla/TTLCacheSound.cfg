SPECIFICATION FairSpec
CONSTANTS
    Callers = {c1, c2}
    Pendings = {p1, p2}
    Nil = Nil
    TTL = 2
    MaxTime = 3
INVARIANTS
    TypeOK
    SingleFlight
    NoOrphanedWaiter
    CacheInv
PROPERTIES
    PublishedResultFinal
    SuccessesSpaced
    ReadsSpec
    EveryGetReturns
