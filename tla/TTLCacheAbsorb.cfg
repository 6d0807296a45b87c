SPECIFICATION FairSpec
CONSTANTS
    Callers = {c1}
    Pendings = {p1}
    Nil = Nil
    TTL = 1
    MaxTime = 2
PROPERTIES
    FailuresAbsorbed
