SPECIFICATION FairSpec
CONSTANTS
    Pids = {p1, p2, p3}
    None = None
    MaxFaults = 4
    Mishaps = {"term"}
INVARIANTS
    TypeOK
    OneDaemon
    LifecycleInv
    PidfileNamesDaemon
PROPERTIES
    DaemonRecovers
