SPECIFICATION FairSpec
CONSTANTS
    Intervals = {12, 14}
    NightInterval = 16
    StuckMin = 2
    Gap = 1
    FetchMax = 2
    Cooldown = 1
    MaintPoll = 2
    IdleLimit = 5
    MaxAge = 22
    NightStart = 22
    NightEnd = 6
    Mishaps = {"unplug"}
INVARIANTS
    NothingSuspendsMidCount
