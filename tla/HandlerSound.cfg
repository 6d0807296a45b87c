SPECIFICATION Spec
CONSTANTS
    Requests = {r1, r2}
    Pendings = {p1, p2}
    Nil = Nil
    WeatherTTL = 1
    CalendarTTL = 2
    Budget = 2
    ShutdownTimeout = 1
    MaxTime = 3
VIEW View
SYMMETRY Perms
INVARIANTS
    TypeOK
    CachesSound
    AnswersInTime
    CutsOnlySlow
