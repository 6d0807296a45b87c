SPECIFICATION Spec
CONSTANTS
    Agendas <- MCAgendas
    Horizon = 30
    SlotsPerDay = 2
    MonthStart <- MCMonthStart
    MaxOccurrences = 40
    None = None
CHECK_DEADLOCK FALSE
INVARIANTS
    TypeOK
    Exact
    ShowsSeries
