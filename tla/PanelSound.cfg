SPECIFICATION Spec
CONSTANTS
    Bad = Bad
    None = None
    SliceHours = 3
    Midnight <- MCMidnight
    Skipped = {54}
    SkippedTo <- West
    Second = {}
    Monday = 4
    Words <- MCWords
    RuneWidth = 20
    DigitWidth = 18
    Pages <- MCPages
CHECK_DEADLOCK FALSE
INVARIANTS
    TypeOK
    InCells
    TilesComplement
    DaysRight
    RainTrue
    TitlesReadable
