SPECIFICATION Spec
CONSTANTS
    Feeds <- MCFeeds
    Texts = {"a", "b", "s"}
    Offset <- MCOffset
    DayLength = 24
    None = None
CHECK_DEADLOCK FALSE
INVARIANTS
    TypeOK
    NoNilEvent
    ParsesFeed
