SPECIFICATION Spec
CONSTANTS
    Renders = {r1, r2}
    Sizes = {22, 30}
    Text <- MCText
    Blank = Blank
CHECK_DEADLOCK FALSE
INVARIANTS
    OwnGlyphs
