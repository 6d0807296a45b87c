SPECIFICATION Spec
CONSTANTS
    Inodes = {i1, i2, i3, i4}
    None = None
    GhostEvery = 3
SYMMETRY Perms
INVARIANTS
    TypeOK
    DrawnWhole
    KeptWhole
    GhostsCleared
