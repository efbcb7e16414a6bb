SPECIFICATION Spec
CONSTANTS
    x = x
    y = y
    N = 2
    Paths = {x, y}
    Mounts = {}
    Deletes = FALSE
    MaxSeq = 2
    MaxClock = 3
INVARIANTS
    NothingLost
SYMMETRY Symmetry
CHECK_DEADLOCK FALSE
