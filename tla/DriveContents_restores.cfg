SPECIFICATION Spec
CONSTANTS
    x = x
    y = y
    N = 2
    Paths = {x, y}
    Mounts = {}
    Deletes = TRUE
    MaxSeq = 3
    MaxClock = 3
INVARIANTS
    RestoresStay
SYMMETRY Symmetry
CHECK_DEADLOCK FALSE
