SPECIFICATION Spec
CONSTANTS
    x = x
    y = y
    N = 2
    Paths = {x, y}
    Mounts = {}
    Deletes = TRUE
    MaxSeq = 2
    MaxClock = 2
INVARIANTS
    DeletionsStay
SYMMETRY Symmetry
CHECK_DEADLOCK FALSE
