SPECIFICATION Spec
CONSTANTS
    x = x
    y = y
    N = 3
    Paths = {x}
    Mounts = {}
    Deletes = TRUE
    MaxSeq = 2
    MaxClock = 2
INVARIANTS
    ClashesShown
CHECK_DEADLOCK FALSE
