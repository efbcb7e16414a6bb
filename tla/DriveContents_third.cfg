SPECIFICATION Spec
CONSTANTS
    x = x
    y = y
    N = 3
    Paths = {x}
    Mounts = {}
    Deletes = FALSE
    MaxSeq = 1
    MaxClock = 2
INVARIANTS
    SavedStays
CHECK_DEADLOCK FALSE
