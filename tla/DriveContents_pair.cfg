SPECIFICATION Spec
CONSTANTS
    x = x
    y = y
    N = 2
    Paths = {x, y}
    Mounts = {1}
    Deletes = TRUE
    MaxSeq = 2
    MaxClock = 3
INVARIANTS
    NothingReauthored
    WriterAlone
    SavedStays
    ClashesShown
    LastEditShows
SYMMETRY Symmetry
CHECK_DEADLOCK FALSE
