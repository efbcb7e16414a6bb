SPECIFICATION SlotFairSpec
CONSTANTS
    MaxRoots = 3
    MaxClock = 3
    WebRoots = TRUE
INVARIANTS
    SeqNamesRoot
PROPERTIES
    FollowsOwner
    CausalMetadataKept
    EventuallyLatest
CHECK_DEADLOCK FALSE
