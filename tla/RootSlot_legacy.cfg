SPECIFICATION SlotSpec
CONSTANTS
    MaxRoots = 2
    MaxClock = 3
    WebRoots = TRUE
PROPERTY
    LegacyOrderKept
CHECK_DEADLOCK FALSE
