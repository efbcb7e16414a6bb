SPECIFICATION Spec
CONSTANTS
    n = n
    w = w
    r = r
    Native = {n}
    Cli = {w, r}
    Owners = {w}
    Joiners = {w, r}
    Admin = n
    MaxSeq = 2
    MaxBreaks = 1
INVARIANTS
    SeenIsHad
PROPERTIES
    EventuallyCurrent
    Forwards
