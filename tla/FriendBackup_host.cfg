SPECIFICATION Spec
CONSTANTS
    alice = alice
    p = p
    q = q
    a = a
    b = b
    c = c
    None = None
    Owners = {alice}
    Procs = {p, q}
    Tree <- Changing
    Allowances = {3, 6}
    Capacities = {6}
    MaxStarts = 2
    MaxKills = 2
INVARIANTS
    HeadComplete
    SpaceKept
    SyncedIsStored
PROPERTIES
    HeadForward
    EventuallySynced
    EventuallyRecovered
