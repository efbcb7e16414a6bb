SPECIFICATION Spec
CONSTANTS
    a = a
    b = b
    f = f
    Locked = {a, b}
    Free = {f}
    MaxRoots = 2
    MaxPeer = 1
    MaxSets = 1
SYMMETRY Symmetry
INVARIANTS
    LocalTransactionsKept
