SPECIFICATION FairSpec
CONSTANTS
    d1 = d1
    d2 = d2
    Devices <- TwoDevices
    Admins = {d1}
    Native = {}
    MaxSeq <- TwoUneven
INVARIANTS
    HistoryAccumulates
    ProjectionsStayLocal
    ProjectionsAreForNews
PROPERTY
    Converges
CHECK_DEADLOCK FALSE
