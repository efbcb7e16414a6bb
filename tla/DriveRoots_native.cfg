SPECIFICATION Spec
CONSTANTS
    d1 = d1
    d2 = d2
    Devices <- TwoDevices
    Admins = {}
    Native = {d1, d2}
    MaxSeq <- Two
INVARIANT
    ProjectionsStayLocal
CHECK_DEADLOCK FALSE
