SPECIFICATION Spec
CONSTANTS
    m = m
    c = c
    d = d
    Anybody = Anybody
    None = None
    Admins = {m, c}
    Device = d
    Mobile = {m}
    Asked = {Anybody}
    Transports = {{"relay"}, {"mesh"}, {"relay", "mesh"}}
    MaxEpoch = 3
    MaxSigned <- Two
    MaxBreaks <- IfAlone
CHECK_DEADLOCK FALSE
INVARIANTS
    SettledIsUsable
    RootFirst
    AcknowledgedIsThere
