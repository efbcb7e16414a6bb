SPECIFICATION Spec
CONSTANTS
    m = m
    c = c
    d = d
    Anybody = Anybody
    None = None
    Admins = {m, c}
    Device = d
    Mobile = {m, d}
    Asked = {m, c, Anybody}
    Transports = {{"relay"}, {"mesh"}, {"relay", "mesh"}}
    MaxEpoch = 3
    MaxSigned <- OneTogether
    MaxBreaks <- One
CHECK_DEADLOCK FALSE
PROPERTY EventuallySettled
