CONSTANTS
    Device = {a, b, c}
    Profile = {a, b, c}
    ProfileOf <- MCProfileOf
    Creator = a
    Recipients <- AllAdmins
    Grantable = {"reader", "admin"}
    MaxClock = 1
    MaxChanges = 2
    NoShare = NoShare
CHECK_DEADLOCK FALSE
SPECIFICATION MSpec
PROPERTY RevocationsAppendOnly
