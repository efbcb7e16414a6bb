CONSTANTS
    Device = {a, b, c}
    Profile = {a, b, c}
    ProfileOf <- MCProfileOf
    Creator = a
    Recipients <- OnlyCreator
    Grantable = {"reader", "admin"}
    MaxClock = 1
    MaxChanges = 3
    NoShare = NoShare
SPECIFICATION MFairSpec
INVARIANTS KeysFollowMembership RevocationSticks
PROPERTIES MembersAgree
CHECK_DEADLOCK FALSE
