CONSTANTS
    Device = {"a", "b", "c"}
    Profile = {"a", "b", "c"}
    ProfileOf <- MCProfileOf
    Creator = "a"
    Recipients <- AdminAndEditor
    Grantable = {"reader", "editor"}
    MaxClock = 0
    MaxChanges = 2
    MaxRoots = 1
    NoShare = NoShare
SPECIFICATION FairSpec
INVARIANT WithdrawnStaysShown
PROPERTIES MembersSeeTheSame
CHECK_DEADLOCK FALSE
