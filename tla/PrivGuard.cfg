\* A daemon that runs as root or as somebody else, any call of drop() failing.
\* No more clients come at the bounds.
SPECIFICATION Spec
CONSTANTS
    root = root
    ann = ann
    bob = bob
    NoUser = NoUser
    Unknown = Unknown
    User <- AllUsers
    UidOf <- Uids
    GidOf <- Gids
    GroupsOf <- Groups
    Starts <- RootOrNot
    Failing = {"initgroups", "setegid", "seteuid"}
    MaxReqs = 3
    MaxConns = 3
INVARIANTS RunsAsAsked EffectiveRestored CleanStop
CHECK_DEADLOCK FALSE
