\* The supplementary groups of an earlier request.
SPECIFICATION Spec
CONSTANTS
    root = root
    ann = ann
    bob = bob
    NoUser = NoUser
    Unknown = Unknown
    User <- AllUsers
    UidOf <- Uids
    GidOf <- Gids
    GroupsOf <- Groups
    Starts <- RootOrNot
    Failing = {}
    MaxReqs = 3
    MaxConns = 3
INVARIANTS GroupsRestored
CHECK_DEADLOCK FALSE
