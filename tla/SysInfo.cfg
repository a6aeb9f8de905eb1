\* Two children on every system, with startups that found little and calls that
\* fail. The requests and the disks are bounded.
SPECIFICATION Spec
CONSTANTS
    Child = {c1, c2}
    System = {"osx", "netbsd", "solaris", "irix", "sunos", "other"}
    Table <- Tables
    MaxDisks = 2
    Failing = {"HW_MEMSIZE", "SWAP_STATS", "kstat_read", "MPSA_RMINFO",
               "getmntinfo", "setmntent", "statfs"}
    Absent = Absent
    Junk = Junk
    MaxRequests = 2
SYMMETRY Children
INVARIANTS FieldsTrueAlone StaysAbsent DisksListed
CHECK_DEADLOCK FALSE
