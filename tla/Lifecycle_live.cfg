\* The script may be left alone for good.
SPECIFICATION FairSpec
CONSTANTS
    p1 = p1
    p2 = p2
    p3 = p3
    p4 = p4
    s1 = s1
    s2 = s2
    Absent = Absent
    Empty = Empty
    Pid <- FourPids
    Script <- OneScript
    Faults = {"fork"}
    MaxFaults = 2
    MaxCmds = 3
    MaxChildren = 1
PROPERTIES StartedServes LaunchServes
CHECK_DEADLOCK FALSE
