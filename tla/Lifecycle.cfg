\* Two users of the init script; everything may go wrong.
\* The world may come to rest.
SPECIFICATION Spec
CONSTANTS
    p1 = p1
    p2 = p2
    p3 = p3
    p4 = p4
    s1 = s1
    s2 = s2
    Absent = Absent
    Empty = Empty
    Pid <- FourPids
    Script <- TwoScripts
    Faults = {"fork", "open", "shutdown", "termChild", "crash", "late", "overlap", "reuse"}
    MaxFaults = 2
    MaxCmds = 3
    MaxChildren = 1
INVARIANTS Findable NoStalePid OneDaemon
PROPERTIES SignalsADaemon
SYMMETRY SymmetryTwo
CHECK_DEADLOCK FALSE
