\* Two connections, forked or served inline, one with a command and one with
\* a command or a search, on a System V and on a BSD host.
\* The requests run out, so the system stops.
SPECIFICATION FairSpec
CONSTANTS
    c1 = c1
    c2 = c2
    Conn = {c1, c2}
    Daemon = Daemon
    Nobody = Nobody
    Workload <- MCWorkload
    System = {"svr4", "bsd"}
    Status = {0, 1, 2}
    Number = {0, 1, 2}
    Absent = Absent
    DefaultLimit = 60
    DefaultMax = 1
INVARIANTS Inv OwnStatus SearchHonest
PROPERTIES AllReaped Answered
CHECK_DEADLOCK FALSE
