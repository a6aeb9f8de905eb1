\* Two writers and a reader, on one connection or on three, killed or crashed
\* anywhere; fsync(), fchown() and fchmod() may fail.
\* The requests run out, so the system stops.
SPECIFICATION Spec
CONSTANTS
    r1 = r1
    r2 = r2
    r3 = r3
    orig = orig
    Request = {r1, r2, r3}
    Workload <- MCWorkload
    Orig = orig
    Pid = {1, 2, 3}
    Verb = {"write_file", "put_file", "get_file", "read_file", "stat"}
    User = {"root", "user"}
    Root = "root"
    Mode <- MCMode
    TempMode = "0600"
    DefaultMode = "0644"
    NoMode = "none"
    Strip <- MCStrip
    OrigAttrs <- MCOrigAttrs
    MaxBlocks = 2
    Size <- MCSize
    NoFile = NoFile
    Dir = Dir
    MayFail <- MCMayFail
INVARIANTS TargetWhole NoStrayTemp TempPrivate StatTrue ReadWhole Inv
PROPERTIES PublishedImmutable AttrsPreserved ImplementsAtomicFile
CHECK_DEADLOCK FALSE
