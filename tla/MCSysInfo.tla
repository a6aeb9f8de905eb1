------------------------------ MODULE MCSysInfo ------------------------------
(***************************************************************************)
(* SysInfo for TLC: each system with a mount table of its own.             *)
(***************************************************************************)
EXTENDS SysInfo, TLC

Children == Permutations(Child)

Disk   == [source |-> "path", sized |-> TRUE, disk |-> TRUE]
Remote == [source |-> "remote", sized |-> TRUE, disk |-> FALSE]
\* A directory mounted again, by lofs or nullfs.
Loop   == [source |-> "path", sized |-> TRUE, disk |-> FALSE]
Bare   == [source |-> "name", sized |-> TRUE, disk |-> FALSE]
\* /proc of SVR4, without a size, and of IRIX, with one.
Proc     == [source |-> "path", sized |-> FALSE, disk |-> FALSE]
IrixProc == [source |-> "path", sized |-> TRUE, disk |-> FALSE]

Tables == [
    osx     |-> <<Disk, Bare, Disk>>,
    netbsd  |-> <<Disk, Bare, Loop, Remote, Disk>>,
    solaris |-> <<Disk, Proc, Loop, Remote, Disk>>,
    irix    |-> <<Disk, IrixProc, Disk, Disk>>,
    sunos   |-> <<Remote, Disk>>,
    other   |-> <<Disk>>]
=============================================================================
