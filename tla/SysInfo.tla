------------------------------- MODULE SysInfo -------------------------------
(***************************************************************************)
(* The sysinfo verb: sysInfoStartup(), kmemRead(), sysInfoCollect() and    *)
(* the collectors of SysInfo.cpp, for each system they are written for.    *)
(*                                                                         *)
(* On SunOS 4 three fields (on IRIX one) are read from kernel memory.      *)
(* sysInfoStartup() finds their addresses and opens /dev/kmem once, in the *)
(* daemon.  A child has the descriptor from fork(): the file offset that   *)
(* lseek() sets is the one of the daemon and of every other child.         *)
(* A field stands for its symbol, for its address and for the value there. *)
(***************************************************************************)
EXTENDS Naturals, Sequences, FiniteSets

CONSTANTS
    Child,       \* processes that serve connections
    System,      \* systems the daemon is built for
    Table,       \* Table[s]: the mount table of s, in order
    MaxDisks,    \* SYSINFO_MAX_DISKS
    Failing,     \* calls of the collectors that may fail
    Absent,      \* a field that was not collected; a symbol not found
    Junk,        \* what is read anywhere else
    MaxRequests  \* bound: sysinfo requests of a child

Systems == {"osx", "netbsd", "solaris", "irix", "sunos", "other"}
Field == {"uname", "hostid", "memMB", "load", "swap"}

ASSUME SystemAssumption == System \subseteq Systems
ASSUME NameAssumption == Absent # Junk /\ Absent \notin Field /\ Junk \notin Field
ASSUME BoundAssumption == MaxRequests \in Nat /\ MaxDisks \in Nat

\* An entry of a mount table: its source is a path, a remote "host:/path" or a
\* bare name; it has a size or not; a disk has the file system type of one.
Mount == [source : {"path", "remote", "name"}, sized : BOOLEAN, disk : BOOLEAN]

\* "A real local filesystem mounts a /dev-style path", and has a size.  So may
\* other entries have both: a loopback mount, or /proc on IRIX.
ASSUME TableAssumption == \A s \in System :
    /\ Table[s] \in Seq(Mount)
    /\ \A i \in 1..Len(Table[s]) :
        Table[s][i].disk => Table[s][i].source = "path" /\ Table[s][i].sized

VARIABLES
    system,  \* the system
    up,      \* sysInfoStartup() has returned
    addr,    \* addr[f]: s_addrPhysmem and so on: f, or Absent for 0
    kmem,    \* s_kmemFd >= 0
    offset,  \* the shared file offset: at a field's symbol, or Junk
    pc,      \* pc[c]: "idle", "collect", "read", "disks", "mounts", "reply"
    next,    \* next[c]: the collector that c is at
    snap,    \* snap[c]: the fields of the snapshot on c's stack
    entry,   \* entry[c]: the entry of the mount table that c is at
    disks,   \* disks[c]: the entries in snap.disks
    silent,  \* history: entries whose size c could not get
    noTable, \* history: c could not get the mount table
    served,  \* served[c]: requests of c so far
    together \* history: two requests have been served at the same time

startVars == <<system, up, addr, kmem>>
diskVars == <<entry, disks, silent, noTable>>
vars == <<startVars, offset, pc, next, snap, diskVars, served, together>>

Blank == [f \in Field |-> Absent]
\* What is on the stack before sysInfoCollect() clears it.
Garbage == [f \in Field |-> Junk]

Init ==
    /\ system \in System
    /\ up = FALSE /\ addr = Blank /\ kmem = FALSE /\ offset = Junk
    /\ pc = [c \in Child |-> "idle"]
    /\ next = [c \in Child |-> 1]
    /\ snap = [c \in Child |-> Garbage]
    /\ entry = [c \in Child |-> 1]
    /\ disks = [c \in Child |-> <<>>]
    /\ silent = [c \in Child |-> {}]
    /\ noTable = [c \in Child |-> FALSE]
    /\ served = [c \in Child |-> 0]
    /\ together = FALSE

(***************************************************************************)
(* Startup.                                                                *)
(***************************************************************************)

\* The fields that are read from kernel memory.
KernelFields ==
    CASE system = "sunos" -> {"memMB", "load", "swap"}
      [] system = "irix"  -> {"load"}
      [] OTHER            -> {}

\* SunOS 4: nlist() finds some of the symbols or fails.
FoundSunOS == SUBSET KernelFields

\* IRIX: sysmp() knows the address, or nlist() finds it, or neither.
FoundIrix == {IF asked \/ listed THEN {"load"} ELSE {} : asked, listed \in BOOLEAN}

Found ==
    CASE system = "sunos" -> FoundSunOS
      [] system = "irix"  -> FoundIrix
      [] OTHER            -> {{}}

\* open() of /dev/kmem may fail, and is not called on the other systems.
Startup ==
    /\ ~up
    /\ up' = TRUE
    /\ \E found \in Found : addr' = [f \in Field |-> IF f \in found THEN f ELSE Absent]
    /\ kmem' \in (IF KernelFields = {} THEN {FALSE} ELSE BOOLEAN)
    /\ UNCHANGED <<system, offset, pc, next, snap, diskVars, served, together>>

(***************************************************************************)
(* The fields.  Calls[f]: the calls that all have to succeed for f to be   *)
(* in the snapshot, next to kmemRead(); none for gethostid().              *)
(***************************************************************************)

MacCalls == [hostid |-> {}, memMB |-> {"HW_MEMSIZE"}, load |-> {"getloadavg"},
             swap |-> {"vm.swapusage"}]
NetBsdCalls == [hostid |-> {}, memMB |-> {"HW_PHYSMEM64"}, load |-> {"getloadavg"},
                swap |-> {"SWAP_NSWAP", "SWAP_STATS"}]
SolarisCalls == [hostid |-> {"SI_HW_SERIAL"}, memMB |-> {"_SC_PHYS_PAGES", "_SC_PAGESIZE"},
                 load |-> {"kstat_open", "kstat_read", "kstat_data_lookup"},
                 swap |-> {"SC_AINFO", "_SC_PAGESIZE"}]
IrixCalls == [hostid |-> {}, memMB |-> {"MPSA_RMINFO"}, load |-> {},
              swap |-> {"SC_GETSWAPTOT", "SC_GETFREESWAP"}]
SunOSCalls == [hostid |-> {}, memMB |-> {}, load |-> {}, swap |-> {}]

\* Whether collectUname() and the field's own collector can do without a call
\* that fails.
Collectable(f, failed) ==
    CASE f = "uname"          -> "uname" \notin failed
      [] system = "osx"       -> MacCalls[f] \cap failed = {}
      [] system = "netbsd"    -> NetBsdCalls[f] \cap failed = {}
      [] system = "solaris"   -> SolarisCalls[f] \cap failed = {}
      [] system = "irix"      -> IrixCalls[f] \cap failed = {}
      [] system = "sunos"     -> SunOSCalls[f] \cap failed = {}
      [] OTHER                -> FALSE

Order == <<"uname", "hostid", "memMB", "load", "swap">>

Wanted(c) == Order[next[c]]

\* The next collector; the disks are the last.
Advance(c) ==
    /\ pc' = [pc EXCEPT ![c] = IF next[c] < Len(Order) THEN "collect" ELSE "disks"]
    /\ next' = [next EXCEPT ![c] = @ + 1]

\* sysInfoCollect(): memset( &snap, 0, ... )
Collect(c) ==
    /\ up /\ pc[c] = "idle" /\ served[c] < MaxRequests
    /\ served' = [served EXCEPT ![c] = @ + 1]
    /\ snap' = [snap EXCEPT ![c] = Blank]
    /\ next' = [next EXCEPT ![c] = 1]
    /\ pc' = [pc EXCEPT ![c] = "collect"]
    /\ together' = (together \/ \E d \in Child : pc[d] # "idle")
    /\ UNCHANGED <<startVars, offset, diskVars>>

\* A collector that reads no kernel memory.
Call(c) ==
    /\ pc[c] = "collect" /\ Wanted(c) \notin KernelFields
    /\ \E failed \in SUBSET Failing :
        snap' = IF Collectable(Wanted(c), failed)
                THEN [snap EXCEPT ![c][Wanted(c)] = Wanted(c)]
                ELSE snap
    /\ Advance(c)
    /\ UNCHANGED <<startVars, offset, diskVars, served, together>>

\* kmemRead(): no descriptor or no address; the field stays absent.
Unavailable(c) ==
    /\ pc[c] = "collect" /\ Wanted(c) \in KernelFields
    /\ ~kmem \/ addr[Wanted(c)] = Absent
    /\ Advance(c)
    /\ UNCHANGED <<startVars, offset, snap, diskVars, served, together>>

\* Mutant of Seek: `addr == 0` is not looked at.
Seek_Zero(c) ==
    /\ pc[c] = "collect" /\ Wanted(c) \in KernelFields /\ kmem
    /\ offset' = IF addr[Wanted(c)] = Absent THEN Junk ELSE addr[Wanted(c)]
    /\ pc' = [pc EXCEPT ![c] = "read"]
    /\ UNCHANGED <<startVars, next, snap, diskVars, served, together>>

\* Mutant of Seek: the offset is left where it is.
Seek_Nowhere(c) ==
    /\ pc[c] = "collect" /\ Wanted(c) \in KernelFields
    /\ kmem /\ addr[Wanted(c)] # Absent
    /\ pc' = [pc EXCEPT ![c] = "read"]
    /\ UNCHANGED <<startVars, offset, next, snap, diskVars, served, together>>

\* lseek( s_kmemFd, addr, SEEK_SET )
Seek(c) ==
    /\ pc[c] = "collect" /\ Wanted(c) \in KernelFields
    /\ kmem /\ addr[Wanted(c)] # Absent
    /\ offset' = addr[Wanted(c)]
    /\ pc' = [pc EXCEPT ![c] = "read"]
    /\ UNCHANGED <<startVars, next, snap, diskVars, served, together>>

SeekFails(c) ==
    /\ pc[c] = "collect" /\ Wanted(c) \in KernelFields
    /\ kmem /\ addr[Wanted(c)] # Absent
    /\ Advance(c)
    /\ UNCHANGED <<startVars, offset, snap, diskVars, served, together>>

\* read(): what is at the offset, which moves on; the collector sets its field.
Read(c) ==
    /\ pc[c] = "read"
    /\ snap' = [snap EXCEPT ![c][Wanted(c)] = offset]
    /\ offset' = Junk
    /\ Advance(c)
    /\ UNCHANGED <<startVars, diskVars, served, together>>

\* read() fails or returns less: the field stays absent.
ReadFails(c) ==
    /\ pc[c] = "read"
    /\ offset' \in {offset, Junk}
    /\ Advance(c)
    /\ UNCHANGED <<startVars, snap, diskVars, served, together>>

(***************************************************************************)
(* The disks: collectDisks(), with one statfs() or statvfs() for an entry. *)
(***************************************************************************)

Entries == 1..Len(Table[system])

isLocalDisk(m) == m.source = "path" /\ m.sized

\* IRIX looks at the type first.
Screened(m) == system = "irix" /\ ~m.disk

TableCall == IF system \in {"osx", "netbsd"} THEN "getmntinfo" ELSE "setmntent"

AsksEach == system \in {"solaris", "irix", "sunos"}

\* Mutant of addDisk: the last place is not used.
addDisk_OneLess(list, i) == IF Len(list) + 1 >= MaxDisks THEN list ELSE Append(list, i)

addDisk(list, i) == IF Len(list) >= MaxDisks THEN list ELSE Append(list, i)

OpenTable(c) ==
    /\ pc[c] = "disks" /\ system # "other"
    /\ pc' = [pc EXCEPT ![c] = "mounts"]
    /\ UNCHANGED <<startVars, offset, next, snap, diskVars, served, together>>

\* The call fails, or there is none: collectDisks() returns, and nothing else is
\* tried.
NoTable(c) ==
    /\ pc[c] = "disks"
    /\ system = "other" \/ TableCall \in Failing
    /\ pc' = [pc EXCEPT ![c] = "reply"]
    /\ noTable' = [noTable EXCEPT ![c] = TRUE]
    /\ UNCHANGED <<startVars, offset, next, snap, entry, disks, silent, served,
                   together>>

\* The entry of the table that c is at, for which statfs() has not failed.
ListMount(c) ==
    /\ pc[c] = "mounts" /\ entry[c] \in Entries
    /\ LET m == Table[system][entry[c]] IN
        disks' = IF ~Screened(m) /\ isLocalDisk(m)
                 THEN [disks EXCEPT ![c] = addDisk(@, entry[c])]
                 ELSE disks
    /\ entry' = [entry EXCEPT ![c] = @ + 1]
    /\ UNCHANGED <<startVars, offset, pc, next, snap, silent, noTable, served,
                   together>>

\* statfs() or statvfs() fails for the entry: the loop goes on.
SkipMount(c) ==
    /\ pc[c] = "mounts" /\ entry[c] \in Entries
    /\ AsksEach /\ "statfs" \in Failing /\ ~Screened(Table[system][entry[c]])
    /\ silent' = [silent EXCEPT ![c] = @ \cup {entry[c]}]
    /\ entry' = [entry EXCEPT ![c] = @ + 1]
    /\ UNCHANGED <<startVars, offset, pc, next, snap, disks, noTable, served,
                   together>>

EndOfTable(c) ==
    /\ pc[c] = "mounts" /\ entry[c] \notin Entries
    /\ pc' = [pc EXCEPT ![c] = "reply"]
    /\ UNCHANGED <<startVars, offset, next, snap, diskVars, served, together>>

\* verbSysInfo(): what is in the snapshot goes into the reply; the snapshot
\* goes out of scope.
Reply(c) ==
    /\ pc[c] = "reply"
    /\ pc' = [pc EXCEPT ![c] = "idle"]
    /\ next' = [next EXCEPT ![c] = 1]
    /\ snap' = [snap EXCEPT ![c] = Garbage]
    /\ entry' = [entry EXCEPT ![c] = 1]
    /\ disks' = [disks EXCEPT ![c] = <<>>]
    /\ silent' = [silent EXCEPT ![c] = {}]
    /\ noTable' = [noTable EXCEPT ![c] = FALSE]
    /\ UNCHANGED <<startVars, offset, served, together>>

Next ==
    \/ Startup
    \/ \E c \in Child :
        \/ Collect(c) \/ Call(c)
        \/ Unavailable(c) \/ Seek(c) \/ SeekFails(c) \/ Read(c) \/ ReadFails(c)
        \/ OpenTable(c) \/ NoTable(c)
        \/ ListMount(c) \/ SkipMount(c) \/ EndOfTable(c) \/ Reply(c)

Spec == Init /\ [][Next]_vars

(***************************************************************************)
(* Properties.                                                             *)
(***************************************************************************)

Value == Field \cup {Absent, Junk}

TypeOK ==
    /\ system \in System
    /\ up \in BOOLEAN /\ kmem \in BOOLEAN
    /\ addr \in [Field -> Field \cup {Absent}]
    /\ offset \in Field \cup {Junk}
    /\ pc \in [Child -> {"idle", "collect", "read", "disks", "mounts", "reply"}]
    /\ next \in [Child -> 1..Len(Order) + 1]
    /\ \A c \in Child : pc[c] \in {"collect", "read"} => next[c] \in 1..Len(Order)
    /\ snap \in [Child -> [Field -> Value]]
    /\ served \in [Child -> 0..MaxRequests]
    /\ together \in BOOLEAN

Busy(c) == pc[c] # "idle"

\* A field is the value of its own symbol, or absent ("each collector either
\* produces its value and sets the matching have-flag, or leaves the flag 0").
FieldsTrue == \A c \in Child : Busy(c) => \A f \in Field : snap[c][f] \in {f, Absent}

\* The same as long as no two requests are served at the same time, whatever
\* startup found, whatever failed and whichever child is asked next.
FieldsTrueAlone == ~together => FieldsTrue

\* What startup could not find or open is absent for good ("a failed startup
\* marks the affected fields permanently absent"), whoever asks and when.
StaysAbsent ==
    \A c \in Child : Busy(c) =>
        \A f \in KernelFields : (~kmem \/ addr[f] = Absent) => snap[c][f] = Absent

\* What a reply may show: the disks, which SYSINFO_PLAN.md:70 asks for ("real
\* local filesystems only"), and, against it, what else is mounted from a path
\* and has a size.  These are loopback mounts (lofs, nullfs), which isLocalDisk()
\* cannot tell from the disk they show again; IRIX looks at the type.
Shown(m) == m.disk \/ (system # "irix" /\ m.source = "path" /\ m.sized)

\* The reply lists what may be shown, each entry once and in the order of the
\* table: those that gave their size, up to MaxDisks; one that did not takes no
\* other's place, and no remote or pseudo filesystem is listed.  Without a mount
\* table there is no disk at all, as PROTOCOL.md:73-75 has it ("a collector that
\* fails on this box omits its field"); the fixed set that SYSINFO_PLAN.md:71-73
\* wants to be tried then is not.
DisksListed ==
    \A c \in Child : pc[c] = "reply" =>
        LET told == {i \in Entries : Shown(Table[system][i]) /\ i \notin silent[c]}
        IN  IF noTable[c] THEN disks[c] = <<>> ELSE
            /\ {disks[c][n] : n \in 1..Len(disks[c])} =
                {i \in told : Cardinality({j \in told : j <= i}) <= MaxDisks}
            /\ \A m, n \in 1..Len(disks[c]) : m < n => disks[c][m] < disks[c][n]

=============================================================================
