# heliosAgent in TLA+

heliosAgent is the daemon that runs inside old Unix guests (Solaris, SunOS 4,
IRIX, NetBSD) and answers a line-oriented JSON protocol: it transfers files, runs
commands, reports on the system and shuts it down. This directory holds a model of
it in TLA+, the configurations that check the model with TLC, and proofs that
TLAPS checks. Line numbers are those of the sources the models were translated
from; `PROJECT.json` gives, for each definition, the lines it stands for.

    tlasany M.tla                        parse a module
    tlc -workers 2 -config X.cfg M       run a configuration
    tlapm --stretch 0.5 M_proofs.tla     check the proofs of a module

## 1. Inventory

| Component | State | Operations | What is hard | What makes it correct | Module |
|---|---|---|---|---|---|
| File verbs: `write_file`, `put_file`, `read_file`, `get_file`, `stat` (Verbs.cpp) | the file at a path, temp files, descriptors, fsync'ed or not | stat, open O_EXCL, write loop, fsync, chown/chmod, rename; stat/open/read; lstat | children on one path at the same time, a kill or a crash between any two calls; calls that fail, of which fsync, chown and chmod are not looked at | the path always names a complete version; nothing half-done stays; replies are true | FileVerbs, AtomicFile |
| Server loop (HeliosAgent.cpp `main`, `handleConnection`, `performShutdown`) | accept queue, descriptors in two processes, the shutdown intent | accept, fork, serve a line, close, run the shutdown | fork() fails and the daemon serves the connection itself; children die; the client leaves at any moment | everyone is served; the shutdown is performed by whom it was asked, after its reply, and once asked for is performed | Server |
| Streaming (Verbs.cpp `verbPutFileStream`, `verbGetFileStream`, Dispatch.cpp) | two byte streams, `remaining` | read a header, a body, drain, reply, send a body | pipelined requests; refusals and failures in the middle of a body; a shutdown among them | both ends always agree where the next line begins; one reply to each request | StreamFraming, Exchange |
| Dispatch, authentication, configuration (Dispatch.cpp, `main`, `heliosLoadSecretFile`) | options, environment, files; the posture | choose a secret, load a file, gate a request on either path | six sources with a precedence; files that are missing, broken or break while being read | fail-closed: a verb runs for whom the configuration lets in, and for nobody else | Access |
| Run-as-user guard (Verbs.cpp `HeliosPrivGuard`) | euid, egid, groups, saved egid | initgroups, setegid, seteuid, put back | each call may fail; the same process serves the next request, and inline service the next connections, and takes the SIGTERM | a verb works with the ids asked for; nothing of it stays | PrivGuard |
| Lifecycle (HeliosAgent.cpp `daemonize`, `writePidFile`, `termHandler`; init/heliosAgent) | processes and pids, the listening socket, the pidfile, pending SIGTERMs | start, stop, restart; bind, two forks, pidfile, signal, exit | the script and the daemon share only a file; pids are used again; children inherit handler and socket | one daemon; the pidfile names it; stop reaches it and nobody else | Lifecycle |
| `sysinfo` (SysInfo.cpp, Verbs.cpp `verbSysInfo`) | symbol addresses, one descriptor of /dev/kmem, the snapshot | startup; each collector; the loop over the mount table; the reply | children share the file offset of an inherited descriptor; any call may fail; a table of eight disks | a field is true or absent; the disks are the first that there are | SysInfo |
| Commands and reaping: `run_command`, `search`, `reapChildren` (Verbs.cpp, HeliosAgent.cpp) | a command, its deadline and output; SIGCHLD's disposition; zombies | fork, start, wait, kill, parse; handle SIGCHLD, re-arm | who reaps a command; a handler that resets itself; signals that coincide; the match that is one too many; a command that cannot be started | the status is that of the command; a search tells everything or says that it does not; no zombie stays; who sets a limit is answered | Commands |
| `list_dir`, `hello` | none | readdir and lstat; constants | - | - | not modelled |
| base64, JSON, log, IRIX and NetBSD init scripts, deploy.sh, makefile, test program | - | - | - | - | not modelled |

How they interact. The init script starts the daemon, which binds, detaches,
writes its pidfile (Lifecycle), fixes its posture (Access), looks at the kernel
(SysInfo) and then only accepts, forks and reaps (Server, Commands). A child is a copy of the daemon:
handler, pidfile path, posture, shutdown intent and /dev/kmem descriptor go with it,
and most of what is hard here comes from what it inherits and from the case in which
there is no child because fork() failed. In a child `handleConnection` takes a line;
`heliosHandleStreaming` looks at it first and `heliosDispatch` gets what is left, each
with its own gate (Access). A streaming verb then owns the socket (StreamFraming), and
every file verb runs under the guard (PrivGuard) and works on a path that children
share through the file system (FileVerbs).

The hazards that follow from this, each at its line and with the properties that
cover it, are listed in `PROJECT.json`.

## 2. Plan

The order in which the modules were written, the most important behaviour first. All of it
is done.

1. **FileVerbs** against the abstract **AtomicFile**: data is what the agent can lose.
2. **Server**: the loop, inline service, shutdown.
3. **StreamFraming** against the abstract **Exchange**: a wrong byte count breaks every later request.
4. **PrivGuard**: ids over requests and connections, and the SIGTERM that comes while the
   daemon itself works as a user.
5. **Lifecycle**: script, daemon, children.
6. **SysInfo**: the shared offset, then every collector.
7. **Access**: posture and gate.
8. **Commands**: `run_command` and `search` under their limits, with `reapChildren` and an
   external model of CxProcess from its use.

FileVerbs implements AtomicFile and StreamFraming implements Exchange (`INSTANCE ... WITH` in both). The
other modules meet at interfaces and not in a composition: a line in Server is one of five kinds whose
inside is StreamFraming's and Access's; PrivGuard's `inline`, Server's `Main` and Commands' `Daemon` as a
server are the same case. Compositions that would be worth having next: Server with Commands (a shutdown
waits for the command it runs, and its child is what reaps it), and Lifecycle with PrivGuard's inline
service in place of the latter's one SIGTERM.

## 3. Modules and the code

Every module has one action per system call, handler step or loop iteration; the failure of
a call is a disjunct or an action of its own. Operators named `<Action>_<What>` are mutants:
the action with a plausible bug in it, which the property they are listed with catches.

**FileVerbs.** A request has the pid of the child that serves it, a verb, a user and a mode.
`pc[r]` is the system call it is about to make; `Write` stands for `verbWriteFile` and
`verbPutFileStream`, which differ in the source of the data and in `BodyLost`; `Read` for
`verbReadFile` (stat of the path, then open) and `verbGetFileStream` (open, then fstat);
`Lstat` is the whole of `verbStat`. An inode is named by the request that creates it and its data is
a sequence of blocks marked with their writer, so a mixture or a part of a file shows. `Kill` and
`HostCrash` may come anywhere; a crash cuts unsynced data at any length. Where the code looks at a
result, the failure is an action; `fsync()`, `fchown()` and `fchmod()`, whose results it ignores, are
steps of their own that may have no effect (`MayFail`). `unsafe` is a history of failed fsyncs and
`unset` one of the attributes that were not set; the properties state what follows from either. A
get_file whose read() fails has answered ok already and stops short.

**AtomicFile.** What the verbs promise: a value that a write replaces in one step or not at
all, and that a download returns as it was at one instant. A version whose writer was told ok
although its fsync() failed may be torn by a crash, and only that. A download may answer and then
stop short.

**Server.** `mainAt` is the daemon's place in its loop, `server[c]` the process that serves
connection c (`c` itself for its child, `Main` for inline service), `held[c]` the processes
with its descriptor, `intent` those with `s_shutdownRequested` set; fork() copies the intent.
A line is blank, streaming, fatal to the framing, a shutdown or plain.

**StreamFraming.** One connection. The client's stream is counted in units, a header line
being one; `start[r]` says where headers are, and only the client knows. The daemon knows
`taken` and `left`, and its verbs' loops take chunks of up to `Chunk` units. `intent` is the shutdown
intent of the process, which it may have from another connection: a shutdown sets it, and the loop ends
after the answer to a line that finds it set (a streaming verb does not look).

**Exchange.** The same connection without a byte count: requests arrive, each is answered once and in
order, none before it has arrived whole, and the daemon ends the connection with the answer to a request
whose end it cannot tell, with that to a shutdown, with that to any line when it has the intent
of another's, or when the client has left. In the mapping a request has arrived whole when the
client owes nothing of its body, a reply is the number of the request it answers, and chunks, drains and
what get_file sends are stutters.

**Access.** main() goes through "options", "env", "stat", "load", "apply"; then a line goes
through "peek" and "dispatch" to "verb". What the configuration means is defined a second
time, without steps, as the reference: `Chosen` is what the code's order of sources gives, `Documented`
what PROTOCOL.md's gives, and `MayUse`, which the property is stated with, follows the latter.

**PrivGuard.** The ids of the serving process and of the daemon; a request goes through the
three calls of `drop()`, each of which may fail, the verb, and the destructor, which runs however
the verb ends. `Terminate` is `termHandler` in the daemon with the ids it has at the moment.

**Lifecycle.** Processes are pids at a place in the code, script runs are at a step of
init/heliosAgent. Faults are named (`Fault`), and `hit` is the history of those that have
happened: a property names the faults it does not survive, and all others may be there.

**SysInfo.** A symbol stands for its address and its value; `offset` is the one file offset. A collector is
an action of the system calls it needs, of which only the success is kept; the two that read kernel memory
are a seek and a read. The loop over the mount table is a step for each entry, with the cap of addDisk().
`together` is a history: two requests have overlapped; `silent` and `noTable` are histories of the entries
and tables that could not be asked. A mount table may have loopback mounts; `Shown` says which entries a
reply may have.

**Commands.** `by[c]` serves connection c's one request, `cmd[c]` is the command it starts, and
both it and `child[c]` may be zombies. `disp`, `pending` and `hand` are SIGCHLD in each process:
what its disposition is, whether one waits, where the handler is. Output is a sequence of lines
that are matches or not; what CxProcess reports when somebody else has reaped its command, or when it
could not start it (`SpawnFails`), is any status.

## 4. Runs

| Run | States | Question and answer |
|---|---|---|
| FileVerbs | 1,202,000 | A write_file, a put_file and a reader (read_file, get_file, stat) on one connection, or the same on three with get_file or stat for the reader, with and without a mode and a user, files of 0 to 2 blocks; every call that is looked at may fail, and so may fsync(), fchown() and fchmod() of put_file and fchmod() of write_file. TargetWhole, NoStrayTemp, TempPrivate, StatTrue, ReadWhole, PublishedImmutable hold under concurrency and crashes, and the verbs implement AtomicFile; AttrsPreserved, and ReadWhole for read_file, are about requests of one connection. |
| Server | 124,000 | Two clients, two lines between them, fork() may fail: safety, and liveness under fairness. |
| StreamFraming | 448,000 | Three pipelined requests, shutdown among them, with and without an inherited intent, bodies of up to three units against a chunk of two (a full chunk, a part, none): DaemonFramed, ClientFramed, Answered, and the verbs implement Exchange. |
| Access | 2,214,000 | Every configuration with two secrets and six kinds of file at three paths, every form of request: AsConfigured, against the documents' order of sources. |
| PrivGuard | 28,000 | Root and another starter, three users and an unknown one, three requests, three connections, any call of drop() failing, a SIGTERM at any moment: RunsAsAsked, EffectiveRestored, CleanStop. |
| Lifecycle | 1,937,000 | Two users of the script, three commands, one connection, any two kinds of faults: Findable, NoStalePid, OneDaemon, SignalsADaemon. |
| Lifecycle_live | 21,500 | One user, fork() may fail, fairness: StartedServes, LaunchServes. |
| SysInfo | 2,639,000 | Two children with two requests each on each of six systems, any outcome of startup, every failure, loopback mounts in the tables: FieldsTrueAlone, StaysAbsent, DisksListed. |
| Commands | 439,000 | Two connections, a run_command with a limit and one of five other requests, forked or inline, commands that cannot be started, children killed, System V and BSD: OwnStatus, SearchHonest, AllReaped, Answered. |
| StreamFraming_short | violated | ExactlyAsAnnounced: a file that shrinks while it is sent. |
| PrivGuard_groups | violated | GroupsRestored: the supplementary groups stay. |
| SysInfo_race | violated | FieldsTrue: two children on one offset (SunOS 4, one request each). |

**Why the bounds are enough.** Two writers and a reader on a path are every pair of system calls in every
order, and the reader that spans two writes; the properties of FileVerbs are about such pairs. Two of its
children may have one pid, one after the other. A server with two clients has one that is served and one
that waits or comes later; two lines are what it takes to ask something after a shutdown. Bodies of 0 to 3
units with a chunk of 2 are the boundaries of the loop; three requests are one before and one after the
request that fails. Three requests of PrivGuard are one that leaves something, one that finds it, and one to
make up for it. Four pids are a daemon, its successor, a child and a stranger; three commands are start,
restart and one in between; two kinds of faults let one fault hide another. A cap of two disks with tables
that hold three entries to show is full, and passed, with loopback mounts that take a disk's place, and
entries that are none before and between. Two connections of Commands are two zombies for one SIGCHLD, and a
command next to a child; the searches have less, as many and more matches than "max". The unchecked calls of
write_file and put_file are the same; one of them has all three failing, so that their combinations are
there. For FileVerbs, Server, StreamFraming, PrivGuard, Access, Lifecycle, SysInfo and Commands the theorems
say the same of most of the safety properties for all bounds (section 7).

**Symmetry** is used in Lifecycle, over pids and scripts, and in SysInfo, over children, in runs
without liveness; nothing there tells two of them apart.

**Deadlock** is off where the clients, requests or commands run out (each .cfg says so), and on in
Access, which never stops.

## 5. Fairness

- Server: weak fairness of the accept loop and of each connection's loop, while the machine is up.
  They are processes the kernel schedules, and the calls they block in return when there is a
  connection, a line, or an end of file. Clients and children's deaths are not fair.
- StreamFraming: weak fairness of the serving process. A client may stop in the middle of a body;
  `Answered` is about requests that arrived whole.
- Commands: weak fairness of each process that serves, of its handler, and of the deadline that
  CxProcess keeps for it. What a command does is not fair: it may print and run for ever. Nobody need
  connect. Of zombies, that is enough: the handler runs whenever a signal waits.
- Lifecycle: weak fairness of the script's steps (a shell) and of what a process does of its own
  accord, the delivery of a pending SIGTERM included. Clients, administrators and faults are not.
  The failing fork() is enabled whenever the working one is, so fairness never promises that it works.

## 6. Assumptions of the models

- Directory operations are durable when they return (synchronous metadata of UFS, FFS, EFS); data is
  once fsync() has worked. stat() fails only when there is nothing at the path.
- The child of fork() and the exit of its parent in `daemonize()` are one step.
- A SIGTERM that is not handled before the script goes on, or within the `sleep 1` of restart, is the
  fault "late"; scripts at the same time are "overlap"; a pid that a script is about to signal and that
  is given out again is "reuse".
- Calls of `drop()` may fail for root too (`Failing`); those of the destructor fail only where the
  kernel does not let the process make them.
- A SIGCHLD that comes while one waits adds nothing. On System V delivery resets the handler, and setting
  it again posts a SIGCHLD if there is a zombie; on BSD signals are held while the handler runs.
- grep exits 0 or 1 when it has printed everything it found, and 2 or more otherwise.
- A disk of a mount table has a path for its source and a size (`TableAssumption`, the comment at
  SysInfo.cpp:57-59). The converse is not assumed.
- What `getExitCode()` of a CxProcess reports that could not start its command is any status, its output is
  empty.
- A failing fchown() or fchmod() leaves owner and mode as they were. A read() of get_file that fails is the
  same to it as the end of the file.
- Numbers in requests and sizes of files are in the range of the types they are cast to.
- Sockets deliver in order what was sent. A reset that discards unread data is in Server (`RecvThrows`
  with lines still queued) but not in StreamFraming.
- The bytes of secrets, JSON, base64 and names are opaque values.

## 7. Proofs

For any values of the constants, from the assumptions named in the modules:

- **FileVerbs_proofs**: `Invariance` and from it TargetWhole, NoStrayTemp, TempPrivate, StatTrue, ReadWhole,
  PublishedImmutable, AttrsPreserved and that a reply is true but for its own failed fchmod(), whichever of
  fsync(), fchown() and fchmod() may fail. TargetWhole alone is not inductive: that what a rename publishes
  is complete rests on a writer having its temp name and inode to itself (`WriterInv`, `TempInv`), which
  rests on one live process per pid (`PidInv`) and O_EXCL; and what has been published must stay so
  (`Settled`, `TargetInv`, `PastInv`), with the attributes its writer gave it (`Given`, which `DraftInv`
  follows through fchown() and fchmod()). `Refinement`: every step maps to a step of AtomicFile or to a
  stutter. It needs what readers hold (`ReaderInv`, `GetInv`): an open inode is settled, and what a download
  has returned is a prefix of it. AttrsPreserved follows the attributes of the path from the stat() of a
  request that is alone on it to its rename. read_file does not implement a download (section 8); the
  mapping leaves it out.
- **Server_proofs**: `Invariance`, AckFirst, ShutdownOnlyIfAsked, NoDescriptorLeak, NothingAfterShutdown.
  `NobodyIsLost` and `ShutdownIsNotForgotten` are the safety behind EveryoneServed and IntentHonoured: a
  client is in the queue, at hand or served, and whoever dispatched a shutdown is not through before it is
  performed. The invariant follows a dispatched shutdown from place to place (`AskedInv`), says who can hold
  a descriptor where (`HeldInv`), and that without inline service the daemon never has the intent
  (`ForkedInv`).
- **StreamFraming_proofs**: `Invariance`, DaemonFramed, OneReplyEach, ClientFramed, for any sizes of bodies
  and chunks. `Position` is the heart: what was taken plus what is left is the end of the current body.
  `Refinement`: every step maps to a step of Exchange or to a stutter. It needs, besides, that a client owes
  no more than the last body (`OwedInv`) and that only a put_file has one that is received (`InPut`); then a
  verb that answers has taken the whole request. The intent is its `halting`. Behind Answered are
  `NeverStuck` (the daemon waits for no byte the client does not owe: when it waits, every request that is
  whole is answered) and `EveryStepCounts` (each of its steps takes some of what was sent or lowers a
  measure of what it does, `Stage`, so that its loops end).
- **PrivGuard_proofs**: `Invariance`, RunsAsAsked, EffectiveRestored, CleanStop, whichever calls of `drop()`
  fail. The invariant relates the ids to the ones the daemon was started with at every place, and allows a
  foreign egid only in a process in which a seteuid() has failed.
- **Access_proofs**: `Invariance`, AsConfigured, for any secrets and files. The posture is that of the
  code's order (`PostureInv`); a lemma relates it to the documents' order.
- **Lifecycle_proofs**: `Invariance`, OneDaemon, NoStalePid, Findable and SignalsADaemon, for any pids,
  scripts and faults. The first two are nearly inductive. Findable needs `Recorded`: what a daemon finds in
  its pidfile when it comes to write it, and that nobody has sent, or is about to send, a SIGTERM to a child
  of a connection. SignalsADaemon needs `Turns`: one script at a time looks for the daemon, and begins when
  no signal is under way. Each part holds only under the faults it names. `StartedIsTrue` is the safety behind
  StartedServes: with one user of the script, from "heliosAgent started" on there is a daemon that nobody has
  told to leave, until the script is used again or the machine goes down, unless a fork() fails or a process
  is killed (`Launched`).
- **SysInfo_proofs**: `Invariance`, FieldsTrueAlone, StaysAbsent, DisksListed. `ReadsFound` (a child reads
  what startup found) and `OffsetIsOwn` (alone, it finds the offset where it put it) make them inductive.
  DisksListed, for any table, with loopback mounts or without, and any cap: at every entry the list is the
  first that may be shown before it and gave their size (`DisksInv`). `OthersAreTrue` says how far the race
  of SysInfo_race reaches: not beyond the fields read from kernel memory.
- **Commands_proofs**: `Invariance`, OwnStatus, SearchHonest. A forked child has SIGCHLD at its default
  before it starts a command, so nobody but CxProcess takes its zombie; both theorems are about commands that
  were started; `count` is the number of matches
  among the lines parsed, which is a lemma about the cardinality of `Matches`. `NoZombieIsForgotten` is the
  safety behind AllReaped: for a zombie of the daemon's a SIGCHLD is pending or the handler has still to look
  (`Noticed`), and a command's zombie has a parent that is alive and waits for it (`ParentInv`).

The inductive invariants of FileVerbs, Server, StreamFraming, Access and Commands are invariants of runs;
those of PrivGuard, Lifecycle and SysInfo were evaluated by TLC on the instances above before they were
proved, and are left out of the runs because their conjuncts beyond the listed properties say only how the
proof goes.

Model-checked only: liveness (EveryoneServed, IntentHonoured, both Answered, AllReaped, StartedServes,
LaunchServes). Fairness and ENABLED are out of the prover's reach; of Server, StreamFraming, Commands and
Lifecycle the safety facts above, which the liveness rests on, are proved.

## 8. What does not hold

The models were written from the code, and these are the places where it does less than it, or its
documents, say. Three have a run, named in italics; the rest are the exception a property makes.

- get_file keeps the connection after a short read, and the client takes the next reply for the body
  (Verbs.cpp:846; PROTOCOL.md:164-166). *StreamFraming_short.* In FileVerbs such a download stops short of the
  size it announced, and ReadWhole says that what there is of it is right.
- Supplementary groups are not put back after a request with a user (Verbs.cpp:370). *PrivGuard_groups.*
- When seteuid() fails after setegid() has worked, the destructor does nothing and the egid stays the user's
  (Verbs.cpp:364); the comment at 350, "a failed drop leaves us at root", is true of the uid.
  EffectiveRestored has this exception.
- A SIGTERM while the daemon serves inline as a user unlinks the pidfile with that user's ids
  (HeliosAgent.cpp:204), and it stays. CleanStop has this exception.
- Children share one offset of /dev/kmem (SysInfo.cpp:624; also 436 on IRIX). *SysInfo_race.*
- The result of fsync() is ignored (Verbs.cpp:552, 745): the version is published and a crash may cut it.
  TargetWhole, PublishedImmutable and TempPrivate leave `unsafe` inodes out.
- So are those of fchown() and fchmod() (Verbs.cpp:568, 570, 752, 754): a write answers ok, with the mode it
  wanted to set (PROTOCOL.md:136 calls it the final permission bits), and the file is left 0600 or with the
  user that wrote it, where PROTOCOL.md:140 promises to preserve the mode and the owner.
  AttrsPreserved and `ReplyIsTrue` have these exceptions; stat tells the truth of such a file.
- The mode and owner to keep come from a stat() before the temp file was made (Verbs.cpp:560): a concurrent
  writer's mode is undone. AttrsPreserved is about one connection.
- read_file takes the size from a stat() of the path and then opens it (Verbs.cpp:412-420): after a rename
  in between it returns the new file cut at the old size. ReadWhole takes read_file on one connection only,
  and the refinement leaves read_file out. get_file does not have this.
- Inline service: the shutdown intent stays in the daemon and later children start with it
  (HeliosAgent.cpp:727, Verbs.cpp:1231), so ShutdownOnlyIfAsked has `Forked`; and the client that is served
  keeps the others waiting (HeliosAgent.cpp:691-694 says otherwise), so EveryoneServed has `Occupied`.
- The pidfile is removed before the shutdown command and not restored when it fails (HeliosAgent.cpp:270); a
  SIGTERM to the child of a connection removes the daemon's (203). Findable names both.
- The script is told of success at the first fork(), before the second and the pidfile (174, 655): nobody
  may serve after "heliosAgent started" (StartedServes names "fork"), and a stop at once finds no file.
- A file named by -S or HELIOS_SECRET_FILE that is in order but without a secret ends the search;
  PROTOCOL.md:226-229 and the comment at HeliosAgent.cpp:531-533 go on to the default file. AsConfigured is
  stated with the documents' order, and excepts the clients that are turned away because of it (`GoesOn`);
  nothing is opened by it.
- The comment at Dispatch.cpp:149 calls the gate a "no-op when no secret is configured". The code turns
  everyone away then, as PROTOCOL.md:240 says, and so does AsConfigured; its mutant is the comment.
- The result of CxProcess::run() is ignored (Verbs.cpp:248, 1143). A search whose grep could not be started
  has an empty output, and if `getExitCode()` is 0 or 1 it answers ok with a count of 0: the failure that
  the comment at 1191-1193 wants to be told from an empty result. OwnStatus and SearchHonest are about
  commands that were started (`Started`).
- A run_command that is served inline runs with the daemon's SIGCHLD handler, which may take its status
  (HeliosAgent.cpp:720); OwnStatus and SearchHonest are about forked children. A run_command without a limit
  waits for its command as long as that takes, so Answered is about requests with one.
- A search that its deadline cuts short answers ok (Verbs.cpp:1151: a status of -1 is parsed), and does not
  say that it was cut short; SearchHonest holds it to what grep had printed by then.
- A ninth disk is dropped without a word (SysInfo.cpp:75). DisksListed promises the first eight.
- Outside IRIX a loopback mount (lofs, nullfs) passes isLocalDisk() (SysInfo.cpp:60), is listed next to the
  disk it shows again, and may be one of the eight in place of a disk; SYSINFO_PLAN.md:70 wants "real local
  filesystems only". `Shown` has it.
- The fixed set of mounts that SYSINFO_PLAN.md:71-73 wants tried when there is no mount table is not in the
  code: the list is empty, as PROTOCOL.md:73-75 has it. DisksListed says so.
- On Solaris and SunOS 4 statvfs() is called before the source of a mount is looked at (SysInfo.cpp:378), so a
  remote file server that is down holds a sysinfo up. How long is the kernel's business: not modelled.

## 9. Not modelled

- *list_dir*: it changes nothing and keeps nothing. What readdir() returns of a directory that others rename
  in is the file system's choice, so that a model would check its own assumption; its ids are PrivGuard's.
- *hello*: constants, the host's name and the time since the start; no state.
- *CxProcess*: outside this repository; Commands has what the verbs rely on (start, collect, kill, wait).
- *base64, JSON, log*: no property looks at the data; the parser is outside this repository.
- *Numeric casts* of sizes and request fields (Verbs.cpp:245, 425, 662): the results out of range are
  undefined or cut, and the protocol sets no limits to hold them against. The percentage of a disk is left
  out with the rest of the numbers of SysInfo.
- *IRIX and NetBSD scripts*: start, stop and restart of the first are those of Lifecycle, the second's are
  in rc.subr. *deploy.sh, makefile, build script*: they install and build.
- *test program*: one process that calls heliosDispatch().
