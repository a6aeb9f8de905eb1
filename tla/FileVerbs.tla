------------------------------ MODULE FileVerbs ------------------------------
(***************************************************************************)
(* The file verbs of Verbs.cpp on one path, as the system calls they make: *)
(*                                                                         *)
(*   write_file  stat, open O_EXCL of <path>.helios-tmp-<pid>, write loop, *)
(*               fsync, fchown, fchmod, rename over the path               *)
(*   put_file    the same on a body that arrives from the socket           *)
(*   read_file   stat, open, read loop up to the stat'd size               *)
(*   get_file    open, fstat of the descriptor, read loop                  *)
(*   stat        lstat                                                     *)
(*                                                                         *)
(* Requests are served by forked children, several at a time; a child may  *)
(* be killed and the host may crash between any two system calls, and a    *)
(* pid that is free is used again.                                         *)
(*                                                                         *)
(* A file's data is a sequence of blocks, each marked with the request     *)
(* that wrote it.  An inode is named by the request that creates it.       *)
(* Directory operations are durable when they return (the synchronous      *)
(* metadata of the BSD and System V file systems the agent runs on); data  *)
(* is durable once it is fsync'ed.                                         *)
(***************************************************************************)
EXTENDS Naturals, Sequences

CONSTANTS
    Request,     \* requests, each served at most once
    Workload,    \* the ways the requests may be made: functions to Calls
    Orig,        \* the inode the path may hold at the start
    Pid,         \* process ids of the forked children
    Verb,        \* the file verbs
    User, Root,  \* effective users; Root is the daemon's
    Mode,        \* permission bits
    TempMode,    \* 0600
    DefaultMode, \* 0644
    NoMode,      \* a request without "mode"
    Strip,       \* Strip[m]: what chown leaves of m (it clears setuid/setgid)
    MaxBlocks,   \* largest file, in blocks
    OrigAttrs,   \* mode and owner the original file may have
    Size,        \* Size[v]: blocks of the content of v
    NoFile, Dir, \* what the path names when it is not a regular file
    MayFail      \* MayFail[r]: those of fsync(), fchown() and fchmod() that may
                 \* fail in r, unnoticed: the verbs do not look at their results

Version == Request \cup {Orig}
Attrs == [mode : Mode, owner : User]
Calls == [pid : Pid, verb : Verb, user : User, mode : Mode \cup {NoMode}]
Writers == {"write_file", "put_file"}
Readers == {"read_file", "get_file", "stat"}

ASSUME OrigAssumption == Orig \notin Request
ASSUME NameAssumption == NoFile # Dir /\ {NoFile, Dir} \cap Version = {}
ASSUME VerbAssumption == Verb \subseteq Writers \cup Readers
ASSUME WorkloadAssumption == Workload \subseteq [Request -> Calls]
ASSUME UserAssumption == Root \in User
ASSUME ModeAssumption ==
    /\ {TempMode, DefaultMode} \subseteq Mode
    /\ NoMode \notin Mode
    /\ Strip \in [Mode -> Mode]
    /\ Strip[TempMode] = TempMode
    /\ OrigAttrs \subseteq Attrs
ASSUME SizeAssumption == MaxBlocks \in Nat /\ Size \in [Version -> 0..MaxBlocks]
ASSUME FailAssumption ==
    MayFail \in [Request -> SUBSET {"fsync", "fchown", "fchmod"}]

VARIABLES
    call,    \* call[r]: the request's verb, user and mode, and who serves it
    pc,      \* pc[r]: the system call the verb is about to make
    saw,     \* saw[r]: what stat()/fstat() returned
    fd,      \* fd[r]: the inode the verb's descriptor refers to
    off,     \* off[r]: `written`, the blocks written so far
    out,     \* out[r]: the blocks read so far
    target,  \* the inode the path names
    temp,    \* temp[p]: the inode <path>.helios-tmp-<p> names
    blocks,  \* blocks[i]: the data of inode i
    meta,    \* meta[i]: its mode and owner
    synced,  \* inodes whose data is on disk
    unsafe,  \* history: inodes whose fsync() failed
    unset    \* history: unset[r], the attributes of its file that the fchown()
             \* or the fchmod() of r failed to set

proc == <<pc, saw, fd, off, out>>
fs   == <<target, temp, blocks, meta, synced>>
vars == <<call, unsafe, unset, proc, fs>>

Stats == [there : BOOLEAN, ino : Version, size : 0..MaxBlocks, mode : Mode,
          owner : User]

\* A request is served in a Live state, and is over in a Done state.
\* "closed": the socket died in a put_file body; "dead": killed or crashed.
Live == {"stat", "open", "fstat", "read", "write", "chown", "chmod", "rename",
         "reply"}
Done == {"ok", "err", "closed", "dead"}

IsWriter(r) == call[r].verb \in Writers
Pids(r)     == call[r].pid

\* The content of version v, all of it.
Whole(v) == [k \in 1..Size[v] |-> v]

\* The first n blocks of version v.
Part(v, n) == [k \in 1..n |-> v]

\* A file's data is not one of the names for "no regular file".
ASSUME DataAssumption ==
    \A v \in Version : \A n \in 0..MaxBlocks : Part(v, n) \notin {NoFile, Dir}

\* Writing block v at offset n of s.
WriteAt(s, n, v) ==
    IF n < Len(s) THEN [s EXCEPT ![n + 1] = v] ELSE Append(s, v)

NoStat == [there |-> FALSE, ino |-> Orig, size |-> 0, mode |-> TempMode,
           owner |-> Root]
StatOf(i) == [there |-> TRUE, ino |-> i, size |-> Len(blocks[i]),
              mode |-> meta[i].mode, owner |-> meta[i].owner]

Init ==
    /\ call \in Workload
    /\ pc = [r \in Request |-> "new"]
    /\ saw = [r \in Request |-> NoStat]
    /\ fd = [r \in Request |-> NoFile]
    /\ off = [r \in Request |-> 0]
    /\ out = [r \in Request |-> <<>>]
    /\ target \in {NoFile, Dir, Orig}
    /\ temp = [p \in Pid |-> NoFile]
    /\ blocks = [i \in Version |-> IF i = Orig THEN Whole(Orig) ELSE <<>>]
    /\ \E a \in OrigAttrs : meta = [i \in Version |-> a]
    /\ synced = {Orig}
    /\ unsafe = {}
    /\ unset = [r \in Request |-> {}]

Goto(r, s) == pc' = [pc EXCEPT ![r] = s]

(***************************************************************************)
(* The steps of a request.                                                 *)
(***************************************************************************)

\* The child with this pid takes the request up; it serves one at a time, and
\* no two live processes share a pid.
Begin(r) ==
    /\ pc[r] = "new"
    /\ \A q \in Request : Pids(q) = Pids(r) => pc[q] \notin Live
    /\ Goto(r, IF call[r].verb = "get_file" THEN "open" ELSE "stat")
    /\ UNCHANGED <<call, unsafe, unset, saw, fd, off, out, fs>>

\* write_file, put_file: stat() the target; anything but a regular file is
\* refused, a missing one is fine.
WriteStat(r) ==
    /\ pc[r] = "stat" /\ IsWriter(r)
    /\ Goto(r, IF target = Dir THEN "err" ELSE "open")
    /\ saw' = IF target \in Version
              THEN [saw EXCEPT ![r] = StatOf(target)] ELSE saw
    /\ UNCHANGED <<call, unsafe, unset, fd, off, out, fs>>

\* read_file: stat() the path, before it is opened.
ReadStat(r) ==
    /\ pc[r] = "stat" /\ call[r].verb = "read_file"
    /\ Goto(r, IF target \in Version THEN "open" ELSE "err")
    /\ saw' = IF target \in Version
              THEN [saw EXCEPT ![r] = StatOf(target)] ELSE saw
    /\ UNCHANGED <<call, unsafe, unset, fd, off, out, fs>>

\* Mutant of CreateTemp: the temp file is created 0644.
CreateTemp_0644(r) ==
    /\ pc[r] = "open" /\ IsWriter(r)
    /\ temp[Pids(r)] = NoFile
    /\ Goto(r, "write")
    /\ fd' = [fd EXCEPT ![r] = r]
    /\ temp' = [temp EXCEPT ![Pids(r)] = r]
    /\ meta' = [meta EXCEPT ![r] =
                  [mode |-> DefaultMode, owner |-> call[r].user]]
    /\ UNCHANGED <<call, unsafe, unset, saw, off, out, target, blocks, synced>>

\* open( tmp, O_CREAT | O_EXCL, 0600 ) makes a new inode ...
CreateTemp(r) ==
    /\ pc[r] = "open" /\ IsWriter(r)
    /\ temp[Pids(r)] = NoFile
    /\ Goto(r, "write")
    /\ fd' = [fd EXCEPT ![r] = r]
    /\ temp' = [temp EXCEPT ![Pids(r)] = r]
    /\ meta' = [meta EXCEPT ![r] =
                  [mode |-> TempMode, owner |-> call[r].user]]
    /\ UNCHANGED <<call, unsafe, unset, saw, off, out, target, blocks, synced>>

\* ... and fails when the name is taken.
TempTaken(r) ==
    /\ pc[r] = "open" /\ IsWriter(r)
    /\ temp[Pids(r)] # NoFile
    /\ Goto(r, "err")
    /\ UNCHANGED <<call, unsafe, unset, saw, fd, off, out, fs>>

\* open() or stat() refused by the file system (permissions, space).
Refused(r) ==
    /\ pc[r] = "open" \/ (pc[r] = "stat" /\ ~IsWriter(r))
    /\ Goto(r, "err")
    /\ UNCHANGED <<call, unsafe, unset, saw, fd, off, out, fs>>

\* One write() of the loop.
WriteBlock(r) ==
    /\ pc[r] = "write" /\ off[r] < Size[r]
    /\ blocks' = [blocks EXCEPT ![fd[r]] = WriteAt(@, off[r], r)]
    /\ off' = [off EXCEPT ![r] = @ + 1]
    /\ synced' = synced \ {fd[r]}
    /\ UNCHANGED <<call, unsafe, unset, pc, saw, fd, out, target, temp, meta>>

\* write() fails: close, unlink the temp name, answer an error.
WriteError(r) ==
    /\ pc[r] = "write" /\ off[r] < Size[r]
    /\ Goto(r, "err")
    /\ temp' = [temp EXCEPT ![Pids(r)] = NoFile]
    /\ UNCHANGED <<call, unsafe, unset, saw, fd, off, out, target, blocks, meta,
                   synced>>

\* Mutant of BodyLost: the temp file is not unlinked.
BodyLost_Leak(r) ==
    /\ pc[r] = "write" /\ off[r] < Size[r]
    /\ call[r].verb = "put_file"
    /\ Goto(r, "closed")
    /\ UNCHANGED <<call, unsafe, unset, saw, fd, off, out, fs>>

\* put_file only: the socket fails in the body; close, unlink, no reply.
BodyLost(r) ==
    /\ pc[r] = "write" /\ off[r] < Size[r]
    /\ call[r].verb = "put_file"
    /\ Goto(r, "closed")
    /\ temp' = [temp EXCEPT ![Pids(r)] = NoFile]
    /\ UNCHANGED <<call, unsafe, unset, saw, fd, off, out, target, blocks, meta,
                   synced>>

\* Mutant of Sync: no fsync.
Sync_Missing(r) ==
    /\ pc[r] = "write" /\ off[r] = Size[r]
    /\ Goto(r, "chown")
    /\ UNCHANGED <<call, unsafe, unset, saw, fd, off, out, fs>>

\* The loop is over: fsync(), whose result nobody looks at.
Sync(r) ==
    /\ pc[r] = "write" /\ off[r] = Size[r]
    /\ Goto(r, "chown")
    /\ \/ synced' = synced \cup {fd[r]} /\ UNCHANGED unsafe
       \/ /\ "fsync" \in MayFail[r]
          /\ unsafe' = unsafe \cup {fd[r]} /\ UNCHANGED synced
    /\ UNCHANGED <<call, unset, saw, fd, off, out, target, temp, blocks, meta>>

\* Mutant of FinalMode: the mode of an existing file is not preserved.
FinalMode_Reset(r) ==
    IF call[r].mode # NoMode THEN call[r].mode ELSE DefaultMode

\* An explicit mode wins; else the mode of the file stat() saw; else 0644.
FinalMode(r) ==
    IF call[r].mode # NoMode THEN call[r].mode
    ELSE IF saw[r].there THEN saw[r].mode ELSE DefaultMode

\* The owner of an existing file is kept when the process is root.
KeepsOwner(r) == saw[r].there /\ call[r].user = Root

\* fchown( st owner ) strips setuid and setgid.
Chowned(r, a) ==
    IF KeepsOwner(r) THEN [mode |-> Strip[a.mode], owner |-> saw[r].owner] ELSE a

\* Mutant of Chmoded: fchmod() before fchown().
Chmoded_Early(r, a) ==
    [a EXCEPT !.mode = IF KeepsOwner(r) THEN Strip[FinalMode(r)] ELSE FinalMode(r)]

\* fchmod( finalMode )
Chmoded(r, a) == [a EXCEPT !.mode = FinalMode(r)]

\* fchown(), whose result nobody looks at ...
Chown(r) ==
    /\ pc[r] = "chown"
    /\ Goto(r, "chmod")
    /\ \/ /\ meta' = [meta EXCEPT ![fd[r]] = Chowned(r, @)]
          /\ UNCHANGED unset
       \/ /\ "fchown" \in MayFail[r] /\ KeepsOwner(r)
          /\ unset' = [unset EXCEPT ![r] = @ \cup {"owner"}]
          /\ UNCHANGED meta
    /\ UNCHANGED <<call, unsafe, saw, fd, off, out, target, temp, blocks, synced>>

\* Mutant of Chmod: the path's mode set, not the descriptor's.
Chmod_ByPath(r) ==
    /\ pc[r] = "chmod"
    /\ Goto(r, "rename")
    /\ meta' = [meta EXCEPT ![IF target \in Version THEN target ELSE fd[r]] =
                  Chmoded(r, @)]
    /\ UNCHANGED <<call, unsafe, unset, saw, fd, off, out, target, temp, blocks,
                   synced>>

\* ... and fchmod(), the same.
Chmod(r) ==
    /\ pc[r] = "chmod"
    /\ Goto(r, "rename")
    /\ \/ /\ meta' = [meta EXCEPT ![fd[r]] = Chmoded(r, @)]
          /\ UNCHANGED unset
       \/ /\ "fchmod" \in MayFail[r]
          /\ unset' = [unset EXCEPT ![r] = @ \cup {"mode"}]
          /\ UNCHANGED meta
    /\ UNCHANGED <<call, unsafe, saw, fd, off, out, target, temp, blocks, synced>>

\* rename( tmp, path ): the path now names whatever tmp named.
Rename(r) ==
    /\ pc[r] = "rename"
    /\ temp[Pids(r)] # NoFile /\ target # Dir
    /\ Goto(r, "reply")
    /\ target' = temp[Pids(r)]
    /\ temp' = [temp EXCEPT ![Pids(r)] = NoFile]
    /\ UNCHANGED <<call, unsafe, unset, saw, fd, off, out, blocks, meta, synced>>

\* Mutant of RenameError: the temp file is not unlinked.
RenameError_Leak(r) ==
    /\ pc[r] = "rename"
    /\ Goto(r, "err")
    /\ UNCHANGED <<call, unsafe, unset, saw, fd, off, out, fs>>

\* rename() fails: unlink the temp name, answer an error.
RenameError(r) ==
    /\ pc[r] = "rename"
    /\ Goto(r, "err")
    /\ temp' = [temp EXCEPT ![Pids(r)] = NoFile]
    /\ UNCHANGED <<call, unsafe, unset, saw, fd, off, out, target, blocks, meta,
                   synced>>

\* read_file, get_file: open( path, O_RDONLY ).
ReadOpen(r) ==
    /\ pc[r] = "open" /\ ~IsWriter(r)
    /\ target # NoFile
    /\ Goto(r, IF call[r].verb = "get_file" THEN "fstat" ELSE "read")
    /\ fd' = [fd EXCEPT ![r] = target]
    /\ UNCHANGED <<call, unsafe, unset, saw, off, out, fs>>

OpenMissing(r) ==
    /\ pc[r] = "open" /\ ~IsWriter(r)
    /\ target = NoFile
    /\ Goto(r, "err")
    /\ UNCHANGED <<call, unsafe, unset, saw, fd, off, out, fs>>

\* Mutant of GetStat: stat() of the path instead of the descriptor.
GetStat_ByPath(r) ==
    /\ pc[r] = "fstat" /\ fd[r] # Dir
    /\ Goto(r, "read")
    /\ saw' = [saw EXCEPT ![r] = StatOf(target)]
    /\ UNCHANGED <<call, unsafe, unset, fd, off, out, fs>>

\* get_file: fstat() the open descriptor, and refuse a directory.
GetStat(r) ==
    /\ pc[r] = "fstat" /\ fd[r] # Dir
    /\ Goto(r, "read")
    /\ saw' = [saw EXCEPT ![r] = StatOf(fd[r])]
    /\ UNCHANGED <<call, unsafe, unset, fd, off, out, fs>>

GetNotRegular(r) ==
    /\ pc[r] = "fstat" /\ fd[r] = Dir
    /\ Goto(r, "err")
    /\ UNCHANGED <<call, unsafe, unset, saw, fd, off, out, fs>>

\* Mutant of MoreToRead: the last block is left out.
MoreToRead_OneLess(r) ==
    Len(out[r]) + 1 < saw[r].size /\ Len(out[r]) < Len(blocks[fd[r]])

\* One read() of the loop: another block, while there is one and the stat'd
\* size is not reached; then the loop ends.
MoreToRead(r) == Len(out[r]) < saw[r].size /\ Len(out[r]) < Len(blocks[fd[r]])

ReadBlock(r) ==
    /\ pc[r] = "read" /\ MoreToRead(r)
    /\ out' = [out EXCEPT ![r] = Append(@, blocks[fd[r]][Len(@) + 1])]
    /\ UNCHANGED <<call, unsafe, unset, pc, saw, fd, off, fs>>

ReadEnd(r) ==
    /\ pc[r] = "read" /\ ~MoreToRead(r)
    /\ Goto(r, "reply")
    /\ UNCHANGED <<call, unsafe, unset, saw, fd, off, out, fs>>

\* read() fails: read_file answers an error; get_file has answered "ok" with
\* its header, stops short of the byte count announced there and says no more.
ReadError(r) ==
    /\ pc[r] = "read" /\ Len(out[r]) < saw[r].size
    /\ Goto(r, IF call[r].verb = "get_file" THEN "reply" ELSE "err")
    /\ UNCHANGED <<call, unsafe, unset, saw, fd, off, out, fs>>

\* The verb returns, its reply composed; get_file has sent all of its own.
Reply(r) ==
    /\ pc[r] = "reply"
    /\ Goto(r, "ok")
    /\ UNCHANGED <<call, unsafe, unset, saw, fd, off, out, fs>>

\* stat: lstat() of the path, and the reply has what it said.
Lstat(r) ==
    /\ pc[r] = "stat" /\ call[r].verb = "stat"
    /\ Goto(r, IF target = NoFile THEN "err" ELSE "reply")
    /\ saw' = IF target \in Version
              THEN [saw EXCEPT ![r] = StatOf(target)] ELSE saw
    /\ UNCHANGED <<call, unsafe, unset, fd, off, out, fs>>

(***************************************************************************)
(* Failures.                                                               *)
(***************************************************************************)

\* The child is killed, or a socket error ends it: nothing is cleaned up.
Kill(r) ==
    /\ pc[r] \in Live
    /\ Goto(r, "dead")
    /\ UNCHANGED <<call, unsafe, unset, saw, fd, off, out, fs>>

\* The host goes down: every process is gone, data that was not synced is
\* cut anywhere.
HostCrash ==
    /\ \E r \in Request : pc[r] \in Live
    /\ pc' = [r \in Request |-> IF pc[r] \in Live THEN "dead" ELSE pc[r]]
    /\ \E keep \in [{i \in Version \ synced : blocks[i] # <<>>} -> 0..MaxBlocks] :
         blocks' = [i \in Version |->
                      IF i \in DOMAIN keep /\ keep[i] < Len(blocks[i])
                      THEN SubSeq(blocks[i], 1, keep[i]) ELSE blocks[i]]
    /\ synced' = Version
    /\ UNCHANGED <<call, unsafe, unset, saw, fd, off, out, target, temp, meta>>

Write(r) ==
    \/ WriteStat(r) \/ CreateTemp(r) \/ TempTaken(r) \/ WriteBlock(r)
    \/ WriteError(r) \/ BodyLost(r) \/ Sync(r) \/ Chown(r) \/ Chmod(r)
    \/ Rename(r) \/ RenameError(r)

Read(r) ==
    \/ ReadStat(r) \/ ReadOpen(r) \/ OpenMissing(r) \/ GetStat(r)
    \/ GetNotRegular(r) \/ ReadBlock(r) \/ ReadEnd(r) \/ ReadError(r) \/ Lstat(r)

Next == HostCrash \/ \E r \in Request :
            Begin(r) \/ Refused(r) \/ Reply(r) \/ Kill(r) \/ Write(r) \/ Read(r)

Spec == Init /\ [][Next]_vars

(***************************************************************************)
(* Properties.                                                             *)
(***************************************************************************)

\* Every variable has its type.
TypeOK ==
    /\ call \in [Request -> Calls]
    /\ pc \in [Request -> {"new"} \cup Live \cup Done]
    /\ saw \in [Request -> Stats]
    /\ fd \in [Request -> Version \cup {NoFile, Dir}]
    /\ off \in [Request -> 0..MaxBlocks]
    /\ out \in [Request -> Seq(Version)]
    /\ target \in Version \cup {NoFile, Dir}
    /\ temp \in [Pid -> Version \cup {NoFile}]
    /\ blocks \in [Version -> Seq(Version)]
    /\ meta \in [Version -> Attrs]
    /\ synced \subseteq Version /\ unsafe \subseteq Version
    /\ unset \in [Request -> SUBSET {"mode", "owner"}]

\* Whoever looks at the path at any moment, in the middle of any number of
\* concurrent writes or after any crash, finds one complete version
\* (verbWriteFile and verbPutFileStream: temp, fsync, rename), unless it is
\* that of a writer whose own fsync() failed, which the verbs do not notice.
TargetWhole ==
    target \in Version \ unsafe => \E v \in Version : blocks[target] = Whole(v)

\* Once the path names an inode nobody changes that inode's data, mode or
\* owner, not even when the path has gone on to name another one (attributes
\* are set before the rename, not fixed up after it), unless its fsync() failed.
Published(i) ==
    \/ i = target
    \/ i \in Request /\ IsWriter(i) /\ pc[i] \in {"reply", "ok"}

PublishedImmutable ==
    [][\A i \in Version \ unsafe : Published(i) =>
         blocks'[i] = blocks[i] /\ meta'[i] = meta[i]]_vars

\* A temp file that exists belongs to a request in progress under that pid,
\* or to one whose process was killed: no error path leaves one behind.
NoStrayTemp ==
    \A p \in Pid : temp[p] # NoFile =>
        \E r \in Request :
            /\ Pids(r) = p
            /\ pc[r] \in {"write", "chown", "chmod", "rename", "dead"}
            /\ temp[p] = r

\* Before its rename a temp file is only its owner's business: it never has
\* more than the 0600 it was created with until the data is complete.
TempPrivate ==
    \A p \in Pid : temp[p] \in Version \ unsafe =>
        \/ meta[temp[p]].mode = TempMode
        \/ \E v \in Version : blocks[temp[p]] = Whole(v)

\* The attributes the file of writer r ends up with: those asked for or kept,
\* except that a failing fchmod() leaves the 0600 of its creation and a failing
\* fchown() leaves it with the user that wrote it.
Given(r) ==
    [mode  |-> IF "mode" \in unset[r] THEN TempMode ELSE FinalMode(r),
     owner |-> IF KeepsOwner(r) /\ "owner" \notin unset[r]
               THEN saw[r].owner ELSE call[r].user]

\* A successful write reply reports the mode the new file really has, unless
\* its fchmod() failed: chown clears setuid and setgid, and the chmod that
\* follows puts them back.
ReplyMode ==
    \A r \in Request :
        (IsWriter(r) /\ pc[r] \in {"reply", "ok"} /\ "mode" \notin unset[r]) =>
            meta[r].mode = FinalMode(r)

\* A write without "mode" over an existing file keeps that file's mode, and
\* its owner when the daemon writes as root; a new file gets 0644.  The excuse
\* is a failing fchmod() or fchown() of that very request, which the reply
\* does not tell: the file is then nobody's but its writer's, 0600.
KeepsAttrs(r) ==
    LET old == meta[target]
        new == meta'[target']
    IN  /\ IF "mode" \in unset[r] THEN new.mode = TempMode
           ELSE /\ target = NoFile => new.mode = DefaultMode
                /\ target \in Version => new.mode = old.mode
        /\ (target \in Version /\ call[r].user = Root /\ "owner" \notin unset[r])
              => new.owner = old.owner

\* It takes both from a stat() made before its temp file: what another
\* connection does to the path in between is undone, so this is about requests
\* of one connection.
OneConnection == \A q, r \in Request : Pids(q) = Pids(r)

AttrsPreserved ==
    [][\A r \in Request :
         (/\ OneConnection /\ call[r].mode = NoMode
          /\ pc[r] = "rename" /\ pc'[r] = "reply") => KeepsAttrs(r)]_vars

\* get_file has its size from the descriptor it reads; read_file has it from
\* the path, before it opens it, which is the same when it is alone.
Steady(r) ==
    call[r].verb = "get_file" \/ (call[r].verb = "read_file" /\ OneConnection)

\* A read that answers "ok" is about one version, the one it opened: it
\* announces that version's size, and returns all of it, never a mix
\* (verbReadFile: "read a whole regular file").  A get_file may still stop short
\* of what its header announced; what it has sent by then is the beginning of
\* that version.  A version whose own fsync() failed may be any part of itself.
ReadWhole ==
    \A r \in Request :
        (Steady(r) /\ pc[r] = "ok" /\ fd[r] \notin unsafe) =>
            /\ saw[r].size = Size[fd[r]]
            /\ Len(out[r]) = saw[r].size \/
                 (call[r].verb = "get_file" /\ Len(out[r]) < saw[r].size)
            /\ out[r] = Part(fd[r], Len(out[r]))

\* The attributes of a version nobody will change any more.
FinalAttrs(i) == IF i \in Request THEN Given(i) ELSE meta[i]

\* Whoever asks stat for the path, at whatever moment of however many writes,
\* is told the size, the mode and the owner of the file the path named when it
\* looked; that is a complete version with the attributes its writer, by then
\* past the rename, was to give it, never a file in the making.
StatTrue ==
    \A r \in Request :
        (/\ call[r].verb = "stat" /\ pc[r] \in {"reply", "ok"}
         /\ saw[r].there) =>
            LET i == saw[r].ino
            IN  /\ i \in unsafe \/ saw[r].size = Size[i]
                /\ [mode |-> saw[r].mode, owner |-> saw[r].owner] = FinalAttrs(i)
                /\ i \in Request =>
                    IsWriter(i) /\ pc[i] \in {"reply", "ok", "dead"}

(***************************************************************************)
(* The inductive invariant the proofs use: what TargetWhole and the others *)
(* rest on.                                                                *)
(***************************************************************************)

Writing(r) == pc[r] \in {"write", "chown", "chmod", "rename"}

\* A child serves one request at a time.
PidInv ==
    \A q, r \in Request :
        pc[q] \in Live /\ pc[r] \in Live /\ Pids(q) = Pids(r) => q = r

\* The data of inode i is a prefix of its version.
Prefix(i) == blocks[i] = Part(i, Len(blocks[i])) /\ Len(blocks[i]) <= Size[i]

\* Inode i survives a crash, or its fsync() failed.
Durable(i) == i \in unsafe \/ (blocks[i] = Whole(i) /\ i \in synced)

\* Only a writer's fsync() fails, and only where it can.
UnsafeInv == unsafe \subseteq {r \in Request : "fsync" \in MayFail[r]}

\* A writer has the temp name and the inode behind it to itself, and the
\* inode holds exactly what it has written.
WriterInv ==
    \A r \in Request : Writing(r) =>
        /\ IsWriter(r)
        /\ fd[r] = r
        /\ temp[Pids(r)] = r
        /\ off[r] <= Size[r]
        /\ blocks[r] = Part(r, off[r])
        /\ pc[r] # "write" => off[r] = Size[r] /\ Durable(r)

\* The attributes of its file at each stage: those of its creation, then the
\* owner it ends up with, then the mode, too.
Draft(r) ==
    /\ pc[r] \in {"write", "chown"} =>
        unset[r] = {} /\ meta[r] = [mode |-> TempMode, owner |-> call[r].user]
    /\ pc[r] = "chmod" =>
        /\ "mode" \notin unset[r]
        /\ meta[r] = [mode |-> TempMode, owner |-> Given(r).owner]
    /\ pc[r] = "rename" => meta[r] = Given(r)

DraftInv == \A r \in Request : Writing(r) => Draft(r)

\* Before its temp file is made a request has written nothing.
FreshInv ==
    \A r \in Request :
        pc[r] \in {"new", "stat", "open"} =>
            blocks[r] = <<>> /\ off[r] = 0 /\ unset[r] = {}

\* A temp name belongs to the request that created it, which is still at
\* work or was killed; its mode is lifted only once its data is complete.
TempInv ==
    /\ temp \in [Pid -> Request \cup {NoFile}]
    /\ \A p \in Pid, r \in Request : temp[p] = r =>
        /\ Pids(r) = p
        /\ pc[r] \in {"write", "chown", "chmod", "rename", "dead"}
        /\ meta[r].mode # TempMode => Durable(r)

\* Nobody writes to inode i any more, its attributes are final, and its data
\* is complete and on disk.
Settled(i) ==
    /\ Durable(i) /\ Prefix(i)
    /\ \A p \in Pid : temp[p] # i
    /\ i \in Request =>
        pc[i] \in {"reply", "ok", "dead"} /\ IsWriter(i) /\ meta[i] = Given(i)

TargetInv == target \in Version => Settled(target)

\* What a writer has published is settled, even after the path names another.
PastInv ==
    \A r \in Request : IsWriter(r) /\ pc[r] \in {"reply", "ok"} => Settled(r)

\* What a reader has open is settled.
ReaderInv ==
    \A r \in Request :
        /\ pc[r] \in {"fstat", "read"} => ~IsWriter(r) /\ fd[r] # NoFile
        /\ ~IsWriter(r) =>
            /\ fd[r] \in Version => Settled(fd[r])
            /\ pc[r] \in {"new", "stat", "open", "fstat"} => out[r] = <<>>
            /\ pc[r] = "open" /\ call[r].verb = "read_file" => target \in Version
            /\ pc[r] = "fstat" => call[r].verb = "get_file"
            /\ pc[r] \in {"open", "read"} => call[r].verb # "stat"
            /\ pc[r] \in {"new", "stat"} => ~saw[r].there
            /\ pc[r] \in {"read", "reply", "ok"} /\ call[r].verb # "stat" =>
                fd[r] \in Version

\* The size is that of the inode that is opened, and what has been read is a
\* prefix of that inode's data.
GetInv ==
    \A r \in Request : Steady(r) =>
        /\ pc[r] = "open" /\ call[r].verb = "read_file" =>
            saw[r].size = Len(blocks[target])
        /\ pc[r] \in {"read", "reply"} => saw[r].size = Len(blocks[fd[r]])
        /\ pc[r] \in {"read", "reply", "ok"} =>
            /\ Len(out[r]) <= saw[r].size
            /\ out[r] = Part(fd[r], Len(out[r]))
        /\ pc[r] \in {"reply", "ok"} /\ call[r].verb = "read_file" =>
            Len(out[r]) = saw[r].size
        /\ pc[r] = "ok" /\ fd[r] \notin unsafe => saw[r].size = Size[fd[r]]

Inv ==
    /\ TypeOK
    /\ PidInv
    /\ UnsafeInv
    /\ WriterInv
    /\ DraftInv
    /\ FreshInv
    /\ TempInv
    /\ TargetInv
    /\ ReaderInv
    /\ PastInv
    /\ GetInv
    /\ StatTrue

(***************************************************************************)
(* The verbs implement AtomicFile, which does not see stat, nor read_file  *)
(* (whose size may be that of another file than the one it opens).         *)
(***************************************************************************)

Value(i) == IF i \in Version THEN blocks[i] ELSE i

Hidden(r) == call[r].verb \in {"read_file", "stat"}
Picked(r) == call[r].verb = "get_file" /\ pc[r] \in {"fstat", "read", "reply"}

\* What the abstract specification sees of a request at pc = s.
Phase(s) ==
    CASE s \in {"new", "ok", "err"} -> s
      [] s \in {"dead", "closed"} -> "lost"
      [] s \in {"reply", "fstat", "read"} -> "applied"
      [] OTHER -> "open"

\* A download that answered "ok" and then stopped short.
Short(r) ==
    call[r].verb = "get_file" /\ pc[r] = "ok" /\ Len(out[r]) # saw[r].size

Atomic == INSTANCE AtomicFile WITH
    Payload   <- [r \in Request |-> Whole(r)],
    Torn      <- [r \in Request |-> {Part(r, n) : n \in 0..Size[r]}],
    Fragile   <- {r \in Request : "fsync" \in MayFail[r]},
    Absent    <- NoFile,
    Directory <- Dir,
    Initial   <- {NoFile, Dir, Whole(Orig)},
    file      <- Value(target),
    tearable  <- IF target \in unsafe THEN {Part(target, n) : n \in 0..Size[target]} ELSE {},
    kind      <- [r \in Request |-> IF IsWriter(r) THEN "write" ELSE "read"],
    phase     <- [r \in Request |-> IF Hidden(r) THEN "new"
                                   ELSE IF Short(r) THEN "short" ELSE Phase(pc[r])],
    seen      <- [r \in Request |-> IF Picked(r) THEN Value(fd[r]) ELSE NoFile],
    result    <- [r \in Request |-> IF call[r].verb = "get_file" /\ pc[r] = "ok" /\ ~Short(r)
                                    THEN out[r] ELSE NoFile]

ImplementsAtomicFile == Atomic!Spec
=============================================================================
