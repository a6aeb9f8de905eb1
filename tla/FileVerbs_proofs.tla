--------------------------- MODULE FileVerbs_proofs ---------------------------
(***************************************************************************)
(* Proofs about FileVerbs: its inductive invariant and what follows.       *)
(***************************************************************************)
EXTENDS FileVerbs, TLAPS

\* A prefix of a version is a sequence of its length, and the next block
\* extends it by one.
LEMMA PartFacts ==
    ASSUME NEW v, NEW n \in Nat
    PROVE  /\ Part(v, n) \in Seq({v})
           /\ Len(Part(v, n)) = n
           /\ \A k \in 1..n : Part(v, n)[k] = v
           /\ Part(v, 0) = <<>>
           /\ Append(Part(v, n), v) = Part(v, n + 1)
<1>1. Part(v, n) \in Seq({v}) /\ Len(Part(v, n)) = n
    BY DEF Part
<1>2. Part(v, 0) = <<>>
    BY DEF Part
<1>3. Append(Part(v, n), v) = Part(v, n + 1)
    BY <1>1 DEF Part
<1> QED
    BY <1>1, <1>2, <1>3 DEF Part

\* The same for a sequence known to be a part.
LEMMA PartNext ==
    ASSUME NEW v, NEW n \in Nat, NEW s, s = Part(v, n)
    PROVE  Len(s) = n /\ Append(s, v) = Part(v, n + 1)
BY PartFacts

\* A prefix of a sequence, as a crash leaves it, is a sequence.
LEMMA SubSeqType ==
    ASSUME NEW S, NEW s \in Seq(S), NEW n \in Nat, n <= Len(s)
    PROVE  SubSeq(s, 1, n) \in Seq(S)
OBVIOUS

LEMMA EmptyPart == \A v : Len(<<>>) = 0 /\ Part(v, 0) = <<>>
BY DEF Part

\* A whole version is a part of full size.
LEMMA WholeFacts ==
    ASSUME NEW v \in Version
    PROVE  /\ Whole(v) = Part(v, Size[v])
           /\ Whole(v) \in Seq(Version)
           /\ Len(Whole(v)) = Size[v]
           /\ Size[v] \in 0..MaxBlocks
           /\ \A k \in 1..Size[v] : Whole(v)[k] = v
<1>1. Size[v] \in 0..MaxBlocks /\ MaxBlocks \in Nat
    BY SizeAssumption
<1> QED
    BY <1>1 DEF Whole, Part

\* The pid that serves a request is a pid.
LEMMA PidsType == ASSUME TypeOK, NEW r \in Request PROVE Pids(r) \in Pid
    BY DEF TypeOK, Calls, Pids


\* The initial states satisfy the invariant.
LEMMA InitInv == Init => Inv
<1> SUFFICES ASSUME Init PROVE Inv
    OBVIOUS
<1>1. TypeOK
    BY OrigAssumption, NameAssumption, WorkloadAssumption, UserAssumption,
       ModeAssumption, SizeAssumption
    DEF Init, TypeOK, Whole, NoStat, Stats, Version
<1>2. PidInv /\ UnsafeInv /\ WriterInv /\ DraftInv /\ FreshInv /\ TempInv /\ ReaderInv /\ PastInv
    BY OrigAssumption, NameAssumption, WorkloadAssumption
    DEF Init, PidInv, UnsafeInv, WriterInv, DraftInv, FreshInv, TempInv, ReaderInv,
        PastInv, Live, Writing, Version, Whole, IsWriter, NoStat
<1>3. TargetInv
  <2>1. target = Orig => blocks[Orig] = Whole(Orig) /\ Prefix(Orig) /\ Orig \in synced
      BY WholeFacts DEF Init, Prefix, Version
  <2> QED
      BY <2>1, OrigAssumption, NameAssumption
      DEF Init, TargetInv, Settled, Durable, Version
<1>4. GetInv /\ StatTrue
    BY DEF Init, GetInv, StatTrue
<1> QED
    BY <1>1, <1>2, <1>3, <1>4 DEF Inv

(***************************************************************************)
(* What every step leaves alone.                                           *)
(***************************************************************************)

\* A step of request r, whatever it is.
RequestStep(r) ==
    Begin(r) \/ Refused(r) \/ Reply(r) \/ Kill(r) \/ Write(r) \/ Read(r)

\* It leaves the other requests alone.
LEMMA Others ==
    ASSUME TypeOK, NEW r \in Request, RequestStep(r)
    PROVE  /\ call' = call /\ unsafe \subseteq unsafe'
           /\ pc' \in [Request -> {"new"} \cup Live \cup Done]
           /\ \A q \in Request : q # r =>
                /\ pc'[q] = pc[q] /\ saw'[q] = saw[q] /\ fd'[q] = fd[q]
                /\ off'[q] = off[q] /\ out'[q] = out[q] /\ unset'[q] = unset[q]
<1>1. CASE Begin(r) \/ Refused(r) \/ Reply(r) \/ Kill(r)
    BY <1>1 DEF TypeOK, Begin, Refused, Reply, Kill, Goto, Live, Done
<1>2. CASE Write(r)
    BY <1>2 DEF TypeOK, Write, WriteStat, CreateTemp, TempTaken, WriteBlock,
       WriteError, BodyLost, Sync, Chown, Chmod, Rename, RenameError, Goto, Live, Done
<1>3. CASE Read(r)
    BY <1>3 DEF TypeOK, Read, ReadStat, ReadOpen, OpenMissing, GetStat,
       GetNotRegular, ReadBlock, ReadEnd, ReadError, Lstat, Goto, Live, Done
<1> QED
    BY <1>1, <1>2, <1>3 DEF RequestStep

\* Only a writer at work, or one that makes its temp file, touches the files,
\* and of inodes only its own.
LEMMA FilesStep ==
    ASSUME TypeOK, WriterInv, NEW r \in Request, RequestStep(r)
    PROVE  /\ ~Write(r) => UNCHANGED fs
           /\ Write(r) => IsWriter(r) /\ pc[r] \in {"stat", "open", "write", "chown", "chmod", "rename"}
           /\ \A i \in Version : i # r =>
                /\ blocks'[i] = blocks[i] /\ meta'[i] = meta[i]
                /\ i \in synced => i \in synced'
           /\ temp' = temp \/ \E i \in {r, NoFile} : temp' = [temp EXCEPT ![Pids(r)] = i]
           /\ target' = target \/ Rename(r)
<1>1. CASE Begin(r) \/ Refused(r) \/ Reply(r) \/ Kill(r) \/ Read(r)
  <2>1. UNCHANGED fs
      BY <1>1 DEF Begin, Refused, Reply, Kill, Read, ReadStat, ReadOpen,
         OpenMissing, GetStat, GetNotRegular, ReadBlock, ReadEnd, ReadError, Lstat
  <2>2. ~Write(r) \/ (IsWriter(r) /\ pc[r] \in {"stat", "open", "write", "chown", "chmod", "rename"})
      BY DEF Write, WriteStat, CreateTemp, TempTaken, WriteBlock, WriteError,
         BodyLost, Sync, Chown, Chmod, Rename, RenameError, WriterInv, Writing
  <2> QED
      BY <2>1, <2>2 DEF fs
<1>2. CASE Write(r)
  <2>1. Writing(r) => fd[r] = r /\ IsWriter(r)
      BY DEF WriterInv
  <2>2. /\ IsWriter(r) /\ pc[r] \in {"stat", "open", "write", "chown", "chmod", "rename"}
        /\ temp' = temp \/ \E i \in {r, NoFile} : temp' = [temp EXCEPT ![Pids(r)] = i]
        /\ target' = target \/ Rename(r)
      BY <1>2, <2>1 DEF Write, WriteStat, CreateTemp, TempTaken, WriteBlock,
         WriteError, BodyLost, Sync, Chown, Chmod, Rename, RenameError, Writing, fs
  <2>3. \A i \in Version : i # r =>
            /\ blocks'[i] = blocks[i] /\ meta'[i] = meta[i]
            /\ i \in synced => i \in synced'
      BY <1>2, <2>1 DEF Write, WriteStat, CreateTemp, TempTaken, WriteBlock,
         WriteError, BodyLost, Sync, Chown, Chmod, Rename, RenameError, Writing, TypeOK, fs
  <2> QED
      BY <1>2, <2>2, <2>3
<1> QED
    BY <1>1, <1>2 DEF RequestStep

\* What a writer gives its file depends on its call, on what it saw and on
\* which of its own calls failed.
LEMMA GivenFrame ==
    ASSUME NEW v \in Request, call' = call, saw'[v] = saw[v], unset'[v] = unset[v]
    PROVE  Given(v)' = Given(v) /\ FinalMode(v)' = FinalMode(v)
BY DEF Given, FinalMode, KeepsOwner

\* A writer that is past its rename, or dead, keeps what it was asked for, what
\* it saw and what it could not set.
LEMMA PastStep ==
    ASSUME TypeOK, WriterInv, NEW r \in Request, RequestStep(r),
           NEW v \in Request, IsWriter(v), pc[v] \in {"reply", "ok", "dead"}
    PROVE  /\ IsWriter(v)' /\ pc'[v] \in {"reply", "ok", "dead"}
           /\ Given(v)' = Given(v)
<1>1. IsWriter(v)' /\ call' = call
    BY Others DEF IsWriter
<1>2. CASE v # r
    BY <1>1, <1>2, Others, GivenFrame
<1>3. CASE v = r
  <2>1. ~Write(r)
      BY <1>3, FilesStep
  <2>2. Reply(r) \/ Kill(r)
      BY <1>3, <2>1 DEF RequestStep, Begin, Refused, Read, ReadStat, ReadOpen,
         OpenMissing, GetStat, GetNotRegular, ReadBlock, ReadEnd, ReadError, Lstat
  <2>3. UNCHANGED <<saw, unset>> /\ pc'[v] \in {"reply", "ok", "dead"}
      BY <1>3, <2>2 DEF Reply, Kill, Goto, TypeOK
  <2> QED
      BY <1>1, <2>3, GivenFrame
<1> QED
    BY <1>2, <1>3

\* A settled inode stays settled, and no request touches its data or its
\* attributes.
LEMMA SettledStep ==
    ASSUME Inv, NEW r \in Request, RequestStep(r), NEW i \in Version, Settled(i)
    PROVE  /\ Settled(i)'
           /\ blocks'[i] = blocks[i] /\ meta'[i] = meta[i]
<1>1. TypeOK /\ WriterInv
    BY DEF Inv
<1>2. i = r => UNCHANGED fs
    BY <1>1, FilesStep DEF Settled
<1>3. /\ blocks'[i] = blocks[i] /\ meta'[i] = meta[i] /\ (i \in synced => i \in synced')
      /\ \A p \in Pid : temp'[p] # i
  <2>1. CASE i = r
      BY <1>2, <2>1 DEF fs, Settled
  <2>2. CASE i # r
    <3>1. i # NoFile /\ (\A p \in Pid : temp[p] # i) /\ temp \in [Pid -> Version \cup {NoFile}]
        BY <1>1, NameAssumption DEF Settled, TypeOK
    <3>2. \A p \in Pid : temp'[p] # i
        BY <1>1, <2>2, <3>1, FilesStep
    <3> QED
        BY <1>1, <2>2, <3>2, FilesStep
  <2> QED
      BY <2>1, <2>2
<1>4. i \in unsafe => i \in unsafe'
    BY <1>1, Others
<1>5. i \in Request => /\ pc'[i] \in {"reply", "ok", "dead"} /\ IsWriter(i)'
                       /\ meta'[i] = Given(i)'
    BY <1>1, <1>3, PastStep DEF Settled
<1>6. Durable(i)' /\ Prefix(i)'
    BY <1>3, <1>4 DEF Settled, Durable, Prefix, Part, Whole
<1> QED
    BY <1>3, <1>5, <1>6 DEF Settled

\* What a crash leaves of an inode is a part of what it was; what was synced
\* is all there.
LEMMA CrashFacts ==
    ASSUME TypeOK, HostCrash
    PROVE  /\ UNCHANGED <<call, unsafe, unset, saw, fd, off, out, target, temp, meta>>
           /\ synced' = Version
           /\ pc' = [q \in Request |-> IF pc[q] \in Live THEN "dead" ELSE pc[q]]
           /\ blocks' \in [Version -> Seq(Version)]
           /\ \A i \in synced : blocks'[i] = blocks[i]
           /\ \A i \in Version : blocks[i] = <<>> => blocks'[i] = <<>>
           /\ \A i \in Version : Prefix(i) => Prefix(i)'
<1> USE SizeAssumption
<1>1. PICK keep \in [{i \in Version \ synced : blocks[i] # <<>>} -> 0..MaxBlocks] :
         blocks' = [i \in Version |->
                      IF i \in DOMAIN keep /\ keep[i] < Len(blocks[i])
                      THEN SubSeq(blocks[i], 1, keep[i]) ELSE blocks[i]]
    BY DEF HostCrash
<1>2. ASSUME NEW i \in Version
      PROVE  /\ blocks'[i] \in Seq(Version)
             /\ blocks[i] = <<>> \/ i \in synced => blocks'[i] = blocks[i]
             /\ Prefix(i) => Prefix(i)'
  <2>1. blocks[i] \in Seq(Version) /\ Len(blocks[i]) \in Nat /\ Size[i] \in Nat
      BY DEF TypeOK
  <2>2. CASE i \in DOMAIN keep /\ keep[i] < Len(blocks[i])
    <3>1. keep[i] \in Nat /\ blocks'[i] = SubSeq(blocks[i], 1, keep[i])
        BY <1>1, <2>2
    <3>2. blocks'[i] \in Seq(Version) /\ Len(blocks'[i]) = keep[i]
        BY <2>1, <2>2, <3>1
    <3>3. blocks[i] = Part(i, Len(blocks[i])) => blocks'[i] = Part(i, keep[i])
        BY <2>1, <2>2, <3>1 DEF Part
    <3>4. Prefix(i) => Prefix(i)'
        BY <2>1, <2>2, <3>1, <3>2, <3>3 DEF Prefix, Part
    <3> QED
        BY <2>2, <3>2, <3>4
  <2>3. CASE ~(i \in DOMAIN keep /\ keep[i] < Len(blocks[i]))
      BY <1>1, <2>1, <2>3 DEF Prefix, Part
  <2> QED
      BY <2>2, <2>3
<1>3. synced \subseteq Version
    BY DEF TypeOK
<1> QED
    BY <1>1, <1>2, <1>3 DEF HostCrash

\* A settled inode stays settled in a crash, too.
LEMMA SettledCrash ==
    ASSUME Inv, HostCrash, NEW i \in Version, Settled(i)
    PROVE  /\ Settled(i)' /\ meta'[i] = meta[i]
           /\ i \notin unsafe => blocks'[i] = blocks[i]
<1>1. TypeOK
    BY DEF Inv
<1>2. i \notin unsafe => blocks'[i] = blocks[i]
    BY <1>1, CrashFacts DEF Settled, Durable
<1>3. Durable(i)' /\ Prefix(i)'
    BY <1>1, <1>2, CrashFacts DEF Settled, Durable, Whole
<1>4. i \in Request => pc'[i] \in {"reply", "ok", "dead"} /\ IsWriter(i)'
                        /\ Given(i)' = Given(i)
    BY <1>1, CrashFacts, GivenFrame DEF Settled, IsWriter
<1> QED
    BY <1>1, <1>2, <1>3, <1>4, CrashFacts DEF Settled

\* What makes one stat's answer true.
Told(q, i) ==
    /\ i \in unsafe \/ saw[q].size = Size[i]
    /\ [mode |-> saw[q].mode, owner |-> saw[q].owner] = FinalAttrs(i)
    /\ i \in Request => IsWriter(i) /\ pc[i] \in {"reply", "ok", "dead"}

\* It stays so as long as the stat keeps its answer.
LEMMA ToldStep ==
    ASSUME Inv, NEW r \in Request, RequestStep(r),
           NEW q \in Request, saw'[q] = saw[q], NEW i \in Version, Told(q, i)
    PROVE  Told(q, i)'
<1>1. TypeOK /\ WriterInv
    BY DEF Inv
<1>2. unsafe \subseteq unsafe'
    BY <1>1, Others
<1>3. CASE i \in Request
    BY <1>1, <1>2, <1>3, PastStep DEF Told, FinalAttrs
<1>4. CASE i \notin Request
  <2>1. meta'[i] = meta[i]
      BY <1>1, <1>4, FilesStep
  <2> QED
      BY <1>2, <1>4, <2>1 DEF Told, FinalAttrs
<1> QED
    BY <1>3, <1>4

LEMMA StatTold ==
    StatTrue <=> \A q \in Request :
        (/\ call[q].verb = "stat" /\ pc[q] \in {"reply", "ok"}
         /\ saw[q].there) => Told(q, saw[q].ino)
BY DEF StatTrue, Told

\* A stat that has got its answer keeps it, and the answer stays true.
LEMMA StatFrame ==
    ASSUME Inv, NEW r \in Request, RequestStep(r),
           call[r].verb = "stat" /\ pc'[r] \in {"reply", "ok"} =>
               pc[r] \in {"reply", "ok"} /\ saw'[r] = saw[r]
    PROVE  StatTrue'
<1>1. TypeOK /\ WriterInv /\ StatTrue
    BY DEF Inv
<1>2. call' = call
    BY <1>1, Others
<1>3. ASSUME NEW q \in Request, call[q].verb = "stat",
             pc'[q] \in {"reply", "ok"}, saw'[q].there
      PROVE  Told(q, saw[q].ino)' /\ saw'[q] = saw[q]
  <2>1. pc[q] \in {"reply", "ok"} /\ saw'[q] = saw[q]
      BY <1>1, <1>3, Others
  <2>2. saw[q].ino \in Version
      BY <1>1 DEF TypeOK, Stats
  <2>3. Told(q, saw[q].ino)
      BY <1>1, <1>3, <2>1, StatTold
  <2>4. \A i \in Version : Told(q, i) => Told(q, i)'
      BY <2>1, ToldStep
  <2> QED
      BY <2>1, <2>2, <2>3, <2>4 DEF Told
<1> QED
    BY <1>2, <1>3 DEF StatTrue, Told

\* No request touches the attributes of another's temp file.
LEMMA DraftStep ==
    ASSUME Inv, NEW r \in Request, RequestStep(r), Writing(r)' => Draft(r)'
    PROVE  DraftInv'
<1>1. ASSUME NEW q \in Request, q # r, Writing(q)'
      PROVE  Draft(q)'
  <2>1. /\ call' = call /\ pc'[q] = pc[q] /\ unset'[q] = unset[q]
        /\ Given(q)' = Given(q) /\ Writing(q)
      BY <1>1, Others, GivenFrame DEF Inv, Writing
  <2>2. meta'[q] = meta[q]
      BY <1>1, FilesStep DEF Inv, Version
  <2>3. Draft(q)
      BY <2>1 DEF Inv, DraftInv
  <2> QED
      BY <2>1, <2>2, <2>3 DEF Draft
<1> QED
    BY <1>1 DEF DraftInv

\* A step that leaves the files alone keeps what the invariant says of them.
LEMMA QuietInv ==
    ASSUME Inv, NEW r \in Request, RequestStep(r), UNCHANGED <<unsafe, unset, off, fs>>,
           pc'[r] \notin {"write", "chown", "chmod", "rename"},
           pc'[r] = "dead" \/ pc[r] \notin {"write", "chown", "chmod", "rename", "dead"},
           pc'[r] \in {"new", "stat", "open"} => pc[r] \in {"new", "stat", "open"},
           IsWriter(r) /\ pc'[r] \in {"reply", "ok"} => pc[r] = "reply" /\ saw'[r] = saw[r]
    PROVE  /\ UnsafeInv' /\ WriterInv' /\ DraftInv' /\ FreshInv' /\ TempInv' /\ TargetInv'
           /\ PastInv'
<1> TypeOK /\ UnsafeInv /\ WriterInv /\ FreshInv /\ TempInv /\ TargetInv /\ PastInv
    BY DEF Inv
<1>1. /\ call' = call
      /\ \A q \in Request : q # r => pc'[q] = pc[q] /\ saw'[q] = saw[q] /\ fd'[q] = fd[q]
    BY Others
<1>2. UNCHANGED <<target, temp, blocks, meta, synced>>
    BY DEF fs
<1>3. UnsafeInv'
    BY DEF UnsafeInv
<1>4. WriterInv'
    BY <1>1, <1>2 DEF WriterInv, Writing, IsWriter, Pids, Durable, Part, Whole
<1>9. DraftInv'
    BY DraftStep DEF Writing
<1>5. FreshInv'
    BY <1>1, <1>2 DEF FreshInv
<1>6. TempInv'
    BY <1>1, <1>2 DEF TempInv, Pids, Durable, Whole
<1>7. TargetInv'
    BY <1>2, SettledStep DEF TargetInv
<1>8. PastInv'
  <2>1. \A q \in Request : IsWriter(q)' /\ pc'[q] \in {"reply", "ok"} =>
                             IsWriter(q) /\ pc[q] \in {"reply", "ok"}
      BY <1>1 DEF IsWriter
  <2> QED
      BY <2>1, SettledStep DEF PastInv, Version
<1> QED
    BY <1>3, <1>4, <1>5, <1>6, <1>7, <1>8, <1>9

\* A step that ends or starts a request, or of a request that reads nothing,
\* keeps what the invariant says of readers.
LEMMA NoReadInv ==
    ASSUME Inv, NEW r \in Request, RequestStep(r),
           target' = target \/ (pc[r] \in Live /\ target' \in Version),
           \/ pc'[r] \in {"err", "closed", "dead"} /\ UNCHANGED <<saw, fd, out>>
           \/ IsWriter(r) /\ pc'[r] \notin {"fstat", "read"} /\ UNCHANGED out
    PROVE  ReaderInv' /\ GetInv'
<1> TypeOK /\ PidInv /\ ReaderInv /\ GetInv /\ TargetInv
    BY DEF Inv
<1>1. /\ call' = call /\ unsafe \subseteq unsafe'
      /\ \A q \in Request : q # r => pc'[q] = pc[q] /\ saw'[q] = saw[q]
                                     /\ fd'[q] = fd[q] /\ out'[q] = out[q]
    BY Others
<1>2. \A i \in Version : Settled(i) => Settled(i)' /\ blocks'[i] = blocks[i]
    BY SettledStep
<1>3. ReaderInv'
    BY <1>1, <1>2 DEF ReaderInv, IsWriter
<1>4. ASSUME NEW q \in Request, Steady(q)
      PROVE  GetInv!(q)!2'
  <2>1. q # r \/ (pc'[q] \in {"err", "closed", "dead"})
      BY <1>4 DEF Steady, IsWriter, Writers
  <2>2. pc[q] = "open" /\ call[q].verb = "read_file" /\ q # r =>
            target' = target /\ target \in Version
      BY <1>4 DEF Steady, OneConnection, PidInv, Live, ReaderInv, IsWriter, Writers
  <2>3. pc[q] \in {"read", "reply", "ok"} => fd[q] \in Version /\ Settled(fd[q])
      BY <1>4 DEF Steady, ReaderInv, IsWriter, Writers
  <2> QED
      BY <1>1, <1>2, <1>4, <2>1, <2>2, <2>3 DEF GetInv, TargetInv, Part, Whole
<1>5. GetInv'
    BY <1>1, <1>4 DEF GetInv, Steady, OneConnection, Pids
<1> QED
    BY <1>3, <1>5

(***************************************************************************)
(* The invariant, one step after another.                                  *)
(***************************************************************************)

\* A request that was live, or is over, has its pid to itself.
LEMMA PidStep ==
    ASSUME Inv, NEW r \in Request, RequestStep(r), pc[r] \in Live \/ pc'[r] \notin Live
    PROVE  PidInv'
BY Others DEF Inv, PidInv, Pids

\* A step that changes no more than the pc and what a request saw, opened or
\* read keeps the types.
LEMMA TypeStep ==
    ASSUME Inv, NEW r \in Request, RequestStep(r), UNCHANGED <<unsafe, unset, off, fs>>,
           saw' \in [Request -> Stats], fd' \in [Request -> Version \cup {NoFile, Dir}],
           out' \in [Request -> Seq(Version)]
    PROVE  TypeOK'
<1>1. TypeOK
    BY DEF Inv
<1>2. call' = call /\ pc' \in [Request -> {"new"} \cup Live \cup Done]
    BY <1>1, Others
<1> QED
    BY <1>1, <1>2 DEF TypeOK, fs

\* What stat() says of a settled inode is true.
LEMMA StatSettled ==
    ASSUME Inv, NEW i \in Version, Settled(i)
    PROVE  /\ StatOf(i) \in Stats
           /\ i \in unsafe \/ StatOf(i).size = Size[i]
           /\ StatOf(i).ino = i
           /\ [mode |-> StatOf(i).mode, owner |-> StatOf(i).owner] = FinalAttrs(i)
<1>1. TypeOK
    BY DEF Inv
<1>2. Len(blocks[i]) \in 0..MaxBlocks /\ (i \in unsafe \/ Len(blocks[i]) = Size[i])
  <2>1. Len(blocks[i]) \in Nat /\ Len(blocks[i]) <= Size[i]
      BY <1>1 DEF Settled, Prefix, TypeOK
  <2>2. Size[i] \in 0..MaxBlocks /\ MaxBlocks \in Nat /\ Len(Whole(i)) = Size[i]
      BY WholeFacts, SizeAssumption
  <2> QED
      BY <2>1, <2>2 DEF Settled, Durable
<1>3. meta[i].mode \in Mode /\ meta[i].owner \in User
    BY <1>1 DEF TypeOK, Attrs
<1> QED
    BY <1>1, <1>2, <1>3 DEF StatOf, Stats, Settled, FinalAttrs, TypeOK, Attrs

LEMMA BeginInv == ASSUME Inv, NEW r \in Request, Begin(r) PROVE Inv'
<1> TypeOK /\ PidInv /\ ReaderInv /\ GetInv
    BY DEF Inv
<1> RequestStep(r)
    BY DEF RequestStep
<1>1. /\ UNCHANGED <<call, unsafe, unset, saw, fd, off, out, fs, target, blocks>>
      /\ pc[r] = "new" /\ pc'[r] = (IF call[r].verb = "get_file" THEN "open" ELSE "stat")
      /\ \A q \in Request : q # r => pc'[q] = pc[q]
    BY DEF Begin, Goto, TypeOK, fs
<1>2. TypeOK'
    BY <1>1, TypeStep DEF TypeOK
<1>3. PidInv'
    BY DEF PidInv, TypeOK, Live, Pids, Begin, Goto
<1>4. UnsafeInv' /\ WriterInv' /\ DraftInv' /\ FreshInv' /\ TempInv' /\ TargetInv' /\ PastInv'
    BY <1>1, QuietInv
<1>5. ReaderInv'
  <2>1. \A i \in Version : Settled(i) => Settled(i)'
      BY SettledStep
  <2> QED
      BY <1>1, <2>1 DEF ReaderInv, IsWriter
<1>6. GetInv'
    BY <1>1 DEF GetInv, Steady, OneConnection, Pids
<1>7. StatTrue'
    BY <1>1, StatFrame
<1> QED
    BY <1>2, <1>3, <1>4, <1>5, <1>6, <1>7 DEF Inv

\* A request that ends without having touched the files: TempTaken, Refused,
\* OpenMissing, GetNotRegular, ReadError of read_file, Kill.
LEMMA EndInv ==
    ASSUME Inv, NEW r \in Request, RequestStep(r), pc[r] \in Live,
           NEW s \in {"err", "dead"}, Goto(r, s),
           s = "dead" \/ pc[r] \notin {"write", "chown", "chmod", "rename"},
           UNCHANGED <<saw, fd, off, out, unsafe, unset, fs>>
    PROVE  Inv'
<1> TypeOK
    BY DEF Inv
<1>1. pc'[r] = s /\ target' = target
    BY DEF Goto, TypeOK, fs
<1>2. TypeOK' /\ PidInv'
    BY <1>1, TypeStep, PidStep DEF TypeOK
<1>3. UnsafeInv' /\ WriterInv' /\ DraftInv' /\ FreshInv' /\ TempInv' /\ TargetInv' /\ PastInv'
  <2>1. pc[r] # "dead"
      BY DEF Live
  <2> QED
      BY <1>1, <2>1, QuietInv
<1>4. ReaderInv' /\ GetInv'
    BY <1>1, NoReadInv
<1>5. StatTrue'
    BY <1>1, StatFrame
<1> QED
    BY <1>2, <1>3, <1>4, <1>5 DEF Inv

LEMMA ReplyInv == ASSUME Inv, NEW r \in Request, Reply(r) PROVE Inv'
<1> TypeOK /\ ReaderInv /\ GetInv
    BY DEF Inv
<1> RequestStep(r)
    BY DEF RequestStep
<1>1. /\ UNCHANGED <<call, unsafe, unset, saw, fd, off, out, fs, target, blocks>>
      /\ pc[r] = "reply" /\ pc'[r] = "ok"
      /\ \A q \in Request : q # r => pc'[q] = pc[q]
    BY DEF Reply, Goto, TypeOK, fs
<1>2. TypeOK' /\ PidInv'
    BY <1>1, TypeStep, PidStep DEF TypeOK, Live
<1>3. UnsafeInv' /\ WriterInv' /\ DraftInv' /\ FreshInv' /\ TempInv' /\ TargetInv' /\ PastInv'
    BY <1>1, QuietInv
<1>4. ReaderInv'
  <2>1. \A i \in Version : Settled(i) => Settled(i)'
      BY SettledStep
  <2> QED
      BY <1>1, <2>1 DEF ReaderInv, IsWriter
<1>5. GetInv'
  <2>1. Steady(r) /\ fd[r] \notin unsafe => saw[r].size = Size[fd[r]]
    <3>1. Steady(r) => fd[r] \in Version /\ Durable(fd[r])
        BY <1>1 DEF ReaderInv, Settled, Steady, IsWriter, Writers
    <3> QED
        BY <1>1, <3>1, WholeFacts DEF GetInv, Durable
  <2>2. ASSUME NEW q \in Request, Steady(q) PROVE GetInv!(q)!2'
    <3>1. CASE q = r
        BY <1>1, <2>1, <2>2, <3>1 DEF GetInv, Part
    <3>2. CASE q # r
        BY <1>1, <2>2, <3>2 DEF GetInv, Part
    <3> QED
        BY <3>1, <3>2
  <2> QED
      BY <1>1, <2>2 DEF GetInv, Steady, OneConnection, Pids
<1>6. StatTrue'
    BY <1>1, StatFrame
<1> QED
    BY <1>2, <1>3, <1>4, <1>5, <1>6 DEF Inv

LEMMA WriteStatInv == ASSUME Inv, NEW r \in Request, WriteStat(r) PROVE Inv'
<1> TypeOK /\ TargetInv
    BY DEF Inv
<1> RequestStep(r)
    BY DEF RequestStep, Write
<1>1. /\ UNCHANGED <<call, unsafe, unset, fd, off, out, fs, target>>
      /\ pc[r] = "stat" /\ pc'[r] \in {"err", "open"} /\ IsWriter(r)
    BY DEF WriteStat, Goto, TypeOK, fs
<1>2. TypeOK' /\ PidInv'
  <2>1. saw' \in [Request -> Stats]
      BY StatSettled DEF WriteStat, TargetInv, TypeOK
  <2> QED
      BY <1>1, <2>1, TypeStep, PidStep DEF TypeOK, Live
<1>3. UnsafeInv' /\ WriterInv' /\ DraftInv' /\ FreshInv' /\ TempInv' /\ TargetInv' /\ PastInv'
    BY <1>1, QuietInv
<1>4. ReaderInv' /\ GetInv'
    BY <1>1, NoReadInv
<1>5. StatTrue'
    BY <1>1, StatFrame
<1> QED
    BY <1>2, <1>3, <1>4, <1>5 DEF Inv

LEMMA CreateTempInv == ASSUME Inv, NEW r \in Request, CreateTemp(r) PROVE Inv'
<1> TypeOK /\ PidInv /\ UnsafeInv /\ WriterInv /\ DraftInv /\ FreshInv /\ TempInv /\ TargetInv
    /\ PastInv
    BY DEF Inv
<1> RequestStep(r)
    BY DEF RequestStep, Write
<1> r \in Version /\ Pids(r) \in Pid
    BY PidsType DEF Version
<1>1. /\ UNCHANGED <<call, unsafe, unset, saw, off, out, target, blocks, synced>>
      /\ pc[r] = "open" /\ pc'[r] = "write" /\ IsWriter(r)
      /\ temp[Pids(r)] = NoFile /\ fd'[r] = r /\ meta'[r].mode = TempMode
      /\ \A p \in Pid : temp'[p] = IF p = Pids(r) THEN r ELSE temp[p]
      /\ \A q \in Request : q # r => pc'[q] = pc[q] /\ fd'[q] = fd[q] /\ meta'[q] = meta[q]
    BY DEF CreateTemp, Goto, TypeOK, Version
<1>2. TypeOK'
    BY NameAssumption, ModeAssumption DEF CreateTemp, Goto, TypeOK, Live, Attrs, Calls, Version
<1>3. PidInv'
    BY <1>1, PidStep DEF Live
<1>4. UnsafeInv'
    BY <1>1 DEF UnsafeInv
<1>5. WriterInv'
  <2>1. blocks[r] = Part(r, 0) /\ off[r] = 0 /\ 0 <= Size[r]
      BY <1>1, EmptyPart, SizeAssumption DEF FreshInv
  <2>2. \A q \in Request : q # r /\ Writing(q) => Pids(q) # Pids(r) /\ Pids(q) \in Pid
      BY <1>1, PidsType DEF PidInv, Live, Writing
  <2>3. ASSUME NEW q \in Request, Writing(q)' PROVE WriterInv!(q)!2'
    <3>1. CASE q = r
        BY <1>1, <2>1, <3>1 DEF IsWriter, Pids
    <3>2. CASE q # r
      <4>1. Writing(q)
          BY <1>1, <2>3, <3>2 DEF Writing
      <4> QED
          BY <1>1, <2>2, <3>2, <4>1
          DEF WriterInv, IsWriter, Pids, Durable, Part, Whole
    <3> QED
        BY <3>1, <3>2
  <2> QED
      BY <2>3 DEF WriterInv
<1>12. DraftInv'
  <2>1. unset'[r] = {} /\ meta'[r] = [mode |-> TempMode, owner |-> call[r].user]
      BY <1>1 DEF FreshInv, CreateTemp, TypeOK
  <2> QED
      BY <1>1, <2>1, DraftStep DEF Draft
<1>6. FreshInv'
    BY <1>1 DEF FreshInv
<1>7. TempInv'
  <2>1. ASSUME NEW p \in Pid, NEW q \in Request, temp'[p] = q
        PROVE  TempInv!2!(p, q)!2'
    <3>1. CASE q = r
        BY <1>1, <2>1, <3>1 DEF TempInv, Pids
    <3>2. CASE q # r
        BY <1>1, <2>1, <3>2 DEF TempInv, Pids, Durable, Whole
    <3> QED
        BY <3>1, <3>2
  <2>2. temp' \in [Pid -> Request \cup {NoFile}]
      BY DEF CreateTemp, TempInv
  <2> QED
      BY <2>1, <2>2 DEF TempInv
<1>8. TargetInv'
    BY <1>1, SettledStep DEF TargetInv
<1>9. ReaderInv' /\ GetInv'
    BY <1>1, NoReadInv
<1>10. PastInv'
    BY <1>1, SettledStep DEF PastInv, IsWriter, Version
<1>11. StatTrue'
    BY <1>1, StatFrame
<1> QED
    BY <1>2, <1>3, <1>4, <1>5, <1>6, <1>7, <1>8, <1>9, <1>10, <1>11, <1>12 DEF Inv

LEMMA WriteBlockInv == ASSUME Inv, NEW r \in Request, WriteBlock(r) PROVE Inv'
<1> TypeOK /\ UnsafeInv /\ WriterInv /\ DraftInv /\ FreshInv /\ TempInv /\ TargetInv /\ PastInv
    BY DEF Inv
<1> RequestStep(r)
    BY DEF RequestStep, Write
<1>1. /\ UNCHANGED <<call, unsafe, unset, pc, saw, fd, out, target, temp, meta>>
      /\ pc[r] = "write" /\ off[r] < Size[r] /\ IsWriter(r) /\ fd[r] = r
      /\ meta[r].mode = TempMode /\ r \in Version /\ temp[Pids(r)] = r
  <2>1. /\ UNCHANGED <<call, unsafe, unset, pc, saw, fd, out, target, temp, meta>>
        /\ pc[r] = "write" /\ off[r] < Size[r] /\ r \in Version
      BY DEF WriteBlock, Version
  <2>2. meta[r] = [mode |-> TempMode, owner |-> call[r].user]
      BY <2>1 DEF DraftInv, Draft, Writing
  <2>3. meta[r].mode = TempMode
      BY <2>2
  <2>4. IsWriter(r) /\ fd[r] = r /\ temp[Pids(r)] = r
      BY <2>1 DEF WriterInv, Writing
  <2> QED
      BY <2>1, <2>3, <2>4
<1>2. off[r] \in Nat /\ Size[r] \in 0..MaxBlocks /\ MaxBlocks \in Nat
      /\ blocks[r] \in Seq(Version) /\ blocks[r] = Part(r, off[r])
    BY <1>1, SizeAssumption DEF WriterInv, Writing, TypeOK
<1>3. Len(blocks[r]) = off[r] /\ Append(blocks[r], r) = Part(r, off[r] + 1)
    BY <1>2, PartNext
<1>4. /\ off' = [off EXCEPT ![r] = off[r] + 1]
      /\ blocks' = [blocks EXCEPT ![r] = Append(blocks[r], r)]
      /\ synced' = synced \ {r}
  <2>1. WriteAt(blocks[r], off[r], r) = Append(blocks[r], r)
      BY <1>2, <1>3 DEF WriteAt
  <2> QED
      BY <1>1, <2>1 DEF WriteBlock
<1>5. TypeOK'
  <2>1. Append(blocks[r], r) \in Seq(Version) /\ off[r] + 1 \in 0..MaxBlocks
      BY <1>1, <1>2
  <2>2. blocks' \in [Version -> Seq(Version)] /\ off' \in [Request -> 0..MaxBlocks]
      BY <1>4, <2>1 DEF TypeOK
  <2> QED
      BY <1>1, <1>4, <2>2 DEF TypeOK
<1>6. PidInv'
    BY <1>1, PidStep DEF Live
<1>7. UnsafeInv'
    BY <1>1 DEF UnsafeInv
<1>8. WriterInv'
  <2>1. off'[r] = off[r] + 1 /\ blocks'[r] = Part(r, off[r] + 1) /\ off[r] + 1 <= Size[r]
      BY <1>1, <1>2, <1>3, <1>4 DEF TypeOK
  <2>2. \A q \in Request : q # r => off'[q] = off[q] /\ blocks'[q] = blocks[q]
                                    /\ (q \in synced => q \in synced')
      BY <1>4 DEF TypeOK, Version
  <2>3. ASSUME NEW q \in Request, Writing(q)' PROVE WriterInv!(q)!2'
    <3>1. CASE q = r
        BY <1>1, <2>1, <3>1 DEF IsWriter, Pids
    <3>2. CASE q # r
      <4>1. Writing(q)
          BY <1>1, <2>3 DEF Writing
      <4> QED
          BY <1>1, <2>2, <3>2, <4>1
          DEF WriterInv, IsWriter, Pids, Durable, Part, Whole
    <3> QED
        BY <3>1, <3>2
  <2> QED
      BY <2>3 DEF WriterInv
<1>15. DraftInv'
  <2>1. Draft(r) /\ Given(r)' = Given(r)
      BY <1>1, GivenFrame DEF DraftInv, Writing
  <2> QED
      BY <1>1, <2>1, DraftStep DEF Draft
<1>9. FreshInv'
    BY <1>1, <1>4 DEF FreshInv, TypeOK, Version
<1>10. TempInv'
  <2>1. \A q \in Request : q # r => blocks'[q] = blocks[q] /\ (q \in synced => q \in synced')
      BY <1>4 DEF TypeOK, Version
  <2>2. ASSUME NEW p \in Pid, NEW q \in Request, temp'[p] = q
        PROVE  TempInv!2!(p, q)!2'
      BY <1>1, <2>1, <2>2 DEF TempInv, Pids, Durable, Whole
  <2> QED
      BY <1>1, <2>2 DEF TempInv
<1>11. TargetInv'
    BY <1>1, SettledStep DEF TargetInv
<1>12. ReaderInv' /\ GetInv'
    BY <1>1, NoReadInv
<1>13. PastInv'
    BY <1>1, SettledStep DEF PastInv, IsWriter, Version
<1>14. StatTrue'
    BY <1>1, StatFrame
<1> QED
    BY <1>5, <1>6, <1>7, <1>8, <1>9, <1>10, <1>11, <1>12, <1>13, <1>14, <1>15 DEF Inv

\* A write that fails after its temp file was made: WriteError, BodyLost,
\* RenameError.
LEMMA AbandonInv ==
    ASSUME Inv, NEW r \in Request, RequestStep(r), Writing(r),
           NEW s \in {"err", "closed"}, Goto(r, s),
           temp' = [temp EXCEPT ![Pids(r)] = NoFile],
           UNCHANGED <<call, unsafe, unset, saw, fd, off, out, target, blocks, meta,
                       synced>>
    PROVE  Inv'
<1> TypeOK /\ PidInv /\ UnsafeInv /\ WriterInv /\ DraftInv /\ FreshInv /\ TempInv /\ TargetInv
    /\ PastInv
    BY DEF Inv
<1> Pids(r) \in Pid
    BY PidsType
<1>1. /\ pc'[r] = s /\ pc[r] \in Live /\ IsWriter(r) /\ temp[Pids(r)] = r
      /\ \A q \in Request : q # r => pc'[q] = pc[q]
      /\ \A p \in Pid : temp'[p] = IF p = Pids(r) THEN NoFile ELSE temp[p]
    BY DEF Goto, TypeOK, Writing, Live, WriterInv
<1>2. TypeOK'
    BY DEF Goto, TypeOK, Done
<1>3. PidInv'
    BY <1>1, PidStep
<1>4. UnsafeInv'
    BY DEF UnsafeInv
<1>5. WriterInv'
  <2>1. \A q \in Request : q # r /\ Writing(q) => Pids(q) # Pids(r) /\ Pids(q) \in Pid
      BY <1>1, PidsType DEF PidInv, Live, Writing
  <2> QED
      BY <1>1, <2>1 DEF WriterInv, Writing, IsWriter, Pids, Durable, Part, Whole
<1>12. DraftInv'
    BY <1>1, DraftStep DEF Writing
<1>6. FreshInv'
    BY <1>1 DEF FreshInv
<1>7. TempInv'
  <2>1. \A q \in Request : Pids(q)' = Pids(q)
      BY DEF Pids
  <2>2. \A p \in Pid, q \in Request : temp'[p] = q => q # r /\ temp[p] = q
    <3> SUFFICES ASSUME NEW p \in Pid, NEW q \in Request, temp'[p] = q
                 PROVE  q # r /\ temp[p] = q
        OBVIOUS
    <3>1. p # Pids(r) /\ temp[p] = q
        BY <1>1, NameAssumption DEF Version
    <3> QED
        BY <3>1 DEF TempInv
  <2>3. temp' \in [Pid -> Request \cup {NoFile}]
      BY DEF TempInv
  <2> QED
      BY <1>1, <2>1, <2>2, <2>3 DEF TempInv, Durable, Whole
<1>8. TargetInv'
    BY SettledStep DEF TargetInv
<1>9. ReaderInv' /\ GetInv'
    BY <1>1, NoReadInv
<1>10. PastInv'
    BY <1>1, SettledStep DEF PastInv, IsWriter, Version
<1>11. StatTrue'
    BY <1>1, StatFrame
<1> QED
    BY <1>2, <1>3, <1>4, <1>5, <1>6, <1>7, <1>8, <1>9, <1>10, <1>11, <1>12 DEF Inv

LEMMA SyncInv == ASSUME Inv, NEW r \in Request, Sync(r) PROVE Inv'
<1> TypeOK /\ UnsafeInv /\ WriterInv /\ DraftInv /\ FreshInv /\ TempInv /\ TargetInv /\ PastInv
    BY DEF Inv
<1> RequestStep(r)
    BY DEF RequestStep, Write
<1>1. /\ UNCHANGED <<call, saw, fd, off, out, target, temp, blocks, meta>>
      /\ pc[r] = "write" /\ off[r] = Size[r] /\ pc'[r] = "chown" /\ IsWriter(r)
      /\ fd[r] = r /\ blocks[r] = Part(r, Size[r]) /\ r \in Version
      /\ \A q \in Request : q # r => pc'[q] = pc[q]
    BY DEF Sync, Goto, TypeOK, WriterInv, Writing, Version
<1>2. /\ unsafe \subseteq unsafe' /\ synced \subseteq synced'
      /\ unsafe' \subseteq unsafe \cup {r} /\ synced' \subseteq synced \cup {r}
      /\ r \in unsafe' \/ r \in synced'
      /\ r \in unsafe' => r \in unsafe \/ "fsync" \in MayFail[r]
    BY <1>1 DEF Sync
<1>3. Durable(r)'
    BY <1>1, <1>2, WholeFacts DEF Durable, Whole
<1>4. TypeOK'
    BY <1>1, <1>2 DEF Sync, Goto, TypeOK, Live
<1>5. PidInv'
    BY <1>1, PidStep DEF Live
<1>6. UnsafeInv'
    BY <1>2 DEF UnsafeInv
<1>7. WriterInv'
  <2>1. \A q \in Request : Durable(q) => Durable(q)'
      BY <1>1, <1>2 DEF Durable, Whole
  <2> QED
      BY <1>1, <1>3, <2>1 
         DEF WriterInv, Writing, IsWriter, Pids, Part
<1>14. DraftInv'
  <2>1. Draft(r) /\ unset' = unset
      BY <1>1 DEF DraftInv, Writing, Sync
  <2> QED
      BY <1>1, <2>1, DraftStep DEF Draft
<1>8. FreshInv'
    BY <1>1, Others DEF FreshInv
<1>9. TempInv'
  <2>1. \A q \in Request : Durable(q) => Durable(q)'
      BY <1>1, <1>2 DEF Durable, Whole
  <2> QED
      BY <1>1, <2>1 DEF TempInv, Pids
<1>10. TargetInv'
    BY <1>1, SettledStep DEF TargetInv
<1>11. ReaderInv' /\ GetInv'
    BY <1>1, NoReadInv
<1>12. PastInv'
    BY <1>1, SettledStep DEF PastInv, IsWriter, Version
<1>13. StatTrue'
    BY <1>1, StatFrame
<1> QED
    BY <1>4, <1>5, <1>6, <1>7, <1>8, <1>9, <1>10, <1>11, <1>12, <1>13, <1>14 DEF Inv

LEMMA ChownInv == ASSUME Inv, NEW r \in Request, Chown(r) PROVE Inv'
<1> TypeOK /\ UnsafeInv /\ WriterInv /\ DraftInv /\ FreshInv /\ TempInv /\ TargetInv /\ PastInv
    BY DEF Inv
<1> RequestStep(r)
    BY DEF RequestStep, Write
<1> r \in Version
    BY DEF Version
<1>1. /\ UNCHANGED <<call, unsafe, saw, fd, off, out, target, temp, blocks, synced>>
      /\ pc[r] = "chown" /\ pc'[r] = "chmod" /\ IsWriter(r) /\ fd[r] = r
      /\ temp[Pids(r)] = r /\ Durable(r)
      /\ \A q \in Request : q # r => pc'[q] = pc[q]
    BY DEF Chown, Goto, TypeOK, WriterInv, Writing
<1>2. meta' \in [Version -> Attrs] /\ unset' \in [Request -> SUBSET {"mode", "owner"}]
  <2>1. meta[r] \in Attrs /\ saw[r] \in Stats
      BY DEF TypeOK
  <2>2. Chowned(r, meta[r]) \in Attrs
      BY <2>1, ModeAssumption DEF Chowned, Stats, Attrs
  <2>3. meta' = meta \/ meta' = [meta EXCEPT ![r] = Chowned(r, meta[r])]
      BY <1>1 DEF Chown
  <2>4. unset' = unset \/ unset' = [unset EXCEPT ![r] = unset[r] \cup {"owner"}]
      BY DEF Chown
  <2>5. unset' \in [Request -> SUBSET {"mode", "owner"}]
    <3>1. unset[r] \cup {"owner"} \in SUBSET {"mode", "owner"}
        BY DEF TypeOK
    <3> QED
        BY <2>4, <3>1 DEF TypeOK
  <2> QED
      BY <2>2, <2>3, <2>5 DEF TypeOK
<1>3. unset[r] = {} /\ meta[r] = [mode |-> TempMode, owner |-> call[r].user]
    BY <1>1 DEF DraftInv, Draft, Writing
<1>4. /\ "mode" \notin unset'[r]
      /\ meta'[r] = [mode |-> TempMode, owner |-> Given(r)'.owner]
  <2>1. CASE meta' = [meta EXCEPT ![fd[r]] = Chowned(r, @)] /\ UNCHANGED unset
    <3>1. meta'[r] = Chowned(r, meta[r])
        BY <1>1, <2>1 DEF TypeOK
    <3>2. Given(r)'.owner = IF KeepsOwner(r) THEN saw[r].owner ELSE call[r].user
        BY <1>1, <1>3, <2>1 DEF Given, KeepsOwner
    <3> QED
        BY <1>3, <2>1, <3>1, <3>2, ModeAssumption DEF Chowned
  <2>2. CASE /\ KeepsOwner(r) /\ unset' = [unset EXCEPT ![r] = @ \cup {"owner"}]
             /\ UNCHANGED meta
    <3>1. unset'[r] = {"owner"}
        BY <1>3, <2>2 DEF TypeOK
    <3>2. Given(r)'.owner = call[r].user
        BY <1>1, <3>1 DEF Given
    <3> QED
        BY <1>3, <2>2, <3>1, <3>2
  <2> QED
      BY <2>1, <2>2 DEF Chown
<1>5. TypeOK'
    BY <1>1, <1>2, <1>3 DEF Chown, Goto, TypeOK, Live
<1>6. PidInv'
    BY <1>1, PidStep DEF Live
<1>7. UnsafeInv'
    BY <1>1 DEF UnsafeInv
<1>8. WriterInv'
  <2>1. ASSUME NEW q \in Request, Writing(q)' PROVE WriterInv!(q)!2'
    <3>1. CASE q = r
        BY <1>1, <1>4, <3>1 DEF WriterInv, Writing, IsWriter, Pids, Durable, Part, Whole
    <3>2. CASE q # r
      <4>1. Writing(q)
          BY <1>1, <2>1, <3>2 DEF Writing
      <4> QED
          BY <1>1, <3>2, <4>1 DEF WriterInv, IsWriter, Pids, Durable, Part, Whole
    <3> QED
        BY <3>1, <3>2
  <2> QED
      BY <2>1 DEF WriterInv
<1>14. DraftInv'
    BY <1>1, <1>4, DraftStep DEF Draft
<1>9. FreshInv'
    BY <1>1, Others DEF FreshInv
<1>10. TempInv'
  <2>1. ASSUME NEW p \in Pid, NEW q \in Request, temp'[p] = q
        PROVE  TempInv!2!(p, q)!2'
    <3>1. CASE q = r
        BY <1>1, <2>1, <3>1 DEF TempInv, Pids, Durable, Whole
    <3>2. CASE q # r
      <4>1. meta'[q] = meta[q]
          BY <3>2, FilesStep DEF Version
      <4> QED
          BY <1>1, <2>1, <3>2, <4>1 DEF TempInv, Pids, Durable, Whole
    <3> QED
        BY <3>1, <3>2
  <2> QED
      BY <1>1, <2>1 DEF TempInv
<1>11. TargetInv' /\ PastInv'
    BY <1>1, SettledStep DEF TargetInv, PastInv, IsWriter, Version
<1>12. ReaderInv' /\ GetInv'
    BY <1>1, NoReadInv
<1>13. StatTrue'
    BY <1>1, StatFrame
<1> QED
    BY <1>5, <1>6, <1>7, <1>8, <1>9, <1>10, <1>11, <1>12, <1>13, <1>14 DEF Inv

LEMMA ChmodInv == ASSUME Inv, NEW r \in Request, Chmod(r) PROVE Inv'
<1> TypeOK /\ UnsafeInv /\ WriterInv /\ DraftInv /\ FreshInv /\ TempInv /\ TargetInv /\ PastInv
    BY DEF Inv
<1> RequestStep(r)
    BY DEF RequestStep, Write
<1> r \in Version
    BY DEF Version
<1>1. /\ UNCHANGED <<call, unsafe, saw, fd, off, out, target, temp, blocks, synced>>
      /\ pc[r] = "chmod" /\ pc'[r] = "rename" /\ IsWriter(r) /\ fd[r] = r
      /\ temp[Pids(r)] = r /\ Durable(r)
      /\ \A q \in Request : q # r => pc'[q] = pc[q]
    BY DEF Chmod, Goto, TypeOK, WriterInv, Writing
<1>2. meta' \in [Version -> Attrs] /\ unset' \in [Request -> SUBSET {"mode", "owner"}]
  <2>1. meta[r] \in Attrs /\ saw[r] \in Stats /\ call[r] \in Calls
      BY DEF TypeOK
  <2>2. FinalMode(r) \in Mode
      BY <2>1, ModeAssumption DEF FinalMode, Stats, Calls
  <2>3. Chmoded(r, meta[r]) \in Attrs
      BY <2>1, <2>2 DEF Chmoded, Attrs
  <2>4. meta' = meta \/ meta' = [meta EXCEPT ![r] = Chmoded(r, meta[r])]
      BY <1>1 DEF Chmod
  <2>5. unset' = unset \/ unset' = [unset EXCEPT ![r] = unset[r] \cup {"mode"}]
      BY DEF Chmod
  <2>6. unset' \in [Request -> SUBSET {"mode", "owner"}]
    <3>1. unset[r] \cup {"mode"} \in SUBSET {"mode", "owner"}
        BY DEF TypeOK
    <3> QED
        BY <2>5, <3>1 DEF TypeOK
  <2> QED
      BY <2>3, <2>4, <2>6 DEF TypeOK
<1>3. /\ "mode" \notin unset[r]
      /\ meta[r] = [mode |-> TempMode, owner |-> Given(r).owner]
    BY <1>1 DEF DraftInv, Draft, Writing
<1>4. meta'[r] = Given(r)'
  <2>1. CASE meta' = [meta EXCEPT ![fd[r]] = Chmoded(r, @)] /\ UNCHANGED unset
    <3>1. meta'[r] = Chmoded(r, meta[r])
        BY <1>1, <2>1 DEF TypeOK
    <3>2. Given(r)' = Given(r) /\ Given(r).mode = FinalMode(r)
        BY <1>1, <1>3, <2>1, GivenFrame DEF Given
    <3> QED
        BY <1>3, <3>1, <3>2 DEF Chmoded, Given
  <2>2. CASE unset' = [unset EXCEPT ![r] = @ \cup {"mode"}] /\ UNCHANGED meta
    <3>1. unset'[r] = unset[r] \cup {"mode"}
        BY <2>2 DEF TypeOK
    <3>2. Given(r)'.mode = TempMode /\ Given(r)'.owner = Given(r).owner
        BY <1>1, <3>1 DEF Given, KeepsOwner
    <3> QED
        BY <1>3, <2>2, <3>2 DEF Given
  <2> QED
      BY <2>1, <2>2 DEF Chmod
<1>5. TypeOK'
    BY <1>1, <1>2, <1>3 DEF Chmod, Goto, TypeOK, Live
<1>6. PidInv'
    BY <1>1, PidStep DEF Live
<1>7. UnsafeInv'
    BY <1>1 DEF UnsafeInv
<1>8. WriterInv'
  <2>1. ASSUME NEW q \in Request, Writing(q)' PROVE WriterInv!(q)!2'
    <3>1. CASE q = r
        BY <1>1, <1>4, <3>1 DEF WriterInv, Writing, IsWriter, Pids, Durable, Part, Whole
    <3>2. CASE q # r
      <4>1. Writing(q)
          BY <1>1, <2>1, <3>2 DEF Writing
      <4> QED
          BY <1>1, <3>2, <4>1 DEF WriterInv, IsWriter, Pids, Durable, Part, Whole
    <3> QED
        BY <3>1, <3>2
  <2> QED
      BY <2>1 DEF WriterInv
<1>14. DraftInv'
    BY <1>1, <1>4, DraftStep DEF Draft
<1>9. FreshInv'
    BY <1>1, Others DEF FreshInv
<1>10. TempInv'
  <2>1. ASSUME NEW p \in Pid, NEW q \in Request, temp'[p] = q
        PROVE  TempInv!2!(p, q)!2'
    <3>1. CASE q = r
        BY <1>1, <2>1, <3>1 DEF TempInv, Pids, Durable, Whole
    <3>2. CASE q # r
      <4>1. meta'[q] = meta[q]
          BY <3>2, FilesStep DEF Version
      <4> QED
          BY <1>1, <2>1, <3>2, <4>1 DEF TempInv, Pids, Durable, Whole
    <3> QED
        BY <3>1, <3>2
  <2> QED
      BY <1>1, <2>1 DEF TempInv
<1>11. TargetInv' /\ PastInv'
    BY <1>1, SettledStep DEF TargetInv, PastInv, IsWriter, Version
<1>12. ReaderInv' /\ GetInv'
    BY <1>1, NoReadInv
<1>13. StatTrue'
    BY <1>1, StatFrame
<1> QED
    BY <1>5, <1>6, <1>7, <1>8, <1>9, <1>10, <1>11, <1>12, <1>13, <1>14 DEF Inv

\* The rename publishes an inode that is complete, durable and final.
LEMMA RenameInv == ASSUME Inv, NEW r \in Request, Rename(r) PROVE Inv'
<1> TypeOK /\ PidInv /\ UnsafeInv /\ WriterInv /\ DraftInv /\ FreshInv /\ TempInv /\ TargetInv
    /\ PastInv
    BY DEF Inv
<1> RequestStep(r)
    BY DEF RequestStep, Write
<1> Pids(r) \in Pid /\ r \in Version
    BY PidsType DEF Version
<1>1. /\ UNCHANGED <<call, unsafe, unset, saw, fd, off, out, blocks, meta, synced>>
      /\ pc[r] = "rename" /\ pc'[r] = "reply" /\ IsWriter(r) /\ target' = r
      /\ temp[Pids(r)] = r /\ Durable(r) /\ meta[r] = Given(r)
      /\ blocks[r] = Part(r, Size[r])
      /\ \A q \in Request : q # r => pc'[q] = pc[q]
      /\ \A p \in Pid : temp'[p] = IF p = Pids(r) THEN NoFile ELSE temp[p]
    BY DEF Rename, Goto, TypeOK, WriterInv, DraftInv, Draft, Writing
<1>2. TypeOK'
    BY <1>1 DEF Rename, Goto, TypeOK, Live, Version
<1>3. PidInv'
    BY <1>1, PidStep DEF Live
<1>4. UnsafeInv'
    BY <1>1 DEF UnsafeInv
<1>5. WriterInv'
  <2>1. \A q \in Request : q # r /\ Writing(q) => Pids(q) # Pids(r) /\ Pids(q) \in Pid
      BY <1>1, PidsType DEF PidInv, Live, Writing
  <2> QED
      BY <1>1, <2>1 DEF WriterInv, Writing, IsWriter, Pids, Durable, Part, Whole
<1>13. DraftInv'
    BY <1>1, DraftStep DEF Writing
<1>6. FreshInv'
    BY <1>1 DEF FreshInv
<1>7. \A p \in Pid, q \in Request : temp'[p] = q => q # r /\ temp[p] = q
  <2> SUFFICES ASSUME NEW p \in Pid, NEW q \in Request, temp'[p] = q
               PROVE  q # r /\ temp[p] = q
      OBVIOUS
  <2>1. p # Pids(r) /\ temp[p] = q
      BY <1>1, NameAssumption DEF Version
  <2> QED
      BY <2>1 DEF TempInv
<1>8. TempInv'
  <2>1. \A q \in Request : Pids(q)' = Pids(q)
      BY <1>1 DEF Pids
  <2>2. temp' \in [Pid -> Request \cup {NoFile}]
      BY DEF TempInv, Rename
  <2> QED
      BY <1>1, <1>7, <2>1, <2>2 DEF TempInv, Durable, Whole
<1>9. Settled(r)'
  <2>4. /\ blocks' = blocks /\ synced' = synced /\ unsafe' = unsafe
        /\ r \in Version /\ Size[r] \in Nat
        /\ Durable(r) /\ blocks[r] = Part(r, Size[r])
    <3>1. Writing(r) /\ pc[r] = "rename"
        BY <1>1 DEF Writing
    <3>2. off[r] = Size[r] /\ Durable(r) /\ blocks[r] = Part(r, off[r])
        BY <3>1 DEF WriterInv
    <3> QED
        BY <1>1, <3>2, SizeAssumption DEF Rename, Version
  <2>6. Len(Part(r, Size[r])) = Size[r]
      BY <2>4, PartFacts
  <2>5. Len(blocks[r]) = Size[r]
      BY <2>4, <2>6
  <2>1. Prefix(r) /\ Prefix(r)' /\ Durable(r)'
      BY <2>4, <2>5 DEF Prefix, Durable, Part, Whole
  <2>2. \A p \in Pid : temp'[p] # r
      BY <1>7
  <2>3. Given(r)' = Given(r)
      BY <1>1, GivenFrame
  <2> QED
      BY <1>1, <2>1, <2>2, <2>3 DEF Settled, IsWriter
<1>10. ReaderInv' /\ GetInv'
    BY <1>1, NoReadInv DEF Live
<1>11. TargetInv' /\ PastInv'
  <2>1. \A q \in Request : q # r /\ IsWriter(q)' /\ pc'[q] \in {"reply", "ok"} =>
            IsWriter(q) /\ pc[q] \in {"reply", "ok"}
      BY <1>1 DEF IsWriter
  <2> QED
      BY <1>1, <1>9, <2>1, SettledStep DEF TargetInv, PastInv, Version
<1>12. StatTrue'
  <2>1. call[r].verb # "stat"
      BY <1>1 DEF IsWriter, Writers
  <2> QED
      BY <2>1, StatFrame
<1> QED
    BY <1>2, <1>3, <1>4, <1>5, <1>6, <1>8, <1>10, <1>11, <1>12, <1>13 DEF Inv

LEMMA ReadStatInv == ASSUME Inv, NEW r \in Request, ReadStat(r) PROVE Inv'
<1> TypeOK /\ TargetInv /\ ReaderInv /\ GetInv
    BY DEF Inv
<1> RequestStep(r)
    BY DEF RequestStep, Read
<1>1. /\ UNCHANGED <<call, unsafe, unset, fd, off, out, fs, target, blocks>>
      /\ pc[r] = "stat" /\ call[r].verb = "read_file" /\ ~IsWriter(r)
      /\ pc'[r] = (IF target \in Version THEN "open" ELSE "err")
      /\ target \in Version => saw'[r].size = Len(blocks[target])
      /\ \A q \in Request : q # r => pc'[q] = pc[q] /\ saw'[q] = saw[q]
    BY DEF ReadStat, Goto, TypeOK, fs, IsWriter, Writers, StatOf
<1>2. TypeOK' /\ PidInv'
  <2>1. saw' \in [Request -> Stats]
      BY StatSettled DEF ReadStat, TargetInv, TypeOK
  <2> QED
      BY <1>1, <2>1, TypeStep, PidStep DEF TypeOK, Live
<1>3. UnsafeInv' /\ WriterInv' /\ DraftInv' /\ FreshInv' /\ TempInv' /\ TargetInv' /\ PastInv'
    BY <1>1, QuietInv
<1>4. ReaderInv'
  <2>1. \A i \in Version : Settled(i) => Settled(i)'
      BY SettledStep
  <2> QED
      BY <1>1, <2>1 DEF ReaderInv, IsWriter
<1>5. GetInv'
    BY <1>1 DEF GetInv, Steady, OneConnection, Pids, Part, Whole
<1>6. StatTrue'
    BY <1>1, StatFrame
<1> QED
    BY <1>2, <1>3, <1>4, <1>5, <1>6 DEF Inv

\* stat() of a path that names a settled inode, and the answer is true.
LEMMA LstatInv == ASSUME Inv, NEW r \in Request, Lstat(r) PROVE Inv'
<1> TypeOK /\ WriterInv /\ TargetInv /\ ReaderInv /\ GetInv /\ StatTrue
    BY DEF Inv
<1> RequestStep(r)
    BY DEF RequestStep, Read
<1>1. /\ UNCHANGED <<call, unsafe, unset, fd, off, out, fs, target, blocks>>
      /\ pc[r] = "stat" /\ call[r].verb = "stat" /\ ~IsWriter(r)
      /\ pc'[r] = (IF target = NoFile THEN "err" ELSE "reply")
      /\ saw'[r] = (IF target \in Version THEN StatOf(target) ELSE saw[r])
      /\ \A q \in Request : q # r => pc'[q] = pc[q] /\ saw'[q] = saw[q]
    BY DEF Lstat, Goto, TypeOK, fs, IsWriter, Writers
<1>2. TypeOK' /\ PidInv'
  <2>1. saw' \in [Request -> Stats]
      BY StatSettled DEF Lstat, TargetInv, TypeOK
  <2> QED
      BY <1>1, <2>1, TypeStep, PidStep DEF TypeOK, Live
<1>3. UnsafeInv' /\ WriterInv' /\ DraftInv' /\ FreshInv' /\ TempInv' /\ TargetInv' /\ PastInv'
    BY <1>1, QuietInv
<1>4. ReaderInv'
  <2>1. \A i \in Version : Settled(i) => Settled(i)'
      BY SettledStep
  <2> QED
      BY <1>1, <2>1 DEF ReaderInv, IsWriter
<1>5. GetInv'
    BY <1>1 DEF GetInv, Steady, OneConnection, Pids, Part, Whole
<1>6. StatTrue'
  <2>1. ASSUME NEW q \in Request, call[q].verb = "stat", pc'[q] \in {"reply", "ok"},
               saw'[q].there
        PROVE  Told(q, saw[q].ino)'
    <3>1. CASE q # r
      <4>1. saw[q].ino \in Version /\ saw'[q] = saw[q] /\ Told(q, saw[q].ino)
          BY <1>1, <2>1, <3>1, StatTold DEF TypeOK, Stats
      <4>2. \A i \in Version : Told(q, i) => Told(q, i)'
          BY <4>1, ToldStep
      <4> QED
          BY <4>1, <4>2 DEF Told
    <3>2. CASE q = r /\ target \in Version
      <4>1. saw'[r] = StatOf(target) /\ Settled(target)
          BY <1>1, <3>2 DEF TargetInv
      <4>2. saw'[r].ino = target /\ (target \in unsafe \/ saw'[r].size = Size[target])
            /\ [mode |-> saw'[r].mode, owner |-> saw'[r].owner] = FinalAttrs(target)
          BY <3>2, <4>1, StatSettled
      <4>3. target \in Request => /\ IsWriter(target)' /\ Given(target)' = Given(target)
                                  /\ pc'[target] \in {"reply", "ok", "dead"}
        <5> SUFFICES ASSUME target \in Request
                     PROVE  /\ IsWriter(target)' /\ Given(target)' = Given(target)
                            /\ pc'[target] \in {"reply", "ok", "dead"}
            OBVIOUS
        <5>1. PICK v \in Request : v = target
            OBVIOUS
        <5>2. IsWriter(v) /\ pc[v] \in {"reply", "ok", "dead"}
            BY <4>1, <5>1 DEF Settled
        <5>3. /\ IsWriter(v)' /\ Given(v)' = Given(v)
              /\ pc'[v] \in {"reply", "ok", "dead"}
            BY <5>2, PastStep
        <5>4. v = target /\ v = target'
            BY <1>1, <5>1
        <5>5. Given(target)' = Given(v)' /\ Given(target) = Given(v)
            BY <5>4 DEF Given, FinalMode, KeepsOwner
        <5> QED
            BY <5>3, <5>4, <5>5 DEF IsWriter
      <4>4. FinalAttrs(target)' = FinalAttrs(target)
          BY <1>1, <3>2, <4>1, <4>3, SettledStep DEF FinalAttrs
      <4> QED
          BY <1>1, <3>2, <4>2, <4>3, <4>4 DEF Told
    <3>3. CASE q = r /\ target \notin Version
      <4>1. ~saw[r].there
          BY <1>1 DEF ReaderInv
      <4> QED
          BY <1>1, <2>1, <3>3, <4>1
    <3> QED
        BY <3>1, <3>2, <3>3
  <2> QED
      BY <1>1, <2>1 DEF StatTrue, Told
<1> QED
    BY <1>2, <1>3, <1>4, <1>5, <1>6 DEF Inv

LEMMA ReadOpenInv == ASSUME Inv, NEW r \in Request, ReadOpen(r) PROVE Inv'
<1> TypeOK /\ TargetInv /\ ReaderInv /\ GetInv
    BY DEF Inv
<1> RequestStep(r)
    BY DEF RequestStep, Read
<1>1. /\ UNCHANGED <<call, unsafe, unset, saw, off, out, fs, target, blocks>>
      /\ pc[r] = "open" /\ ~IsWriter(r) /\ fd'[r] = target /\ target # NoFile
      /\ pc'[r] = (IF call[r].verb = "get_file" THEN "fstat" ELSE "read")
      /\ \A q \in Request : q # r => pc'[q] = pc[q] /\ fd'[q] = fd[q]
    BY DEF ReadOpen, Goto, TypeOK, fs
<1>2. out[r] = <<>> /\ call[r].verb \in {"read_file", "get_file"}
      /\ (call[r].verb = "read_file" => target \in Version)
  <2>1. call[r].verb \in {"read_file", "get_file", "stat"} /\ call[r].verb # "stat"
      BY <1>1, VerbAssumption DEF ReaderInv, TypeOK, Calls, IsWriter, Readers
  <2> QED
      BY <1>1, <2>1 DEF ReaderInv
<1>3. TypeOK' /\ PidInv'
  <2>1. fd' \in [Request -> Version \cup {NoFile, Dir}]
      BY DEF ReadOpen, TypeOK
  <2> QED
      BY <1>1, <2>1, TypeStep, PidStep DEF TypeOK, Live
<1>4. UnsafeInv' /\ WriterInv' /\ DraftInv' /\ FreshInv' /\ TempInv' /\ TargetInv' /\ PastInv'
    BY <1>1, QuietInv
<1>5. ReaderInv'
  <2>1. \A i \in Version : Settled(i) => Settled(i)'
      BY SettledStep
  <2> QED
      BY <1>1, <1>2, <2>1 DEF ReaderInv, TargetInv, IsWriter
<1>6. GetInv'
  <2>1. Len(out[r]) = 0 /\ \A i \in Version : out[r] = Part(i, 0)
      BY <1>2, EmptyPart
  <2>2. call[r].verb = "read_file" => Len(blocks[target]) >= 0
      BY <1>2 DEF TypeOK
  <2>3. ASSUME NEW q \in Request, Steady(q) PROVE GetInv!(q)!2'
    <3>1. CASE q = r
      <4>1. CASE call[r].verb = "get_file"
          BY <1>1, <3>1, <4>1
      <4>2. CASE call[r].verb = "read_file"
        <5>1. saw[r].size = Len(blocks[target])
            BY <1>1, <2>3, <3>1, <4>2 DEF GetInv
        <5> QED
            BY <1>1, <1>2, <2>1, <2>2, <3>1, <4>2, <5>1 DEF Part
      <4> QED
          BY <1>2, <4>1, <4>2
    <3>2. CASE q # r
        BY <1>1, <2>3, <3>2 DEF GetInv, Part, Whole
    <3> QED
        BY <3>1, <3>2
  <2> QED
      BY <1>1, <2>3 DEF GetInv, Steady, OneConnection, Pids
<1>7. StatTrue'
    BY <1>1, StatFrame
<1> QED
    BY <1>3, <1>4, <1>5, <1>6, <1>7 DEF Inv

LEMMA GetStatInv == ASSUME Inv, NEW r \in Request, GetStat(r) PROVE Inv'
<1> TypeOK /\ ReaderInv /\ GetInv
    BY DEF Inv
<1> RequestStep(r)
    BY DEF RequestStep, Read
<1>1. /\ UNCHANGED <<call, unsafe, unset, fd, off, out, fs, target, blocks>>
      /\ pc[r] = "fstat" /\ pc'[r] = "read" /\ ~IsWriter(r) /\ call[r].verb = "get_file"
      /\ fd[r] \in Version /\ saw'[r] = StatOf(fd[r]) /\ out[r] = <<>>
      /\ \A q \in Request : q # r => pc'[q] = pc[q] /\ saw'[q] = saw[q]
    BY DEF GetStat, Goto, TypeOK, fs, ReaderInv
<1>2. TypeOK' /\ PidInv'
  <2>1. saw' \in [Request -> Stats]
      BY <1>1, StatSettled DEF GetStat, ReaderInv, TypeOK
  <2> QED
      BY <1>1, <2>1, TypeStep, PidStep DEF TypeOK, Live
<1>3. UnsafeInv' /\ WriterInv' /\ DraftInv' /\ FreshInv' /\ TempInv' /\ TargetInv' /\ PastInv'
    BY <1>1, QuietInv
<1>4. ReaderInv'
  <2>1. \A i \in Version : Settled(i) => Settled(i)'
      BY SettledStep
  <2> QED
      BY <1>1, <2>1 DEF ReaderInv, IsWriter
<1>5. GetInv'
  <2>1. Len(out[r]) = 0 /\ out[r] = Part(fd[r], 0) /\ saw'[r].size = Len(blocks[fd[r]])
        /\ Len(blocks[fd[r]]) >= 0
      BY <1>1, EmptyPart DEF StatOf, TypeOK
  <2>2. ASSUME NEW q \in Request, Steady(q) PROVE GetInv!(q)!2'
      BY <1>1, <2>1, <2>2 DEF GetInv, Part, Whole
  <2> QED
      BY <1>1, <2>2 DEF GetInv, Steady, OneConnection, Pids
<1>6. StatTrue'
    BY <1>1, StatFrame
<1> QED
    BY <1>2, <1>3, <1>4, <1>5, <1>6 DEF Inv

LEMMA ReadBlockInv == ASSUME Inv, NEW r \in Request, ReadBlock(r) PROVE Inv'
<1> TypeOK /\ ReaderInv /\ GetInv
    BY DEF Inv
<1> RequestStep(r)
    BY DEF RequestStep, Read
<1> DEFINE b == blocks[fd[r]][Len(out[r]) + 1]
<1>1. /\ UNCHANGED <<call, unsafe, unset, pc, saw, fd, off, fs, target, blocks>>
      /\ pc[r] = "read" /\ ~IsWriter(r) /\ fd[r] \in Version /\ call[r].verb # "stat"
      /\ out' = [out EXCEPT ![r] = Append(out[r], b)]
      /\ Len(out[r]) < saw[r].size /\ Len(out[r]) < Len(blocks[fd[r]])
    BY DEF ReadBlock, MoreToRead, fs, ReaderInv
<1>2. blocks[fd[r]] \in Seq(Version) /\ out[r] \in Seq(Version) /\ b \in Version
    BY <1>1 DEF TypeOK
<1>3. out'[r] = Append(out[r], b) /\ \A q \in Request : q # r => out'[q] = out[q]
    BY <1>1 DEF TypeOK
<1> HIDE DEF b
<1>4. TypeOK' /\ PidInv'
  <2>1. Append(out[r], b) \in Seq(Version)
      BY <1>2
  <2>2. out' \in [Request -> Seq(Version)]
      BY <1>1, <2>1 DEF TypeOK
  <2> QED
      BY <1>1, <2>2, TypeStep, PidStep DEF TypeOK, Live
<1>5. UnsafeInv' /\ WriterInv' /\ DraftInv' /\ FreshInv' /\ TempInv' /\ TargetInv' /\ PastInv'
    BY <1>1, QuietInv
<1>6. ReaderInv'
  <2>1. \A i \in Version : Settled(i) => Settled(i)'
      BY SettledStep
  <2> QED
      BY <1>1, <1>3, <2>1 DEF ReaderInv, IsWriter
<1>7. GetInv'
  <2>1. ASSUME Steady(r)
        PROVE  Len(out'[r]) <= saw[r].size /\ out'[r] = Part(fd[r], Len(out'[r]))
    <3>1. Prefix(fd[r])
        BY <1>1 DEF ReaderInv, Settled
    <3>2. out[r] = Part(fd[r], Len(out[r])) /\ saw[r].size = Len(blocks[fd[r]])
        BY <1>1, <2>1 DEF GetInv
    <3>3. Len(out[r]) \in Nat /\ Len(blocks[fd[r]]) \in Nat
        BY <1>2
    <3>4. b = fd[r]
      <4>1. blocks[fd[r]] = Part(fd[r], Len(blocks[fd[r]]))
          BY <3>1 DEF Prefix
      <4>2. Len(out[r]) + 1 \in 1..Len(blocks[fd[r]])
          BY <1>1, <3>3
      <4>3. \A k \in 1..Len(blocks[fd[r]]) : Part(fd[r], Len(blocks[fd[r]]))[k] = fd[r]
          BY <3>3, PartFacts
      <4> QED
          BY <4>1, <4>2, <4>3 DEF b
    <3>5. out'[r] = Part(fd[r], Len(out[r]) + 1)
        BY <1>3, <3>2, <3>3, <3>4, PartNext
    <3> QED
        BY <1>1, <3>2, <3>3, <3>5, PartFacts
  <2>2. ASSUME NEW q \in Request, Steady(q) PROVE GetInv!(q)!2'
    <3>1. CASE q = r
        BY <1>1, <2>1, <2>2, <3>1 DEF GetInv
    <3>2. CASE q # r
        BY <1>1, <1>3, <2>2, <3>2 DEF GetInv, Part, Whole
    <3> QED
        BY <3>1, <3>2
  <2> QED
      BY <1>1, <2>2 DEF GetInv, Steady, OneConnection, Pids
<1>8. StatTrue'
    BY <1>1, StatFrame
<1> QED
    BY <1>4, <1>5, <1>6, <1>7, <1>8 DEF Inv

\* The read loop is over: at its end, or for get_file at a read() that fails.
LEMMA ReadEndInv ==
    ASSUME Inv, NEW r \in Request,
           ReadEnd(r) \/ (ReadError(r) /\ call[r].verb = "get_file")
    PROVE  Inv'
<1> TypeOK /\ ReaderInv /\ GetInv
    BY DEF Inv
<1> RequestStep(r)
    BY DEF RequestStep, Read
<1>1. /\ UNCHANGED <<call, unsafe, unset, saw, fd, off, out, fs, target, blocks>>
      /\ pc[r] = "read" /\ pc'[r] = "reply" /\ ~IsWriter(r) /\ call[r].verb # "stat"
      /\ fd[r] \in Version /\ (call[r].verb = "read_file" => ~MoreToRead(r))
      /\ \A q \in Request : q # r => pc'[q] = pc[q]
    BY DEF ReadEnd, ReadError, Goto, TypeOK, fs, ReaderInv
<1>2. TypeOK' /\ PidInv'
    BY <1>1, TypeStep, PidStep DEF TypeOK, Live
<1>3. UnsafeInv' /\ WriterInv' /\ DraftInv' /\ FreshInv' /\ TempInv' /\ TargetInv' /\ PastInv'
    BY <1>1, QuietInv
<1>4. ReaderInv'
  <2>1. \A i \in Version : Settled(i) => Settled(i)'
      BY SettledStep
  <2> QED
      BY <1>1, <2>1 DEF ReaderInv, IsWriter
<1>5. GetInv'
  <2>1. Steady(r) /\ call[r].verb = "read_file" => Len(out[r]) = saw[r].size
      BY <1>1 DEF GetInv, MoreToRead, TypeOK
  <2>2. ASSUME NEW q \in Request, Steady(q) PROVE GetInv!(q)!2'
      BY <1>1, <2>1, <2>2 DEF GetInv, Part, Whole
  <2> QED
      BY <1>1, <2>2 DEF GetInv, Steady, OneConnection, Pids
<1>6. StatTrue'
    BY <1>1, StatFrame
<1> QED
    BY <1>2, <1>3, <1>4, <1>5, <1>6 DEF Inv

\* A crash of the host.
LEMMA HostCrashInv == ASSUME Inv, HostCrash PROVE Inv'
<1> TypeOK /\ PidInv /\ UnsafeInv /\ WriterInv /\ FreshInv /\ TempInv /\ TargetInv
    /\ ReaderInv /\ GetInv /\ PastInv /\ StatTrue
    BY DEF Inv
<1>1. /\ UNCHANGED <<call, unsafe, unset, saw, fd, off, out, target, temp, meta>>
      /\ synced' = Version
      /\ pc' = [q \in Request |-> IF pc[q] \in Live THEN "dead" ELSE pc[q]]
      /\ blocks' \in [Version -> Seq(Version)]
      /\ \A i \in synced : blocks'[i] = blocks[i]
      /\ \A i \in Version : blocks[i] = <<>> => blocks'[i] = <<>>
    BY CrashFacts
<1>2. TypeOK'
    BY <1>1 DEF TypeOK, Live, Done
<1>3. PidInv' /\ UnsafeInv' /\ WriterInv' /\ DraftInv'
    BY <1>1 DEF PidInv, UnsafeInv, WriterInv, DraftInv, Writing, Live
<1>4. FreshInv'
    BY <1>1 DEF FreshInv, Live, Version
<1>5. TempInv'
  <2>1. ASSUME NEW p \in Pid, NEW q \in Request, temp'[p] = q
        PROVE  TempInv!2!(p, q)!2'
      BY <1>1, <2>1 DEF TempInv, Pids, Durable, Whole, Version, Live
  <2> QED
      BY <1>1, <2>1 DEF TempInv
<1>6. \A i \in Version : Settled(i) => Settled(i)' /\ (i \notin unsafe => blocks'[i] = blocks[i])
    BY SettledCrash
<1>7. TargetInv' /\ ReaderInv'
    BY <1>1, <1>6 DEF TargetInv, ReaderInv, IsWriter, Live
<1>8. GetInv'
    BY <1>1 DEF GetInv, Steady, OneConnection, Pids, Live, Whole
<1>9. PastInv'
    BY <1>1, <1>6 DEF PastInv, Live, IsWriter, Version
<1>10. StatTrue'
  <2>1. ASSUME NEW q \in Request, call[q].verb = "stat", pc'[q] \in {"reply", "ok"},
               saw'[q].there
        PROVE  Told(q, saw[q].ino)'
    <3>1. Told(q, saw[q].ino)
        BY <1>1, <2>1, StatTold DEF Live
    <3>2. saw[q].ino \in Request =>
              /\ Given(saw[q].ino)' = Given(saw[q].ino)
              /\ IsWriter(saw[q].ino)' = IsWriter(saw[q].ino)
              /\ pc[saw[q].ino] \in {"reply", "ok", "dead"} =>
                    pc'[saw[q].ino] \in {"reply", "ok", "dead"}
        BY <1>1, GivenFrame DEF IsWriter
    <3> QED
        BY <1>1, <3>1, <3>2 DEF Told, FinalAttrs
  <2> QED
      BY <1>1, <2>1 DEF StatTrue, Told
<1> QED
    BY <1>2, <1>3, <1>4, <1>5, <1>7, <1>8, <1>9, <1>10 DEF Inv

LEMMA StutterInv == ASSUME Inv, UNCHANGED vars PROVE Inv'
<1>1. UNCHANGED <<call, unsafe, unset, pc, saw, fd, off, out, target, temp, blocks, meta, synced>>
    BY DEF vars, proc, fs
<1>2. TypeOK' /\ PidInv' /\ UnsafeInv' /\ FreshInv'
    BY <1>1 DEF Inv, TypeOK, PidInv, UnsafeInv, FreshInv, Pids
<1>3. WriterInv' /\ DraftInv' /\ TempInv'
    BY <1>1, GivenFrame DEF Inv, WriterInv, DraftInv, Draft, TempInv, Durable, Writing, IsWriter, Pids, Whole, Part
<1>4. TargetInv' /\ ReaderInv' /\ PastInv'
  <2>1. \A i \in Version : Settled(i) => Settled(i)'
      BY <1>1, GivenFrame DEF Settled, Durable, Prefix, IsWriter, Whole, Part
  <2> QED
      BY <1>1, <2>1 DEF Inv, TargetInv, ReaderInv, PastInv, IsWriter, Version
<1>5. GetInv'
    BY <1>1 DEF Inv, GetInv, Steady, OneConnection, Pids, Whole, Part
<1>6. StatTrue'
    BY <1>1, GivenFrame DEF Inv, StatTrue, FinalAttrs, IsWriter
<1> QED
    BY <1>2, <1>3, <1>4, <1>5, <1>6 DEF Inv

\* Every step of the verbs, and every crash, keeps the invariant.
LEMMA NextInv == ASSUME Inv, Next PROVE Inv'
<1>1. CASE HostCrash
    BY <1>1, HostCrashInv
<1>2. ASSUME NEW r \in Request, Begin(r) \/ Refused(r) \/ Reply(r) \/ Kill(r)
      PROVE  Inv'
  <2>1. CASE Refused(r)
      BY <2>1, EndInv DEF Refused, RequestStep, Live
  <2>2. CASE Kill(r)
      BY <2>2, EndInv DEF Kill, RequestStep
  <2> QED
      BY <1>2, <2>1, <2>2, BeginInv, ReplyInv
<1>3. ASSUME NEW r \in Request, Write(r) PROVE Inv'
  <2>1. RequestStep(r)
      BY <1>3 DEF RequestStep
  <2>2. CASE TempTaken(r)
      BY <2>1, <2>2, EndInv DEF TempTaken, Live
  <2>3. CASE WriteError(r) \/ BodyLost(r) \/ RenameError(r)
      BY <2>1, <2>3, AbandonInv DEF WriteError, BodyLost, RenameError, Writing
  <2> QED
      BY <1>3, <2>2, <2>3, WriteStatInv, CreateTempInv, WriteBlockInv, SyncInv,
         ChownInv, ChmodInv, RenameInv DEF Write
<1>4. ASSUME NEW r \in Request, Read(r) PROVE Inv'
  <2>1. RequestStep(r)
      BY <1>4 DEF RequestStep
  <2>2. CASE \/ OpenMissing(r) \/ GetNotRegular(r)
             \/ ReadError(r) /\ call[r].verb # "get_file"
      BY <2>1, <2>2, EndInv DEF OpenMissing, GetNotRegular, ReadError, Live
  <2> QED
      BY <1>4, <2>2, ReadStatInv, ReadOpenInv, GetStatInv, ReadBlockInv,
         ReadEndInv, LstatInv DEF Read
<1> QED
    BY <1>1, <1>2, <1>3, <1>4 DEF Next

\* The invariant holds in every reachable state, whatever the number of
\* requests, pids, users and blocks, whichever of fsync(), fchown() and fchmod()
\* fail.
THEOREM Invariance == Spec => []Inv
<1>1. Inv /\ [Next]_vars => Inv'
    BY NextInv, StutterInv
<1> QED
    BY <1>1, InitInv, PTL DEF Spec

\* Every variable has its type.
THEOREM TypeCorrect == Spec => []TypeOK
<1>1. Inv => TypeOK
    BY DEF Inv
<1> QED
    BY <1>1, Invariance, PTL

\* The path never names a file that is not one complete version
\* (verbWriteFile, verbPutFileStream: write, fsync, then rename).
THEOREM TargetIsWhole == Spec => []TargetWhole
<1>1. Inv => TargetWhole
    BY DEF Inv, TargetInv, Settled, Durable, TargetWhole
<1> QED
    BY <1>1, Invariance, PTL

\* Every temp file is that of a request in progress or of a killed one: the
\* error paths of the two writing verbs unlink it.
THEOREM NoTempIsStray == Spec => []NoStrayTemp
<1>1. Inv => NoStrayTemp
    BY DEF Inv, TempInv, NoStrayTemp
<1> QED
    BY <1>1, Invariance, PTL

\* A temp file keeps mode 0600 until its data is complete.
THEOREM TempIsPrivate == Spec => []TempPrivate
<1>1. Inv => TempPrivate
    BY NameAssumption DEF Inv, TypeOK, TempInv, Durable, TempPrivate, Version
<1> QED
    BY <1>1, Invariance, PTL

\* What the path names, and what a writer that answered has had it name, is
\* never modified in place, by anyone, unless its own fsync() failed.
THEOREM PublishedIsImmutable == Spec => PublishedImmutable
<1>1. Inv /\ [Next]_vars => [\A i \in Version \ unsafe : Published(i) =>
                                blocks'[i] = blocks[i] /\ meta'[i] = meta[i]]_vars
  <2> SUFFICES ASSUME Inv, Next, NEW i \in Version \ unsafe, Published(i)
               PROVE  blocks'[i] = blocks[i] /\ meta'[i] = meta[i]
      OBVIOUS
  <2>1. Settled(i)
      BY DEF Inv, TargetInv, PastInv, Published
  <2>2. CASE HostCrash
      BY <2>1, <2>2, SettledCrash
  <2>3. ASSUME NEW r \in Request, RequestStep(r)
        PROVE  blocks'[i] = blocks[i] /\ meta'[i] = meta[i]
      BY <2>1, <2>3, SettledStep
  <2> QED
      BY <2>2, <2>3 DEF Next, RequestStep
<1> QED
    BY <1>1, Invariance, PTL DEF Spec, PublishedImmutable

\* A successful write reports the mode the file has, unless its fchmod() failed
\* (verbWriteFile, verbPutFileStream report finalMode and do not look).
THEOREM ReplyIsTrue == Spec => []ReplyMode
<1>1. Inv => ReplyMode
  <2>1. ASSUME NEW r \in Request, PastInv, IsWriter(r), pc[r] \in {"reply", "ok"},
               "mode" \notin unset[r]
        PROVE  meta[r].mode = FinalMode(r)
    <3>1. meta[r] = Given(r)
        BY <2>1 DEF PastInv, Settled
    <3> QED
        BY <2>1, <3>1 DEF Given
  <2> QED
      BY <2>1 DEF Inv, ReplyMode
<1> QED
    BY <1>1, Invariance, PTL

\* A get_file that answers ok announces the size of the one version it opened
\* and sends a beginning of it, all of it if it sends all it announced; a
\* read_file that answers ok when the requests of its connection are all there
\* is returns all of it (verbReadFile takes its size from a stat() of the path,
\* but nobody can rename over it in between).
THEOREM ReadIsWhole == Spec => []ReadWhole
<1>1. Inv => ReadWhole
  <2> SUFFICES ASSUME Inv, NEW r \in Request, Steady(r), pc[r] = "ok", fd[r] \notin unsafe
               PROVE  ReadWhole!(r)!2
      BY DEF ReadWhole
  <2>1. Len(out[r]) <= saw[r].size /\ saw[r].size \in Nat /\ Len(out[r]) \in Nat
      BY SizeAssumption DEF Inv, GetInv, TypeOK, Stats
  <2>2. call[r].verb \in {"read_file", "get_file"}
      BY DEF Steady
  <2> QED
      BY <2>1, <2>2 DEF Inv, GetInv
<1> QED
    BY <1>1, Invariance, PTL

\* A stat tells the size, the mode and the owner of the file the path named when
\* it looked: a complete version, with the attributes its writer gave it.
THEOREM StatIsTrue == Spec => []StatTrue
<1>1. Inv => StatTrue
    BY DEF Inv
<1> QED
    BY <1>1, Invariance, PTL

(***************************************************************************)
(* The attributes of the path, for requests of one connection.             *)
(***************************************************************************)

\* Between its stat() and its rename() a writer has seen the file that the path
\* still names.
Sees(r) ==
    /\ pc[r] \in {"new", "stat"} => ~saw[r].there
    /\ pc[r] \in {"open", "write", "chown", "chmod", "rename"} =>
        /\ target # Dir
        /\ saw[r].there <=> target \in Version
        /\ target \in Version =>
            saw[r].mode = meta[target].mode /\ saw[r].owner = meta[target].owner

AttrsInv == OneConnection => \A r \in Request : IsWriter(r) => Sees(r)

LEMMA AttrsInit == Init => AttrsInv
BY DEF Init, AttrsInv, Sees, NoStat

\* A writer's own steps; only the last leaves the path with another file.
LEMMA SeesOwn ==
    ASSUME Inv, NEW r \in Request, IsWriter(r), Sees(r), RequestStep(r)
    PROVE  Sees(r)'
<1>1. TypeOK /\ WriterInv /\ TargetInv
    BY DEF Inv
<1>2. CASE Begin(r) \/ Refused(r) \/ Reply(r) \/ Kill(r)
    BY <1>1, <1>2 DEF Begin, Refused, Reply, Kill, Goto, Sees, TypeOK, fs,
       IsWriter, Writers
<1>3. CASE WriteStat(r)
    BY <1>1, <1>3 DEF WriteStat, Goto, Sees, StatOf, TypeOK, fs
<1>4. CASE TempTaken(r) \/ WriteError(r) \/ BodyLost(r) \/ Rename(r) \/ RenameError(r)
    BY <1>1, <1>4 DEF TempTaken, WriteError, BodyLost, Rename, RenameError, Goto,
       Sees, TypeOK
<1>5. CASE CreateTemp(r) \/ WriteBlock(r) \/ Sync(r) \/ Chown(r) \/ Chmod(r)
  <2>1. /\ saw' = saw /\ target' = target /\ call' = call
        /\ pc[r] \in {"open", "write", "chown", "chmod"}
        /\ pc'[r] \in {"write", "chown", "chmod", "rename"}
      BY <1>1, <1>5 DEF CreateTemp, WriteBlock, Sync, Chown, Chmod, Goto, TypeOK
  <2>2. target \in Version => meta'[target] = meta[target]
      BY <1>1, SettledStep DEF TargetInv
  <2> QED
      BY <2>1, <2>2 DEF Sees
<1>6. CASE Read(r)
    BY <1>6 DEF Read, ReadStat, ReadOpen, OpenMissing, GetStat, GetNotRegular,
       ReadBlock, ReadEnd, ReadError, Lstat, Inv, ReaderInv, IsWriter, Writers
<1> QED
    BY <1>2, <1>3, <1>4, <1>5, <1>6 DEF RequestStep, Write

\* While a request of one connection is at work nobody else is.
LEMMA SeesOther ==
    ASSUME Inv, OneConnection, NEW r \in Request, IsWriter(r), Sees(r),
           NEW q \in Request, q # r, RequestStep(q)
    PROVE  Sees(r)'
<1>1. TypeOK /\ PidInv /\ call' = call
    BY Others DEF Inv
<1>2. pc'[r] = pc[r] /\ saw'[r] = saw[r]
    BY <1>1, Others
<1>3. pc[q] \in Live \/ Begin(q)
    BY DEF RequestStep, Refused, Reply, Kill, Write, WriteStat, CreateTemp,
       TempTaken, WriteBlock, WriteError, BodyLost, Sync, Chown, Chmod, Rename,
       RenameError, Read, ReadStat, ReadOpen, OpenMissing, GetStat,
       GetNotRegular, ReadBlock, ReadEnd, ReadError, Lstat, Live
<1>4. pc[r] \notin Live
    BY <1>1, <1>3 DEF OneConnection, PidInv, Begin
<1> QED
    BY <1>2, <1>4 DEF Sees, Live

LEMMA AttrsStep == Inv /\ AttrsInv /\ [Next]_vars => AttrsInv'
<1> SUFFICES ASSUME Inv, AttrsInv, [Next]_vars, OneConnection',
                    NEW r \in Request, IsWriter(r)'
             PROVE  Sees(r)'
    BY DEF AttrsInv
<1>1. CASE UNCHANGED vars
    BY <1>1 DEF vars, proc, fs, AttrsInv, Sees, OneConnection, Pids, IsWriter
<1>2. CASE HostCrash
  <2>1. pc'[r] = IF pc[r] \in Live THEN "dead" ELSE pc[r]
      BY <1>2 DEF HostCrash
  <2>2. saw' = saw /\ call' = call
      BY <1>2 DEF HostCrash
  <2> QED
      BY <2>1, <2>2 DEF AttrsInv, Sees, Live, OneConnection, Pids, IsWriter
<1>3. ASSUME NEW q \in Request, RequestStep(q)
      PROVE  Sees(r)'
  <2>1. call' = call
      BY <1>3, Others DEF Inv
  <2>2. OneConnection /\ IsWriter(r) /\ Sees(r)
      BY <2>1 DEF AttrsInv, OneConnection, Pids, IsWriter
  <2> QED
      BY <1>3, <2>2, SeesOwn, SeesOther
<1> QED
    BY <1>1, <1>2, <1>3 DEF Next, RequestStep

\* On one connection a write without "mode" leaves the path with the mode of the
\* file it replaces, and with its owner when root writes; a new file gets 0644
\* (verbWriteFile, verbPutFileStream: fchown, then fchmod, then rename).  What
\* that request's own fchown() or fchmod() failed to set is excepted; the mode is
\* then 0600.
THEOREM AttrsArePreserved == Spec => AttrsPreserved
<1>1. Inv /\ AttrsInv /\ [Next]_vars =>
        [\A r \in Request :
           (/\ OneConnection /\ call[r].mode = NoMode
            /\ pc[r] = "rename" /\ pc'[r] = "reply") => KeepsAttrs(r)]_vars
  <2> SUFFICES ASSUME Inv, AttrsInv, Next, NEW r \in Request, OneConnection,
                      call[r].mode = NoMode, pc[r] = "rename", pc'[r] = "reply"
               PROVE  KeepsAttrs(r)
      OBVIOUS
  <2>1. TypeOK /\ WriterInv /\ DraftInv
      BY DEF Inv
  <2>2. IsWriter(r) /\ temp[Pids(r)] = r /\ meta[r] = Given(r)
      BY <2>1 DEF WriterInv, DraftInv, Draft, Writing
  <2>3. Rename(r)
    <3>1. ~HostCrash
        BY DEF HostCrash, Live
    <3>2. PICK q \in Request : RequestStep(q)
        BY <3>1 DEF Next, RequestStep
    <3>3. q = r
        BY <2>1, <3>2, Others
    <3> QED
        BY <2>1, <2>2, <3>2, <3>3 DEF RequestStep, Begin, Refused, Reply, Kill, Write,
           WriteStat, CreateTemp, TempTaken, WriteBlock, WriteError, BodyLost, Sync,
           Chown, Chmod, RenameError, Read, ReadStat, ReadOpen, OpenMissing, GetStat,
           GetNotRegular, ReadBlock, ReadEnd, ReadError, Lstat, Goto, TypeOK
  <2>4. target' = r /\ meta' = meta /\ target # Dir
      BY <2>2, <2>3 DEF Rename
  <2>5. Sees(r)
      BY <2>2 DEF AttrsInv
  <2> QED
      BY <2>1, <2>2, <2>4, <2>5, NameAssumption
      DEF Sees, KeepsAttrs, Given, KeepsOwner, FinalMode, TypeOK
<1> QED
    BY <1>1, Invariance, AttrsInit, AttrsStep, PTL DEF Spec, AttrsPreserved

(***************************************************************************)
(* FileVerbs implements AtomicFile: every step of a verb, and every crash, *)
(* is a step of the abstract file or leaves it alone.                      *)
(***************************************************************************)

\* The abstract state, as the INSTANCE of AtomicFile maps it.
AFile   == Value(target)
ATear   == IF target \in unsafe THEN {Part(target, n) : n \in 0..Size[target]} ELSE {}
AKind   == [r \in Request |-> IF IsWriter(r) THEN "write" ELSE "read"]
APhase  == [r \in Request |-> IF Hidden(r) THEN "new"
                              ELSE IF Short(r) THEN "short" ELSE Phase(pc[r])]
ASeen   == [r \in Request |-> IF Picked(r) THEN Value(fd[r]) ELSE NoFile]
AResult == [r \in Request |-> IF call[r].verb = "get_file" /\ pc[r] = "ok" /\ ~Short(r)
                              THEN out[r] ELSE NoFile]

LEMMA PhaseFacts ==
    /\ Phase("new") = "new" /\ Phase("ok") = "ok" /\ Phase("err") = "err"
    /\ \A s \in {"closed", "dead"} : Phase(s) = "lost"
    /\ \A s \in {"fstat", "read", "reply"} : Phase(s) = "applied"
    /\ \A s \in {"stat", "open", "write", "chown", "chmod", "rename"} : Phase(s) = "open"
BY DEF Phase

\* What the path names is one of the abstract values for a file exactly when
\* it is a file.
LEMMA ValueFacts ==
    ASSUME Inv
    PROVE  /\ AFile = NoFile <=> target = NoFile
           /\ AFile = Dir <=> target = Dir
<1>1. TypeOK /\ TargetInv
    BY DEF Inv
<1>2. ASSUME target \in Version
      PROVE  blocks[target] \notin {NoFile, Dir}
  <2>1. Prefix(target)
      BY <1>1, <1>2 DEF TargetInv, Settled
  <2>2. /\ blocks[target] = Part(target, Len(blocks[target]))
        /\ Len(blocks[target]) <= Size[target] /\ Len(blocks[target]) \in Nat
      BY <1>1, <1>2, <2>1 DEF Prefix, TypeOK
  <2>3. Len(blocks[target]) \in 0..MaxBlocks
      BY <1>2, <2>2, SizeAssumption
  <2> QED
      BY <1>2, <2>2, <2>3, DataAssumption
<1>3. target \in Version => target \notin {NoFile, Dir}
    BY NameAssumption
<1>4. target \in Version \cup {NoFile, Dir}
    BY <1>1 DEF TypeOK
<1> QED
    BY <1>2, <1>3, <1>4, NameAssumption DEF AFile, Value

\* fsync() fails on the writer's own inode, which the path does not name yet.
LEMMA UnsafeStep ==
    ASSUME Inv, NEW r \in Request, RequestStep(r)
    PROVE  target \in Version => (target \in unsafe' <=> target \in unsafe)
<1>1. TypeOK /\ WriterInv /\ TargetInv
    BY DEF Inv
<1>2. CASE Sync(r)
  <2>1. unsafe' \subseteq unsafe \cup {r} /\ unsafe \subseteq unsafe'
      BY <1>1, <1>2 DEF Sync, WriterInv, Writing
  <2>2. target # r
      BY <1>2 , <1>1 DEF Sync, TargetInv, Settled, Version
  <2> QED
      BY <2>1, <2>2
<1>3. CASE ~Sync(r)
  <2>1. unsafe' = unsafe
      BY <1>3 DEF RequestStep, Begin, Refused, Reply, Kill, Read, ReadStat,
         ReadOpen, OpenMissing, GetStat, GetNotRegular, ReadBlock, ReadEnd,
         ReadError, Lstat, Write, WriteStat, CreateTemp, TempTaken, WriteBlock,
         WriteError, BodyLost, Chown, Chmod, Rename, RenameError
  <2> QED
      BY <2>1
<1> QED
    BY <1>2, <1>3

\* Unless it renames over the path, a step of request r changes no more of the
\* abstract state than what is r's.
LEMMA Frame ==
    ASSUME Inv, NEW r \in Request, RequestStep(r)
    PROVE  /\ AKind' = AKind
           /\ target' = target => AFile' = AFile /\ ATear' = ATear
           /\ \A q \in Request : q # r =>
                /\ APhase'[q] = APhase[q] /\ ASeen'[q] = ASeen[q]
                /\ AResult'[q] = AResult[q]
<1>1. TypeOK /\ TargetInv /\ ReaderInv
    BY DEF Inv
<1>2. /\ call' = call
      /\ \A q \in Request : q # r => pc'[q] = pc[q] /\ fd'[q] = fd[q] /\ out'[q] = out[q]
                                     /\ saw'[q] = saw[q]
    BY <1>1, Others
<1>3. AKind' = AKind
    BY <1>2 DEF AKind, IsWriter
<1>4. ASSUME target' = target
      PROVE  AFile' = AFile /\ ATear' = ATear
  <2>1. target \in Version => blocks'[target] = blocks[target]
      BY <1>1, SettledStep DEF TargetInv
  <2>2. target \in unsafe' <=> target \in unsafe
    <3>1. target \in unsafe' \/ target \in unsafe => target \in Version
        BY <1>1, NextInv, <1>4 DEF Next, RequestStep, Inv, TypeOK
    <3> QED
        BY <3>1, UnsafeStep
  <2> QED
      BY <1>4, <2>1, <2>2 DEF AFile, ATear, Value, Part
<1>5. ASSUME NEW q \in Request, q # r
      PROVE  /\ APhase'[q] = APhase[q] /\ ASeen'[q] = ASeen[q]
             /\ AResult'[q] = AResult[q]
  <2>1. APhase'[q] = APhase[q] /\ AResult'[q] = AResult[q]
      BY <1>2, <1>5 DEF APhase, AResult, Hidden, Short
  <2>2. Picked(q)' = Picked(q)
      BY <1>2, <1>5 DEF Picked
  <2>3. Picked(q) => Value(fd[q])' = Value(fd[q])
    <3>1. Picked(q) /\ fd[q] \in Version => blocks'[fd[q]] = blocks[fd[q]]
        BY <1>1, SettledStep DEF ReaderInv, Picked, IsWriter, Writers
    <3> QED
        BY <1>2, <1>5, <3>1 DEF Value
  <2> QED
      BY <1>2, <1>5, <2>1, <2>2, <2>3 DEF ASeen, Value
<1> QED
    BY <1>3, <1>4, <1>5

\* What is r's follows from its verb, its pc and its file.
LEMMA Own ==
    ASSUME NEW r \in Request
    PROVE  /\ APhase[r] = IF Hidden(r) THEN "new"
                           ELSE IF Short(r) THEN "short" ELSE Phase(pc[r])
           /\ ASeen[r] = IF Picked(r) THEN Value(fd[r]) ELSE NoFile
           /\ AResult[r] = IF call[r].verb = "get_file" /\ pc[r] = "ok" /\ ~Short(r)
                           THEN out[r] ELSE NoFile
           /\ AKind[r] = IF IsWriter(r) THEN "write" ELSE "read"
BY DEF APhase, ASeen, AResult, AKind

\* The steps the abstract specification does not see.
LEMMA Stutter ==
    ASSUME Inv, NEW r \in Request, RequestStep(r), target' = target,
           \/ Hidden(r)
           \/ Phase(pc'[r]) = Phase(pc[r]) /\ pc'[r] # "ok" /\ Picked(r)' = Picked(r)
              /\ pc[r] # "ok" /\ (Picked(r) => fd'[r] = fd[r])
    PROVE  UNCHANGED Atomic!vars
<1>1. TypeOK /\ ReaderInv
    BY DEF Inv
<1>2. call' = call
    BY <1>1, Others
<1>3. /\ APhase'[r] = APhase[r] /\ AResult'[r] = AResult[r]
    BY <1>2 DEF APhase, AResult, Hidden, Short
<1>4. ASeen'[r] = ASeen[r]
  <2>1. Picked(r) /\ fd[r] \in Version => blocks'[fd[r]] = blocks[fd[r]]
      BY <1>1, SettledStep DEF ReaderInv, Picked, IsWriter, Writers
  <2>2. Hidden(r) => ~Picked(r) /\ ~Picked(r)'
      BY <1>2 DEF Hidden, Picked
  <2> QED
      BY <2>1, <2>2 DEF ASeen, Value
<1>5. APhase' = APhase /\ ASeen' = ASeen /\ AResult' = AResult
    BY <1>3, <1>4, Frame DEF APhase, ASeen, AResult
<1> QED
    BY <1>5, Frame DEF Atomic!vars, AFile, ATear, AKind, APhase, ASeen, AResult

\* A request that is over without success, with or without a reply.
LEMMA OverStep ==
    ASSUME Inv, NEW r \in Request, RequestStep(r), ~Hidden(r), pc[r] \in Live,
           pc'[r] \in {"err", "closed", "dead"}, target' = target,
           pc'[r] = "err" => Phase(pc[r]) = "open" \/ ~IsWriter(r)
    PROVE  Atomic!Fail(r) \/ Atomic!Lose(r)
<1>1. call' = call
    BY Others DEF Inv
<1>2. APhase[r] = Phase(pc[r]) /\ APhase[r] \in {"open", "applied"}
    BY PhaseFacts, Own DEF Live, Short
<1>3. APhase'[r] = IF pc'[r] = "err" THEN "err" ELSE "lost"
    BY <1>1, PhaseFacts DEF APhase, Hidden, Short
<1>4. ASeen'[r] = NoFile /\ AResult'[r] = AResult[r]
    BY <1>1 DEF ASeen, AResult, Picked, Live
<1>5. APhase' = [APhase EXCEPT ![r] = IF pc'[r] = "err" THEN "err" ELSE "lost"]
    BY <1>3, Frame DEF APhase
<1>6. ASeen' = [ASeen EXCEPT ![r] = NoFile] /\ AResult' = AResult
    BY <1>4, Frame DEF ASeen, AResult
<1>7. AKind[r] = IF IsWriter(r) THEN "write" ELSE "read"
    BY Own
<1> QED
    BY <1>2, <1>5, <1>6, <1>7, Frame
    DEF Atomic!Fail, Atomic!Lose, Atomic!Step, Atomic!Forget,
        AFile, ATear, AKind, APhase, ASeen, AResult

\* The rename of a writer is the abstract write.
LEMMA WriteStep ==
    ASSUME Inv, NEW r \in Request, Rename(r)
    PROVE  Atomic!Write(r)
<1>1. TypeOK /\ WriterInv /\ UnsafeInv /\ RequestStep(r)
    BY DEF Inv, RequestStep, Write
<1>2. /\ IsWriter(r) /\ blocks[r] = Part(r, Size[r]) /\ temp[Pids(r)] = r
      /\ ~Hidden(r) /\ ~Picked(r) /\ call[r].verb # "get_file" /\ r \in Version
    BY <1>1, SizeAssumption
    DEF Rename, WriterInv, Writing, IsWriter, Writers, Hidden, Picked, Version
<1>3. UNCHANGED <<call, unsafe, blocks, out>> /\ target' = r /\ pc[r] = "rename"
      /\ pc'[r] = "reply"
    BY <1>1, <1>2 DEF Rename, Goto, TypeOK
<1>4. AFile' = Whole(r)
    BY <1>2, <1>3, WholeFacts DEF AFile, Value
<1>5. AFile # Dir
    BY ValueFacts DEF Rename
<1>6. ATear' = {} \/ (r \in {q \in Request : "fsync" \in MayFail[q]} /\ ATear' = {Part(r, n) : n \in 0..Size[r]})
    BY <1>1, <1>3 DEF ATear, UnsafeInv, Part
<1>7. APhase[r] = "open" /\ APhase'[r] = "applied" /\ ASeen'[r] = ASeen[r]
      /\ AResult'[r] = AResult[r]
    BY <1>2, <1>3, PhaseFacts DEF APhase, ASeen, AResult, Hidden, Picked, Short
<1>8. APhase' = [APhase EXCEPT ![r] = "applied"] /\ ASeen' = ASeen /\ AResult' = AResult
    BY <1>1, <1>7, Frame DEF APhase, ASeen, AResult
<1>9. AKind[r] = "write"
    BY <1>2, Own
<1> QED
    BY <1>1, <1>4, <1>5, <1>6, <1>7, <1>8, <1>9, Frame
    DEF Atomic!Write, Atomic!Step, AFile, ATear, AKind, APhase, ASeen, AResult

\* The open() of get_file is the abstract read.
LEMMA ReadStep ==
    ASSUME Inv, NEW r \in Request, ReadOpen(r), call[r].verb = "get_file"
    PROVE  Atomic!Read(r)
<1>1. TypeOK /\ RequestStep(r)
    BY DEF Inv, RequestStep, Read
<1>2. /\ UNCHANGED <<call, target, blocks>> /\ pc[r] = "open" /\ pc'[r] = "fstat"
      /\ fd'[r] = target /\ ~Hidden(r) /\ ~IsWriter(r)
    BY <1>1 DEF ReadOpen, Goto, TypeOK, Hidden, fs
<1>3. AFile # NoFile
    BY ValueFacts DEF ReadOpen
<1>4. /\ APhase[r] = "open" /\ APhase'[r] = "applied" /\ ASeen'[r] = AFile
      /\ AResult'[r] = AResult[r]
    BY <1>2, PhaseFacts DEF APhase, ASeen, AResult, AFile, Hidden, Picked, Value, Short
<1>5. APhase' = [APhase EXCEPT ![r] = "applied"] /\ ASeen' = [ASeen EXCEPT ![r] = AFile]
      /\ AResult' = AResult
    BY <1>1, <1>4, Frame DEF APhase, ASeen, AResult
<1>6. AKind[r] = "read"
    BY <1>2, Own
<1> QED
    BY <1>1, <1>2, <1>3, <1>4, <1>5, <1>6, Frame
    DEF Atomic!Read, Atomic!Step, AFile, ATear, AKind, APhase, ASeen, AResult

\* The reply is the abstract success: what get_file returns is the whole of the
\* file it opened, when it is as much as was announced.
LEMMA SucceedStep ==
    ASSUME Inv, NEW r \in Request, Reply(r), ~Hidden(r), ~Short(r)'
    PROVE  Atomic!Succeed(r)
<1>1. TypeOK /\ ReaderInv /\ GetInv /\ RequestStep(r)
    BY DEF Inv, RequestStep
<1>2. UNCHANGED <<call, saw, fd, out, target, blocks>> /\ pc[r] = "reply" /\ pc'[r] = "ok"
    BY <1>1 DEF Reply, Goto, TypeOK, fs
<1>3. call[r].verb = "get_file" => out[r] = Value(fd[r])
  <2> SUFFICES ASSUME call[r].verb = "get_file" PROVE out[r] = Value(fd[r])
      OBVIOUS
  <2>1. fd[r] \in Version /\ Prefix(fd[r])
      BY <1>1, <1>2 DEF ReaderInv, Settled, IsWriter, Writers
  <2>2. out[r] = Part(fd[r], Len(blocks[fd[r]]))
      BY <1>1, <1>2 DEF GetInv, Steady, Short
  <2> QED
      BY <2>1, <2>2 DEF Prefix, Value
<1>4. /\ APhase[r] = "applied" /\ APhase'[r] = "ok" /\ ASeen'[r] = NoFile
      /\ AResult'[r] = ASeen[r]
    BY <1>2, <1>3, PhaseFacts DEF APhase, ASeen, AResult, Hidden, Picked, Short
<1>5. APhase' = [APhase EXCEPT ![r] = "ok"] /\ ASeen' = [ASeen EXCEPT ![r] = NoFile]
      /\ AResult' = [AResult EXCEPT ![r] = ASeen[r]]
  <2>1. APhase' = [APhase EXCEPT ![r] = "ok"]
      BY <1>1, <1>4, Frame DEF APhase
  <2>2. ASeen' = [ASeen EXCEPT ![r] = NoFile]
      BY <1>1, <1>4, Frame DEF ASeen
  <2>3. AResult' = [AResult EXCEPT ![r] = ASeen[r]]
    <3> DEFINE x == ASeen[r]
    <3>1. AResult'[r] = x
        BY <1>4
    <3> HIDE DEF x
    <3>2. /\ AResult = [q \in Request |-> AResult[q]]
          /\ AResult' = [q \in Request |-> AResult'[q]]
        BY DEF AResult
    <3>3. AResult' = [AResult EXCEPT ![r] = x]
        BY <1>1, <3>1, <3>2, Frame
    <3> QED
        BY <3>3 DEF x
  <2> QED
      BY <2>1, <2>2, <2>3
<1> QED
    BY <1>1, <1>2, <1>4, <1>5, Frame
    DEF Atomic!Succeed, Atomic!Step, Atomic!Forget,
        AFile, ATear, AKind, APhase, ASeen, AResult

\* A download that stopped short of what it announced is the abstract stop.
LEMMA StopStep ==
    ASSUME Inv, NEW r \in Request, Reply(r), ~Hidden(r), Short(r)'
    PROVE  Atomic!Stop(r)
<1>1. TypeOK /\ RequestStep(r)
    BY DEF Inv, RequestStep
<1>2. UNCHANGED <<call, saw, fd, out, target, blocks>> /\ pc[r] = "reply" /\ pc'[r] = "ok"
      /\ call[r].verb = "get_file"
    BY <1>1 DEF Reply, Goto, TypeOK, fs, Short
<1>3. /\ APhase[r] = "applied" /\ APhase'[r] = "short" /\ ASeen'[r] = NoFile
      /\ AResult'[r] = AResult[r] /\ AKind[r] = "read"
    BY <1>2, PhaseFacts
    DEF APhase, ASeen, AResult, AKind, Hidden, Picked, Short, IsWriter, Writers
<1>4. APhase' = [APhase EXCEPT ![r] = "short"] /\ ASeen' = [ASeen EXCEPT ![r] = NoFile]
      /\ AResult' = AResult
    BY <1>1, <1>3, Frame DEF APhase, ASeen, AResult
<1> QED
    BY <1>1, <1>2, <1>3, <1>4, Frame
    DEF Atomic!Stop, Atomic!Step, Atomic!Forget,
        AFile, ATear, AKind, APhase, ASeen, AResult

\* A request that begins is the abstract call.
LEMMA CallStep ==
    ASSUME Inv, NEW r \in Request, Begin(r), ~Hidden(r)
    PROVE  Atomic!Call(r)
<1>1. TypeOK /\ RequestStep(r)
    BY DEF Inv, RequestStep
<1>2. UNCHANGED <<call, fd, out, target, blocks>> /\ pc[r] = "new"
      /\ pc'[r] \in {"open", "stat"}
    BY <1>1 DEF Begin, Goto, TypeOK, fs
<1>3. /\ APhase[r] = "new" /\ APhase'[r] = "open" /\ ASeen'[r] = ASeen[r]
      /\ AResult'[r] = AResult[r]
    BY <1>2, PhaseFacts DEF APhase, ASeen, AResult, Hidden, Picked, Short
<1>4. APhase' = [APhase EXCEPT ![r] = "open"] /\ ASeen' = ASeen /\ AResult' = AResult
    BY <1>1, <1>3, Frame DEF APhase, ASeen, AResult
<1> QED
    BY <1>1, <1>2, <1>3, <1>4, Frame
    DEF Atomic!Call, Atomic!Step, AFile, ATear, AKind, APhase, ASeen, AResult

\* A crash of the host: what was not durable may be torn.
LEMMA CrashStep == ASSUME Inv, HostCrash PROVE Atomic!Crash
<1>1. TypeOK /\ TargetInv
    BY DEF Inv
<1>2. /\ UNCHANGED <<call, unsafe, saw, fd, out, target>>
      /\ pc' = [q \in Request |-> IF pc[q] \in Live THEN "dead" ELSE pc[q]]
      /\ blocks' \in [Version -> Seq(Version)]
    BY <1>1, CrashFacts
<1>3. AFile' \in {AFile} \cup ATear
  <2>1. CASE target \in Version /\ target \in unsafe
    <3>1. \A i \in Version : Settled(i) => Prefix(i)'
        BY SettledCrash DEF Settled
    <3>2. blocks'[target] = Part(target, Len(blocks'[target]))
          /\ Len(blocks'[target]) \in 0..Size[target]
        BY <1>1, <1>2, <2>1, <3>1, SizeAssumption DEF TargetInv, Prefix, Part
    <3> QED
        BY <1>2, <2>1, <3>2 DEF AFile, ATear, Value
  <2>2. CASE target \notin Version \/ target \notin unsafe
      BY <1>1, <1>2, <2>2, SettledCrash DEF AFile, Value, TargetInv
  <2> QED
      BY <2>1, <2>2
<1>4. ATear' = ATear /\ AKind' = AKind
    BY <1>2 DEF ATear, AKind, IsWriter, Part
<1>5. APhase' = [r \in Request |-> IF APhase[r] \in {"open", "applied"}
                                   THEN "lost" ELSE APhase[r]]
  <2>1. ASSUME NEW r \in Request
        PROVE  APhase'[r] = IF APhase[r] \in {"open", "applied"}
                            THEN "lost" ELSE APhase[r]
    <3>1. CASE pc[r] \in Live
        BY <1>2, <3>1, PhaseFacts DEF APhase, Hidden, Short, Live
    <3>2. CASE pc[r] \notin Live
      <4>1. pc[r] \in {"new", "ok", "err", "closed", "dead"}
          BY <1>1, <3>2 DEF TypeOK, Done
      <4> QED
          BY <1>2, <3>2, <4>1, PhaseFacts DEF APhase, Hidden, Short
    <3> QED
        BY <3>1, <3>2
  <2> QED
      BY <2>1 DEF APhase
<1>6. ASeen' = [r \in Request |-> NoFile]
    BY <1>2 DEF ASeen, Picked, Live
<1>7. AResult' = AResult
    BY <1>2 DEF AResult, Short, Live
<1> QED
    BY <1>3, <1>4, <1>5, <1>6, <1>7
    DEF Atomic!Crash, AFile, ATear, AKind, APhase, ASeen, AResult

\* The steps of a writer.
LEMMA WriterRefines ==
    ASSUME Inv, NEW r \in Request, Write(r)
    PROVE  [Atomic!Next]_(Atomic!vars)
<1>1. TypeOK /\ WriterInv /\ RequestStep(r)
    BY DEF Inv, RequestStep
<1>2. IsWriter(r) /\ ~Hidden(r) /\ ~Picked(r)
    BY <1>1, FilesStep DEF IsWriter, Writers, Hidden, Picked
<1>3. CASE Rename(r)
    BY <1>3, WriteStep DEF Atomic!Next
<1>4. CASE BodyLost(r) \/ WriteError(r) \/ RenameError(r) \/ TempTaken(r)
           \/ (WriteStat(r) /\ target = Dir)
  <2>1. target' = target /\ pc'[r] \in {"err", "closed"}
        /\ pc[r] \in {"stat", "open", "write", "rename"}
      BY <1>1, <1>4 DEF BodyLost, WriteError, RenameError, TempTaken, WriteStat,
         Goto, TypeOK, fs
  <2>2. Atomic!Fail(r) \/ Atomic!Lose(r)
      BY <1>1, <1>2, <2>1, OverStep, PhaseFacts DEF Live
  <2> QED
      BY <2>2 DEF Atomic!Next
<1>5. CASE (WriteStat(r) /\ target # Dir) \/ CreateTemp(r) \/ WriteBlock(r)
           \/ Sync(r) \/ Chown(r) \/ Chmod(r)
  <2>1. target' = target /\ pc[r] \in {"stat", "open", "write", "chown", "chmod"}
        /\ pc'[r] \in {"open", "write", "chown", "chmod", "rename"} /\ call' = call
      BY <1>1, <1>5 DEF WriteStat, CreateTemp, WriteBlock, Sync, Chown, Chmod,
         Goto, TypeOK, fs
  <2>2. Picked(r)' = Picked(r)
      BY <2>1 DEF Picked
  <2>3. UNCHANGED Atomic!vars
      BY <1>1, <1>2, <2>1, <2>2, Stutter, PhaseFacts
  <2> QED
      BY <2>3
<1> QED
    BY <1>3, <1>4, <1>5 DEF Write

\* The steps of get_file.
LEMMA ReaderRefines ==
    ASSUME Inv, NEW r \in Request, Read(r), ~Hidden(r)
    PROVE  [Atomic!Next]_(Atomic!vars)
<1>1. TypeOK /\ ReaderInv /\ RequestStep(r)
    BY DEF Inv, RequestStep
<1>2. ~ReadStat(r) /\ ~Lstat(r)
    BY DEF ReadStat, Lstat, Hidden
<1>3. ~IsWriter(r) /\ call[r].verb = "get_file"
  <2>1. ~IsWriter(r)
      BY <1>1, <1>2 DEF Read, ReadOpen, OpenMissing, GetStat, GetNotRegular,
         ReadBlock, ReadEnd, ReadError, ReaderInv
  <2> QED
      BY <1>1, <2>1, VerbAssumption DEF TypeOK, Calls, IsWriter, Readers, Hidden
<1>4. CASE ReadOpen(r)
    BY <1>3, <1>4, ReadStep DEF Atomic!Next
<1>5. CASE OpenMissing(r) \/ GetNotRegular(r)
  <2>1. target' = target /\ pc'[r] = "err" /\ pc[r] \in Live
      BY <1>1, <1>5 DEF OpenMissing, GetNotRegular, Goto, TypeOK, Live, fs
  <2>2. Atomic!Fail(r) \/ Atomic!Lose(r)
      BY <1>1, <1>3, <2>1, OverStep
  <2> QED
      BY <2>2 DEF Atomic!Next
<1>6. CASE GetStat(r) \/ ReadEnd(r) \/ ReadError(r) \/ ReadBlock(r)
  <2>1. target' = target /\ pc[r] \in {"fstat", "read"} /\ pc'[r] \in {"read", "reply"}
        /\ call' = call /\ fd' = fd
      BY <1>1, <1>3, <1>6 DEF GetStat, ReadEnd, ReadError, ReadBlock, Goto, TypeOK, fs
  <2>2. Picked(r) /\ Picked(r)'
      BY <1>3, <2>1 DEF Picked
  <2>3. UNCHANGED Atomic!vars
      BY <1>1, <2>1, <2>2, Stutter, PhaseFacts
  <2> QED
      BY <2>3
<1> QED
    BY <1>2, <1>4, <1>5, <1>6 DEF Read

\* Every step is an abstract step or leaves the abstract state alone.
LEMMA StepRefines ==
    ASSUME Inv, [Next]_vars
    PROVE  [Atomic!Next]_(Atomic!vars)
<1>1. TypeOK
    BY DEF Inv
<1>2. CASE HostCrash
    BY <1>2, CrashStep DEF Atomic!Next
<1>3. ASSUME NEW r \in Request, RequestStep(r)
      PROVE  [Atomic!Next]_(Atomic!vars)
  <2>1. CASE Hidden(r)
    <3>1. ~Write(r)
        BY <1>1, <1>3, <2>1, FilesStep DEF Inv, Hidden, IsWriter, Writers
    <3>2. target' = target
        BY <1>1, <1>3, <3>1, FilesStep DEF Inv, fs
    <3> QED
        BY <1>3, <2>1, <3>2, Stutter
  <2>2. CASE ~Hidden(r) /\ (Write(r) \/ Read(r))
      BY <2>2, WriterRefines, ReaderRefines
  <2>3. CASE ~Hidden(r) /\ Begin(r)
      BY <2>3, CallStep DEF Atomic!Next
  <2>4. CASE ~Hidden(r) /\ Reply(r)
      BY <2>4, SucceedStep, StopStep DEF Atomic!Next
  <2>5. CASE ~Hidden(r) /\ (Refused(r) \/ Kill(r))
    <3>1. target' = target /\ pc[r] \in Live /\ pc'[r] \in {"err", "dead"}
          /\ (pc'[r] = "err" => pc[r] \in {"open", "stat"})
        BY <1>1, <2>5 DEF Refused, Kill, Goto, TypeOK, Live, fs
    <3>2. Atomic!Fail(r) \/ Atomic!Lose(r)
        BY <1>3, <2>5, <3>1, OverStep, PhaseFacts
    <3> QED
        BY <3>2 DEF Atomic!Next
  <2> QED
      BY <1>3, <2>1, <2>2, <2>3, <2>4, <2>5 DEF RequestStep
<1>4. CASE UNCHANGED vars
  <2>1. UNCHANGED <<call, unsafe, pc, saw, fd, out, target, blocks>>
      BY <1>4 DEF vars, proc, fs
  <2> QED
      BY <2>1 DEF Atomic!vars, Value, Part, IsWriter, Hidden, Picked, Short, Phase
<1> QED
    BY <1>2, <1>3, <1>4 DEF Next, RequestStep

\* The file verbs implement the atomic file: a write is applied in one step or
\* not at all, get_file returns what the path held at one instant or stops
\* short of it, and a crash tears no file but one whose fsync() failed.
THEOREM Refinement == Spec => ImplementsAtomicFile
<1>1. Init => Atomic!Init
  <2> SUFFICES ASSUME Init PROVE Atomic!Init
      OBVIOUS
  <2>1. Value(target) \in {NoFile, Dir, Whole(Orig)}
      BY NameAssumption DEF Init, Value, Version
  <2>2. \A r \in Request : pc[r] = "new" /\ ~Picked(r) /\ ~Short(r) /\ Phase(pc[r]) = "new"
      BY PhaseFacts DEF Init, Picked, Short
  <2> QED
      BY <2>1, <2>2 DEF Init, Atomic!Init
<1>2. Inv /\ [Next]_vars => [Atomic!Next]_(Atomic!vars)
    BY StepRefines
<1> QED
    BY <1>1, <1>2, Invariance, PTL DEF Spec, ImplementsAtomicFile, Atomic!Spec
=============================================================================
