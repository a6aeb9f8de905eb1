--------------------------- MODULE SysInfo_proofs ---------------------------
(***************************************************************************)
(* Proofs about SysInfo, for any children and any number of requests.      *)
(*                                                                         *)
(* FieldsTrueAlone and StaysAbsent speak of fields that have been read.    *)
(* IInv says what makes them so: an address is a field's own or absent, a  *)
(* child reads only what has an address, and as long as no two requests    *)
(* have been served together the offset is where the one that reads has    *)
(* put it.                                                                 *)
(***************************************************************************)
EXTENDS SysInfo, FiniteSetTheorems, TLAPS

\* A child reads what startup has found, and nobody asks before startup.
ReadsFound ==
    /\ \A f \in Field : addr[f] \in {f, Absent}
    /\ \A c \in Child : Busy(c) => up
    /\ \A c \in Child : pc[c] = "read" =>
        Wanted(c) \in KernelFields /\ kmem /\ addr[Wanted(c)] # Absent

\* Alone, a child finds the offset where it has put it.
OffsetIsOwn ==
    ~together =>
        /\ \A c, d \in Child : (Busy(c) /\ Busy(d)) => c = d
        /\ \A c \in Child : pc[c] = "read" => offset = Wanted(c)

IInv == TypeOK /\ ReadsFound /\ OffsetIsOwn /\ FieldsTrueAlone /\ StaysAbsent

LEMMA OrderFacts == Len(Order) = 5 /\ \A n \in 1..5 : Order[n] \in Field
<1>1. Len(Order) = 5
  BY DEF Order
<1>2. ASSUME NEW n \in 1..5 PROVE Order[n] \in Field
  <2>1. n = 1 \/ n = 2 \/ n = 3 \/ n = 4 \/ n = 5
    BY <1>2
  <2>. QED  BY <2>1 DEF Order, Field
<1>. QED  BY <1>1, <1>2

LEMMA KernelFieldsType == KernelFields \subseteq Field
BY DEF KernelFields, Field

LEMMA InitInv == Init => IInv
<1>. SUFFICES ASSUME Init PROVE IInv
  OBVIOUS
<1>1. TypeOK
  <2>1. up \in BOOLEAN /\ kmem \in BOOLEAN /\ together \in BOOLEAN
    BY Zenon DEF Init
  <2>2. /\ system \in System
        /\ addr \in [Field -> Field \cup {Absent}] /\ offset \in Field \cup {Junk}
        /\ snap \in [Child -> [Field -> Value]] /\ served \in [Child -> 0..MaxRequests]
    BY BoundAssumption DEF Init, Blank, Garbage, Value
  <2>3. /\ pc \in [Child -> {"idle", "collect", "read", "disks", "mounts", "reply"}]
        /\ next \in [Child -> 1..Len(Order) + 1]
        /\ \A c \in Child : pc[c] = "idle"
    BY OrderFacts DEF Init
  <2>. QED  BY <2>1, <2>2, <2>3 DEF TypeOK
<1>2. \A c \in Child : ~Busy(c)
  BY DEF Init, Busy
<1>3. ReadsFound
  BY <1>2 DEF Init, ReadsFound, Blank, Busy
<1>4. OffsetIsOwn
  BY <1>2 DEF Init, OffsetIsOwn, Busy
<1>5. FieldsTrueAlone /\ StaysAbsent
  BY <1>2 DEF FieldsTrueAlone, FieldsTrue, StaysAbsent
<1>. QED  BY <1>1, <1>3, <1>4, <1>5 DEF IInv

\* The part of the invariant that does not change with a step of a child.
LEMMA Settled ==
    ASSUME IInv, UNCHANGED startVars
    PROVE  /\ KernelFields' = KernelFields /\ addr' = addr /\ kmem' = kmem
           /\ up' = up /\ system' = system
BY DEF startVars, KernelFields

\* Startup finds an address for some of the kernel fields.
LEMMA StartupStep == ASSUME IInv, Startup PROVE IInv'
<1>1. \A c \in Child : ~Busy(c) /\ pc' = pc /\ ~Busy(c)'
  BY DEF Startup, IInv, ReadsFound, Busy
<1>2. addr' \in [Field -> Field \cup {Absent}] /\ \A f \in Field : addr'[f] \in {f, Absent}
  BY DEF Startup
<1>3. kmem' \in BOOLEAN /\ up' \in BOOLEAN
  BY Zenon DEF Startup
<1>4. TypeOK'
  BY <1>2, <1>3 DEF Startup, IInv, TypeOK
<1>5. ReadsFound'
  BY <1>1, <1>2 DEF ReadsFound, Busy
<1>6. OffsetIsOwn'
  BY <1>1 DEF OffsetIsOwn, Busy
<1>7. FieldsTrueAlone' /\ StaysAbsent'
  BY <1>1 DEF FieldsTrueAlone, FieldsTrue, StaysAbsent
<1>. QED  BY <1>4, <1>5, <1>6, <1>7 DEF IInv

\* A request begins with every field absent.
LEMMA CollectStep == ASSUME IInv, NEW c \in Child, Collect(c) PROVE IInv'
<1>1. /\ pc' = [pc EXCEPT ![c] = "collect"] /\ pc[c] = "idle"
      /\ next' = [next EXCEPT ![c] = 1] /\ snap' = [snap EXCEPT ![c] = Blank]
      /\ offset' = offset /\ up
  BY DEF Collect
<1>2. Blank \in [Field -> Value] /\ \A f \in Field : Blank[f] = Absent
  BY DEF Blank, Value
<1>3. served' \in [Child -> 0..MaxRequests] /\ together' \in BOOLEAN
  <2>1. served' \in [Child -> 0..MaxRequests]
    BY BoundAssumption DEF Collect, IInv, TypeOK
  <2>2. together' \in BOOLEAN
    BY Zenon DEF Collect, IInv, TypeOK
  <2>. QED  BY <2>1, <2>2
<1>4. UNCHANGED startVars
  BY DEF Collect
<1>5. TypeOK'
  <2>1. /\ system' \in System /\ up' \in BOOLEAN /\ kmem' \in BOOLEAN
        /\ addr' \in [Field -> Field \cup {Absent}] /\ offset' \in Field \cup {Junk}
    BY <1>1, <1>4, Settled DEF IInv, TypeOK
  <2>2. /\ pc' \in [Child -> {"idle", "collect", "read", "disks", "mounts", "reply"}]
        /\ next' \in [Child -> 1..Len(Order) + 1]
        /\ \A d \in Child : pc'[d] \in {"collect", "read"} => next'[d] \in 1..Len(Order)
        /\ snap' \in [Child -> [Field -> Value]]
    BY <1>1, <1>2, OrderFacts DEF IInv, TypeOK
  <2>. QED  BY <2>1, <2>2, <1>3 DEF TypeOK
<1>6. ReadsFound'
  <2>. USE <1>4, Settled
  <2>1. \A f \in Field : addr'[f] \in {f, Absent}
    BY DEF IInv, ReadsFound
  <2>2. \A d \in Child : Busy(d)' => up'
    BY <1>1 DEF IInv, ReadsFound, Busy
  <2>3. ASSUME NEW d \in Child, pc'[d] = "read"
        PROVE  Wanted(d)' \in KernelFields' /\ kmem' /\ addr'[Wanted(d)'] # Absent
    <3>1. d # c /\ pc[d] = "read" /\ Wanted(d)' = Wanted(d)
      BY <2>3, <1>1 DEF IInv, TypeOK, Wanted
    <3>. QED  BY <3>1 DEF IInv, ReadsFound
  <2>. QED  BY <2>1, <2>2, <2>3 DEF ReadsFound
<1>7. OffsetIsOwn'
  <2>. SUFFICES ASSUME ~together' PROVE OffsetIsOwn'
    BY DEF OffsetIsOwn
  <2>1. ~together /\ \A d \in Child : pc[d] = "idle"
    BY Zenon DEF Collect
  <2>2. \A d \in Child : Busy(d)' => d = c
    BY <2>1, <1>1 DEF IInv, TypeOK, Busy
  <2>3. \A d \in Child : pc'[d] # "read"
    BY <2>1, <1>1 DEF IInv, TypeOK
  <2>. QED  BY <2>2, <2>3 DEF OffsetIsOwn
<1>8. FieldsTrueAlone'
  <2>. SUFFICES ASSUME ~together' PROVE FieldsTrue'
    BY DEF FieldsTrueAlone
  <2>1. ~together /\ \A d \in Child : pc[d] = "idle"
    BY Zenon DEF Collect
  <2>2. ASSUME NEW d \in Child, Busy(d)', NEW f \in Field PROVE snap'[d][f] \in {f, Absent}
    <3>1. d = c
      BY <2>1, <2>2, <1>1 DEF IInv, TypeOK, Busy
    <3>. QED  BY <3>1, <1>1, <1>2 DEF IInv, TypeOK
  <2>. QED  BY <2>2 DEF FieldsTrue
<1>9. StaysAbsent'
  <2>1. ASSUME NEW d \in Child, Busy(d)', NEW f \in KernelFields,
               ~kmem \/ addr[f] = Absent
        PROVE  snap'[d][f] = Absent
    <3>1. CASE d = c
      BY <3>1, <1>1, <1>2, KernelFieldsType DEF IInv, TypeOK
    <3>2. CASE d # c
      <4>1. Busy(d) /\ snap'[d] = snap[d]
        BY <3>2, <2>1, <1>1 DEF IInv, TypeOK, Busy
      <4>. QED  BY <4>1, <2>1 DEF IInv, StaysAbsent
    <3>. QED  BY <3>1, <3>2
  <2>. QED  BY <2>1, <1>4, Settled DEF StaysAbsent
<1>. QED  BY <1>5, <1>6, <1>7, <1>8, <1>9 DEF IInv

\* What the snapshot of a child may be: true unless two requests have been served
\* together, and without the fields that have no address.
Honest(got) ==
    /\ got \in [Field -> Value]
    /\ ~together => \A f \in Field : got[f] \in {f, Absent}
    /\ \A f \in KernelFields : (~kmem \/ addr[f] = Absent) => got[f] = Absent

\* A step of the busy child c to a place, a collector and a snapshot; it may move
\* the offset.
Moves(c, place, n, got) ==
    /\ Busy(c) /\ UNCHANGED startVars /\ together' = together /\ served' = served
    /\ offset' \in Field \cup {Junk}
    /\ place \in {"idle", "collect", "read", "disks", "mounts", "reply"} /\ n \in 1..6
    /\ place \in {"collect", "read"} => n \in 1..5
    /\ got \in [Field -> Value]
    /\ pc' = [pc EXCEPT ![c] = place] /\ next' = [next EXCEPT ![c] = n]
    /\ snap' = [snap EXCEPT ![c] = got]
    /\ place = "read" => /\ Order[n] \in KernelFields /\ kmem
                         /\ addr[Order[n]] # Absent /\ offset' = Order[n]
    /\ place # "idle" => Honest(got)

\* A collector, or the reply, disturbs another child at most in its offset.
LEMMA BusyStep ==
    ASSUME IInv, NEW c \in Child, NEW place, NEW n, NEW got, Moves(c, place, n, got)
    PROVE  IInv'
<1>. USE DEF Moves, Honest
<1>1. /\ \A d \in Child : d # c => /\ pc'[d] = pc[d] /\ next'[d] = next[d]
                                   /\ snap'[d] = snap[d] /\ Wanted(d)' = Wanted(d)
      /\ pc'[c] = place /\ next'[c] = n /\ snap'[c] = got /\ Wanted(c)' = Order[n]
  BY DEF IInv, TypeOK, Wanted
<1>2. TypeOK'
  <2>1. together' \in BOOLEAN
    BY Zenon DEF IInv, TypeOK
  <2>. QED  BY <2>1, <1>1, OrderFacts DEF startVars, IInv, TypeOK
<1>3. ReadsFound'
  <2>. USE Settled
  <2>1. \A f \in Field : addr'[f] \in {f, Absent}
    BY DEF IInv, ReadsFound
  <2>2. \A d \in Child : Busy(d)' => up'
    BY <1>1 DEF IInv, ReadsFound, Busy
  <2>3. \A d \in Child : pc'[d] = "read" =>
            Wanted(d)' \in KernelFields' /\ kmem' /\ addr'[Wanted(d)'] # Absent
    BY <1>1 DEF IInv, ReadsFound
  <2>. QED  BY <2>1, <2>2, <2>3 DEF ReadsFound
<1>4. OffsetIsOwn'
  <2>. SUFFICES ASSUME ~together PROVE OffsetIsOwn'
    BY Zenon DEF OffsetIsOwn
  <2>1. \A d \in Child : Busy(d)' => d = c
    BY <1>1 DEF IInv, OffsetIsOwn, Busy
  <2>2. \A d \in Child : pc'[d] = "read" => offset' = Wanted(d)'
    BY <2>1, <1>1 DEF Busy
  <2>. QED  BY <2>1, <2>2 DEF OffsetIsOwn
<1>5. FieldsTrueAlone'
  <2>. SUFFICES ASSUME ~together PROVE FieldsTrue'
    BY Zenon DEF FieldsTrueAlone
  <2>1. \A d \in Child : Busy(d)' => d = c
    BY <1>1 DEF IInv, OffsetIsOwn, Busy
  <2>. QED  BY <2>1, <1>1 DEF FieldsTrue, Busy
<1>6. StaysAbsent'
  <2>1. ASSUME NEW d \in Child, Busy(d)', NEW f \in KernelFields,
               ~kmem \/ addr[f] = Absent
        PROVE  snap'[d][f] = Absent
    <3>1. CASE d = c
      BY <3>1, <2>1, <1>1 DEF Busy
    <3>2. CASE d # c
      BY <3>2, <2>1, <1>1 DEF Busy, IInv, StaysAbsent
    <3>. QED  BY <3>1, <3>2
  <2>. QED  BY <2>1, Settled DEF StaysAbsent
<1>. QED  BY <1>2, <1>3, <1>4, <1>5, <1>6 DEF IInv

\* What is known of a busy child.
LEMMA BusyFacts ==
    ASSUME IInv, NEW c \in Child, Busy(c)
    PROVE  /\ Honest(snap[c]) /\ snap = [snap EXCEPT ![c] = snap[c]]
           /\ next = [next EXCEPT ![c] = next[c]] /\ next[c] \in 1..6
           /\ pc[c] \in {"collect", "read"} => next[c] \in 1..5 /\ Wanted(c) \in Field
BY OrderFacts DEF IInv, TypeOK, FieldsTrueAlone, FieldsTrue, StaysAbsent, Wanted, Honest

\* The step to the next collector, with the snapshot that the field leaves.
Advances(c, got) ==
    /\ pc[c] \in {"collect", "read"} /\ Advance(c) /\ UNCHANGED startVars
    /\ together' = together /\ served' = served /\ offset' \in Field \cup {Junk}
    /\ Honest(got) /\ snap' = [snap EXCEPT ![c] = got]

LEMMA AdvanceStep ==
    ASSUME IInv, NEW c \in Child, NEW got, Advances(c, got)
    PROVE  IInv'
<1>1. Busy(c)
  BY DEF Busy, Advances
<1>2. next[c] \in 1..5
  BY <1>1, BusyFacts DEF Advances
<1>. DEFINE place == IF next[c] < Len(Order) THEN "collect" ELSE "disks"
<1>3. /\ pc' = [pc EXCEPT ![c] = place] /\ next' = [next EXCEPT ![c] = next[c] + 1]
      /\ place \in {"idle", "collect", "read", "disks", "mounts", "reply"}
      /\ place \notin {"idle", "read"}
      /\ next[c] + 1 \in 1..6 /\ (place \in {"collect", "read"} => next[c] + 1 \in 1..5)
  BY <1>2, OrderFacts DEF Advances, Advance, IInv, TypeOK
<1>. HIDE DEF place
<1>4. Moves(c, place, next[c] + 1, got)
  BY <1>1, <1>3 DEF Moves, Advances, Honest
<1>. QED  BY <1>4, BusyStep

LEMMA CallStep == ASSUME IInv, NEW c \in Child, Call(c) PROVE IInv'
<1>1. /\ pc[c] = "collect" /\ Wanted(c) \notin KernelFields /\ Advance(c)
      /\ UNCHANGED startVars /\ together' = together /\ served' = served
      /\ offset' = offset
  BY DEF Call
<1>2. Busy(c) /\ offset' \in Field \cup {Junk}
  BY <1>1 DEF Busy, IInv, TypeOK
<1>3. Wanted(c) \in Field /\ Honest(snap[c]) /\ snap = [snap EXCEPT ![c] = snap[c]]
  BY <1>1, <1>2, BusyFacts
<1>. DEFINE set == [snap[c] EXCEPT ![Wanted(c)] = Wanted(c)]
<1>4. snap' = [snap EXCEPT ![c] = set] \/ snap' = [snap EXCEPT ![c] = snap[c]]
  BY <1>3 DEF Call
<1>5. Honest(set)
  BY <1>1, <1>3, KernelFieldsType DEF Value, Honest
<1>. HIDE DEF set
<1>6. Advances(c, set) \/ Advances(c, snap[c])
  BY <1>1, <1>2, <1>3, <1>4, <1>5 DEF Advances
<1>. QED  BY <1>6, AdvanceStep

\* kmemRead() that fails before it reads or at it: the snapshot is as it was.
LEMMA FailStep ==
    ASSUME IInv, NEW c \in Child, Unavailable(c) \/ SeekFails(c) \/ ReadFails(c)
    PROVE  IInv'
<1>1. /\ pc[c] \in {"collect", "read"} /\ Advance(c) /\ UNCHANGED startVars
      /\ together' = together /\ served' = served /\ snap' = snap
      /\ offset' \in {offset, Junk}
  BY DEF Unavailable, SeekFails, ReadFails
<1>2. Busy(c) /\ offset' \in Field \cup {Junk}
  BY <1>1 DEF Busy, IInv, TypeOK
<1>3. Advances(c, snap[c])
  BY <1>1, <1>2, BusyFacts DEF Advances
<1>. QED  BY <1>3, AdvanceStep

\* lseek() puts the offset at the field that is wanted.
LEMMA SeekStep == ASSUME IInv, NEW c \in Child, Seek(c) PROVE IInv'
<1>1. /\ pc[c] = "collect" /\ Wanted(c) \in KernelFields
      /\ kmem /\ addr[Wanted(c)] # Absent /\ offset' = addr[Wanted(c)]
      /\ pc' = [pc EXCEPT ![c] = "read"] /\ UNCHANGED startVars
      /\ next' = next /\ snap' = snap /\ served' = served /\ together' = together
  BY DEF Seek
<1>2. Busy(c)
  BY <1>1 DEF Busy
<1>3. offset' = Wanted(c) /\ Wanted(c) \in Field /\ Wanted(c) = Order[next[c]]
  BY <1>1, <1>2, BusyFacts DEF IInv, ReadsFound, Wanted
<1>4. Moves(c, "read", next[c], snap[c])
  BY <1>1, <1>2, <1>3, BusyFacts DEF Moves, Honest
<1>. QED  BY <1>4, BusyStep

\* read() takes what is at the offset: alone, the field's own value.
LEMMA ReadStep == ASSUME IInv, NEW c \in Child, Read(c) PROVE IInv'
<1>1. /\ pc[c] = "read" /\ Advance(c) /\ UNCHANGED startVars
      /\ together' = together /\ served' = served /\ offset' = Junk
  BY DEF Read
<1>2. Busy(c) /\ offset \in Value
  BY <1>1 DEF Busy, IInv, TypeOK, Value
<1>3. Wanted(c) \in Field /\ Honest(snap[c])
  BY <1>1, <1>2, BusyFacts
<1>. DEFINE set == [snap[c] EXCEPT ![Wanted(c)] = offset]
<1>4. snap' = [snap EXCEPT ![c] = set]
  BY DEF Read
<1>5. set \in [Field -> Value]
  BY <1>2, <1>3 DEF Honest
<1>6. ~together => \A f \in Field : set[f] \in {f, Absent}
  BY <1>1, <1>3 DEF IInv, OffsetIsOwn, Honest
<1>7. \A f \in KernelFields : (~kmem \/ addr[f] = Absent) => set[f] = Absent
  BY <1>1, <1>3, KernelFieldsType DEF IInv, ReadsFound, Honest
<1>. HIDE DEF set
<1>8. Advances(c, set)
  BY <1>1, <1>4, <1>5, <1>6, <1>7 DEF Advances, Honest
<1>. QED  BY <1>8, AdvanceStep

\* collectDisks() leaves the fields alone.
LEMMA DisksStep ==
    ASSUME IInv, NEW c \in Child,
           OpenTable(c) \/ NoTable(c) \/ ListMount(c) \/ SkipMount(c) \/ EndOfTable(c)
    PROVE  IInv'
<1>1. /\ pc[c] \in {"disks", "mounts"} /\ UNCHANGED startVars
      /\ together' = together /\ served' = served /\ offset' = offset
      /\ next' = next /\ snap' = snap
  BY DEF OpenTable, NoTable, ListMount, SkipMount, EndOfTable
<1>2. PICK place \in {"mounts", "reply"} : pc' = [pc EXCEPT ![c] = place]
  BY DEF OpenTable, NoTable, ListMount, SkipMount, EndOfTable, IInv, TypeOK
<1>3. Busy(c) /\ offset' \in Field \cup {Junk}
  BY <1>1 DEF Busy, IInv, TypeOK
<1>4. Moves(c, place, next[c], snap[c])
  BY <1>1, <1>2, <1>3, BusyFacts DEF Moves, Honest
<1>. QED  BY <1>4, BusyStep

LEMMA ReplyStep == ASSUME IInv, NEW c \in Child, Reply(c) PROVE IInv'
<1>1. /\ pc[c] = "reply" /\ pc' = [pc EXCEPT ![c] = "idle"] /\ UNCHANGED startVars
      /\ together' = together /\ served' = served /\ offset' = offset
      /\ next' = [next EXCEPT ![c] = 1] /\ snap' = [snap EXCEPT ![c] = Garbage]
  BY DEF Reply
<1>2. Busy(c) /\ offset' \in Field \cup {Junk} /\ Garbage \in [Field -> Value]
  BY <1>1 DEF Busy, IInv, TypeOK, Garbage, Value
<1>3. Moves(c, "idle", 1, Garbage)
  BY <1>1, <1>2 DEF Moves
<1>. QED  BY <1>3, BusyStep

\* The invariant is inductive.
THEOREM Invariance == Spec => []IInv
<1>1. IInv /\ [Next]_vars => IInv'
  <2>. SUFFICES ASSUME IInv, [Next]_vars PROVE IInv'
    OBVIOUS
  <2>1. CASE UNCHANGED vars
    BY <2>1 DEF vars, startVars, diskVars, IInv, TypeOK, ReadsFound, OffsetIsOwn, FieldsTrueAlone,
       FieldsTrue, StaysAbsent, KernelFields, Wanted, Busy
  <2>2. CASE Startup
    BY <2>2, StartupStep
  <2>3. ASSUME NEW c \in Child,
               \/ Collect(c) \/ Call(c)
               \/ Unavailable(c) \/ Seek(c) \/ SeekFails(c) \/ Read(c) \/ ReadFails(c)
               \/ OpenTable(c) \/ NoTable(c)
               \/ ListMount(c) \/ SkipMount(c) \/ EndOfTable(c) \/ Reply(c)
        PROVE  IInv'
    BY <2>3, CollectStep, CallStep, FailStep, SeekStep, ReadStep, DisksStep, ReplyStep
  <2>. QED  BY <2>1, <2>2, <2>3 DEF Next
<1>. QED  BY InitInv, <1>1, PTL DEF Spec

\* sysInfoCollect(), kmemRead(): as long as no two requests have been served at
\* the same time, a field of a reply is its own symbol's value or absent.
THEOREM FieldsAreTrue == Spec => []FieldsTrueAlone
<1>1. IInv => FieldsTrueAlone
  BY DEF IInv
<1>. QED  BY <1>1, Invariance, PTL

\* sysInfoStartup(): what it did not find or open is absent in every reply.
THEOREM AbsentForGood == Spec => []StaysAbsent
<1>1. IInv => StaysAbsent
  BY DEF IInv
<1>. QED  BY <1>1, Invariance, PTL

(***************************************************************************)
(* What the shared offset cannot reach.                                    *)
(***************************************************************************)

\* A field that is not read from kernel memory is true, served together or not.
OthersTrue ==
    \A c \in Child : Busy(c) => \A f \in Field \ KernelFields : snap[c][f] \in {f, Absent}

LEMMA OthersStep == ASSUME IInv, OthersTrue, [Next]_vars PROVE OthersTrue'
<1>1. CASE UNCHANGED vars
  BY <1>1 DEF vars, startVars, OthersTrue, Busy, KernelFields
<1>2. CASE Startup
  BY <1>2 DEF Startup, OthersTrue, IInv, ReadsFound, Busy
<1>3. ASSUME NEW c \in Child, UNCHANGED startVars, NEW got,
             snap' = [snap EXCEPT ![c] = got],
             \A d \in Child : d # c => pc'[d] = pc[d],
             Busy(c)' => \A f \in Field \ KernelFields : got[f] \in {f, Absent}
      PROVE  OthersTrue'
  <2>1. ASSUME NEW d \in Child, Busy(d)', NEW f \in Field \ KernelFields
        PROVE  snap'[d][f] \in {f, Absent}
    <3>1. CASE d = c
      BY <3>1, <2>1, <1>3 DEF IInv, TypeOK
    <3>2. CASE d # c
      BY <3>2, <2>1, <1>3 DEF IInv, TypeOK, OthersTrue, Busy
    <3>. QED  BY <3>1, <3>2
  <2>. QED  BY <2>1, <1>3, Settled DEF OthersTrue
<1>4. ASSUME NEW c \in Child, Collect(c) PROVE OthersTrue'
  <2>1. /\ UNCHANGED startVars /\ snap' = [snap EXCEPT ![c] = Blank]
        /\ \A d \in Child : d # c => pc'[d] = pc[d]
        /\ \A f \in Field : Blank[f] = Absent
    BY <1>4 DEF Collect, Blank, IInv, TypeOK
  <2>. QED  BY <2>1, <1>3
<1>5. ASSUME NEW c \in Child, Call(c) PROVE OthersTrue'
  <2>. DEFINE set == [snap[c] EXCEPT ![Wanted(c)] = Wanted(c)]
  <2>1. /\ UNCHANGED startVars /\ Busy(c) /\ snap[c] \in [Field -> Value]
        /\ \A d \in Child : d # c => pc'[d] = pc[d]
        /\ snap' = [snap EXCEPT ![c] = set] \/ snap' = [snap EXCEPT ![c] = snap[c]]
    BY <1>5 DEF Call, Advance, Busy, IInv, TypeOK
  <2>2. \A f \in Field \ KernelFields : snap[c][f] \in {f, Absent} /\ set[f] \in {f, Absent}
    BY <2>1 DEF OthersTrue
  <2>. HIDE DEF set
  <2>. QED  BY <2>1, <2>2, <1>3
<1>6. ASSUME NEW c \in Child, Read(c) PROVE OthersTrue'
  <2>. DEFINE set == [snap[c] EXCEPT ![Wanted(c)] = offset]
  <2>1. /\ UNCHANGED startVars /\ Busy(c) /\ snap[c] \in [Field -> Value]
        /\ \A d \in Child : d # c => pc'[d] = pc[d]
        /\ snap' = [snap EXCEPT ![c] = set] /\ Wanted(c) \in KernelFields
    BY <1>6 DEF Read, Advance, Busy, IInv, TypeOK, ReadsFound
  <2>2. \A f \in Field \ KernelFields : set[f] \in {f, Absent}
    BY <2>1 DEF OthersTrue
  <2>. HIDE DEF set
  <2>. QED  BY <2>1, <2>2, <1>3
<1>7. ASSUME NEW c \in Child,
             \/ Unavailable(c) \/ Seek(c) \/ SeekFails(c) \/ ReadFails(c)
             \/ OpenTable(c) \/ NoTable(c)
             \/ ListMount(c) \/ SkipMount(c) \/ EndOfTable(c)
      PROVE  OthersTrue'
  <2>1. /\ UNCHANGED startVars /\ Busy(c) /\ snap' = snap
        /\ \A d \in Child : d # c => pc'[d] = pc[d]
    BY <1>7 DEF Unavailable, Seek, SeekFails, ReadFails, OpenTable, NoTable, ListMount,
       SkipMount, EndOfTable, Advance, Busy, IInv, TypeOK
  <2>. QED  BY <2>1, Settled DEF OthersTrue, Busy, IInv, TypeOK
<1>8. ASSUME NEW c \in Child, Reply(c) PROVE OthersTrue'
  <2>1. /\ UNCHANGED startVars /\ snap' = [snap EXCEPT ![c] = Garbage] /\ ~Busy(c)'
        /\ \A d \in Child : d # c => pc'[d] = pc[d]
    BY <1>8 DEF Reply, Busy, IInv, TypeOK
  <2>. QED  BY <2>1, <1>3
<1>. QED  BY <1>1, <1>2, <1>4, <1>5, <1>6, <1>7, <1>8 DEF Next

\* The collectors: two requests served at the same time spoil at most the fields
\* that kmemRead() reads; none at all on macOS, NetBSD and Solaris.
THEOREM OthersAreTrue ==
    Spec => [](OthersTrue /\ (system \in {"osx", "netbsd", "solaris"} => FieldsTrue))
<1>1. Init => OthersTrue
  BY DEF Init, OthersTrue, Busy
<1>2. IInv /\ OthersTrue /\ [Next]_vars => OthersTrue'
  BY OthersStep
<1>3. OthersTrue => (system \in {"osx", "netbsd", "solaris"} => FieldsTrue)
  BY DEF OthersTrue, FieldsTrue, KernelFields
<1>. QED  BY <1>1, <1>2, <1>3, Invariance, PTL DEF Spec

(***************************************************************************)
(* The disks.  DisksListed speaks of a list that is complete.  DisksInv    *)
(* says what the list is at every entry of the table: the first MaxDisks   *)
(* entries so far that may be shown and gave their size.                   *)
(***************************************************************************)

\* What may be shown of the entries before n, without those whose size is missing.
Gave(n, quiet) == {i \in 1..n - 1 : Shown(Table[system][i]) /\ i \notin quiet}

FirstOf(S) == {i \in S : Cardinality({j \in S : j <= i}) <= MaxDisks}

\* The list has the first of the entries in told, in order.
Lists(list, told) ==
    /\ list \in Seq(told)
    /\ {list[n] : n \in 1..Len(list)} = FirstOf(told)
    /\ \A m, n \in 1..Len(list) : m < n => list[m] < list[n]
    /\ Len(list) = IF Cardinality(told) <= MaxDisks THEN Cardinality(told) ELSE MaxDisks

\* What a child at a place of the code and at entry n has listed; blind is one that
\* has no table.
ListedAt(place, n, list, quiet, blind) ==
    /\ place # "reply" => ~blind
    /\ place \notin {"mounts", "reply"} => n = 1 /\ list = <<>> /\ quiet = {}
    /\ place = "mounts" =>
        /\ n \in 1..Len(Table[system]) + 1 /\ quiet \subseteq 1..n - 1
        /\ Lists(list, Gave(n, quiet))
    /\ place = "reply" => IF blind THEN list = <<>>
                          ELSE Lists(list, Gave(Len(Table[system]) + 1, quiet))

DisksInv ==
    \A c \in Child : ListedAt(pc[c], entry[c], disks[c], silent[c], noTable[c])

DisksTypeOK ==
    /\ entry \in [Child -> Nat]
    /\ disks \in [Child -> Seq(Nat)]
    /\ silent \in [Child -> SUBSET Nat]
    /\ noTable \in [Child -> BOOLEAN]

LEMMA Prefix ==
    ASSUME NEW n \in Nat \ {0}, NEW S \in SUBSET (1..n - 1)
    PROVE  /\ IsFiniteSet(S) /\ Cardinality(S) \in Nat
           /\ Cardinality(S \cup {n}) = Cardinality(S) + 1
<1>1. IsFiniteSet(1..n - 1)
  BY FS_Interval
<1>2. IsFiniteSet(S)
  BY <1>1, FS_Subset
<1>3. n \notin S
  OBVIOUS
<1>. QED  BY <1>2, <1>3, FS_CardinalityType, FS_AddElement

\* An entry behind the others is one of the first if there is a place left.
LEMMA FirstGrows ==
    ASSUME NEW n \in Nat \ {0}, NEW S \in SUBSET (1..n - 1)
    PROVE  FirstOf(S \cup {n}) =
                FirstOf(S) \cup (IF Cardinality(S) < MaxDisks THEN {n} ELSE {})
<1>. DEFINE T == S \cup {n}
<1>1. \A i \in S : {j \in T : j <= i} = {j \in S : j <= i}
  OBVIOUS
<1>2. {j \in T : j <= n} = T
  <2>1. \A j \in T : j \in 1..n /\ j <= n
    OBVIOUS
  <2>. HIDE DEF T
  <2>. QED  BY <2>1, Zenon
<1>3. Cardinality(T) <= MaxDisks <=> Cardinality(S) < MaxDisks
  BY Prefix, BoundAssumption
<1>4. \A i \in S : i \in FirstOf(T) <=> i \in FirstOf(S)
  BY <1>1 DEF FirstOf
<1>5. n \in FirstOf(T) <=> Cardinality(S) < MaxDisks
  BY <1>2, <1>3 DEF FirstOf
<1>6. FirstOf(T) \subseteq T /\ FirstOf(S) \subseteq S
  BY DEF FirstOf
<1>. QED  BY <1>4, <1>5, <1>6

\* addDisk() lists the next entry, or leaves a full list as it is.
LEMMA AddLists ==
    ASSUME NEW n \in Nat \ {0}, NEW told \in SUBSET (1..n - 1), NEW list, Lists(list, told)
    PROVE  Lists(addDisk(list, n), told \cup {n})
<1>. DEFINE new == addDisk(list, n)
            all == told \cup {n}
<1>1. Cardinality(told) \in Nat /\ Cardinality(all) = Cardinality(told) + 1
  BY Prefix
<1>2. list \in Seq(told) /\ list \in Seq(all) /\ Len(list) \in Nat
  BY DEF Lists
<1>3. FirstOf(all) = FirstOf(told) \cup (IF Cardinality(told) < MaxDisks THEN {n} ELSE {})
  BY FirstGrows
<1>4. Len(list) = IF Cardinality(told) <= MaxDisks THEN Cardinality(told) ELSE MaxDisks
  BY DEF Lists
<1>5. CASE Len(list) >= MaxDisks
  <2>1. new = list
    BY <1>5 DEF addDisk
  <2>2. ~(Cardinality(told) < MaxDisks) /\ Len(list) = MaxDisks
    BY <1>1, <1>4, <1>5, BoundAssumption
  <2>3. FirstOf(all) = FirstOf(told)
    BY <1>3, <2>2
  <2>4. Len(list) = IF Cardinality(all) <= MaxDisks THEN Cardinality(all) ELSE MaxDisks
    BY <1>1, <2>2, BoundAssumption
  <2>. HIDE DEF new, all
  <2>. QED  BY <1>2, <2>1, <2>3, <2>4 DEF Lists, new, all
<1>6. CASE ~(Len(list) >= MaxDisks)
  <2>1. new = Append(list, n)
    BY <1>6 DEF addDisk
  <2>2. /\ new \in Seq(all) /\ Len(new) = Len(list) + 1 /\ new[Len(new)] = n
        /\ \A i \in 1..Len(list) : new[i] = list[i]
    BY <1>2, <2>1
  <2>3. Cardinality(told) < MaxDisks /\ Len(list) = Cardinality(told)
    BY <1>1, <1>2, <1>4, <1>6, BoundAssumption
  <2>4. {new[i] : i \in 1..Len(new)} = {list[i] : i \in 1..Len(list)} \cup {n}
    <3>1. 1..Len(new) = 1..Len(list) \cup {Len(new)}
      BY <1>2, <2>2
    <3>. HIDE DEF new
    <3>. QED  BY <3>1, <2>2
  <2>5. {new[i] : i \in 1..Len(new)} = FirstOf(all)
    BY <2>3, <2>4, <1>3 DEF Lists
  <2>6. ASSUME NEW i \in 1..Len(new), NEW j \in 1..Len(new), i < j PROVE new[i] < new[j]
    <3>1. i \in 1..Len(list)
      BY <2>6, <2>2, <1>2
    <3>2. list[i] \in told
      BY <3>1, <1>2
    <3>3. list[i] < n
      <4>1. \A k \in told : k < n
        OBVIOUS
      <4>. HIDE DEF new, all
      <4>. QED  BY <3>2, <4>1
    <3>4. CASE j \in 1..Len(list)
      BY <3>1, <3>4, <2>6, <2>2 DEF Lists
    <3>5. CASE j = Len(new)
      <4>. HIDE DEF new
      <4>. QED  BY <3>1, <3>3, <3>5, <2>2
    <3>. HIDE DEF new
    <3>. QED  BY <3>4, <3>5, <2>2, <1>2
  <2>7. Len(new) = IF Cardinality(all) <= MaxDisks THEN Cardinality(all) ELSE MaxDisks
    BY <1>1, <2>2, <2>3, BoundAssumption
  <2>. HIDE DEF new, all
  <2>. QED  BY <2>2, <2>5, <2>6, <2>7 DEF Lists, new, all
<1>. QED  BY <1>5, <1>6

LEMMA EmptyLists == Lists(<<>>, {})
BY FS_EmptySet, BoundAssumption DEF Lists, FirstOf

\* What is listed is what may be shown, on every system.
LEMMA DiskIsListed ==
    ASSUME TypeOK, NEW n \in Entries
    PROVE  /\ Shown(Table[system][n]) <=>
                ~Screened(Table[system][n]) /\ isLocalDisk(Table[system][n])
           /\ Len(Table[system]) \in Nat
BY TableAssumption DEF TypeOK, Entries, Shown, Screened, isLocalDisk, Mount

\* A step of c; the other children keep their lists.
LEMMA DisksStepOf ==
    ASSUME TypeOK, DisksTypeOK, DisksInv, NEW c \in Child, UNCHANGED startVars,
           NEW place, NEW n \in Nat, NEW list \in Seq(Nat), NEW quiet \in SUBSET Nat,
           NEW blind \in BOOLEAN,
           pc' = [pc EXCEPT ![c] = place], entry' = [entry EXCEPT ![c] = n],
           disks' = [disks EXCEPT ![c] = list], silent' = [silent EXCEPT ![c] = quiet],
           noTable' = [noTable EXCEPT ![c] = blind],
           ListedAt(place, n, list, quiet, blind)
    PROVE  DisksInv' /\ DisksTypeOK'
<1>1. DisksTypeOK'
  <2>1. noTable' \in [Child -> BOOLEAN]
    BY DEF DisksTypeOK
  <2>. QED  BY <2>1 DEF DisksTypeOK
<1>2. system' = system
  BY DEF startVars
<1>3. ASSUME NEW d \in Child
      PROVE  ListedAt(pc'[d], entry'[d], disks'[d], silent'[d], noTable'[d])
  <2>1. CASE d = c
    BY <2>1 DEF TypeOK, DisksTypeOK
  <2>2. CASE d # c
    BY <2>2 DEF TypeOK, DisksTypeOK, DisksInv
  <2>. QED  BY <2>1, <2>2
<1>4. \A d \in Child : ListedAt(pc[d], entry[d], disks[d], silent[d], noTable[d])'
  <2>1. \A k, mute : Gave(k, mute)' = Gave(k, mute)
    BY <1>2 DEF Gave, Shown
  <2>. QED  BY <1>2, <1>3, <2>1 DEF ListedAt
<1>. QED  BY <1>1, <1>4 DEF DisksInv

\* What is known of a child and of its list.
LEMMA DisksFacts ==
    ASSUME TypeOK, DisksTypeOK, DisksInv, NEW c \in Child
    PROVE  /\ pc = [pc EXCEPT ![c] = pc[c]] /\ entry = [entry EXCEPT ![c] = entry[c]]
           /\ disks = [disks EXCEPT ![c] = disks[c]]
           /\ silent = [silent EXCEPT ![c] = silent[c]]
           /\ noTable = [noTable EXCEPT ![c] = noTable[c]] /\ noTable[c] \in BOOLEAN
           /\ entry[c] \in Nat /\ disks[c] \in Seq(Nat) /\ silent[c] \in SUBSET Nat
           /\ Entries \subseteq Nat /\ Len(Table[system]) \in Nat
BY TableAssumption DEF TypeOK, DisksTypeOK, Entries

\* The entry that c is at gives its size.
LEMMA ListMountStep ==
    ASSUME TypeOK, DisksTypeOK, DisksInv, NEW c \in Child, ListMount(c)
    PROVE  DisksInv' /\ DisksTypeOK'
<1>. DEFINE n == entry[c]
            list == IF Shown(Table[system][n]) THEN addDisk(disks[c], n) ELSE disks[c]
<1>1. /\ pc[c] = "mounts" /\ n \in Entries /\ UNCHANGED startVars
      /\ pc' = pc /\ silent' = silent /\ entry' = [entry EXCEPT ![c] = n + 1]
      /\ noTable' = noTable
  BY DEF ListMount
<1>2. n \in Nat \ {0} /\ n + 1 \in 1..Len(Table[system]) + 1
  BY <1>1, DisksFacts DEF Entries
<1>3. disks' = [disks EXCEPT ![c] = list]
  BY <1>1, DisksFacts, DiskIsListed DEF ListMount
<1>4. /\ silent[c] \subseteq 1..n - 1 /\ Lists(disks[c], Gave(n, silent[c]))
      /\ Gave(n, silent[c]) \in SUBSET (1..n - 1)
  BY <1>1 DEF DisksInv, ListedAt, Gave
<1>5. Gave(n + 1, silent[c]) =
        Gave(n, silent[c]) \cup (IF Shown(Table[system][n]) THEN {n} ELSE {})
  <2>1. 1..(n + 1) - 1 = 1..n - 1 \cup {n} /\ n \notin silent[c]
    BY <1>2, <1>4
  <2>. QED  BY <2>1 DEF Gave
<1>6. Lists(list, Gave(n + 1, silent[c]))
  BY <1>2, <1>4, <1>5, AddLists
<1>7. list \in Seq(Nat)
  BY <1>2, DisksFacts DEF addDisk
<1>8. silent[c] \subseteq 1..(n + 1) - 1 /\ n + 1 \in Nat
  BY <1>2, <1>4
<1>. HIDE DEF list
<1>9. ~noTable[c] /\ ListedAt("mounts", n + 1, list, silent[c], FALSE)
  BY <1>1, <1>2, <1>6, <1>8 DEF DisksInv, ListedAt
<1>10. /\ pc' = [pc EXCEPT ![c] = "mounts"] /\ silent' = [silent EXCEPT ![c] = silent[c]]
       /\ silent[c] \in SUBSET Nat
       /\ noTable' = [noTable EXCEPT ![c] = FALSE] /\ FALSE \in BOOLEAN
  BY <1>1, <1>9, DisksFacts
<1>. DEFINE after == n + 1
<1>11. after \in Nat /\ entry' = [entry EXCEPT ![c] = after]
       /\ ListedAt("mounts", after, list, silent[c], FALSE)
  BY <1>1, <1>8, <1>9
<1>. HIDE DEF n, after
<1>. QED  BY <1>1, <1>3, <1>7, <1>10, <1>11, DisksStepOf

\* The entry that c is at does not give its size.
LEMMA SkipMountStep ==
    ASSUME TypeOK, DisksTypeOK, DisksInv, NEW c \in Child, SkipMount(c)
    PROVE  DisksInv' /\ DisksTypeOK'
<1>. DEFINE n == entry[c]
            quiet == silent[c] \cup {n}
<1>1. /\ pc[c] = "mounts" /\ n \in Entries /\ UNCHANGED startVars
      /\ pc' = pc /\ disks' = disks /\ entry' = [entry EXCEPT ![c] = n + 1]
      /\ silent' = [silent EXCEPT ![c] = quiet] /\ noTable' = noTable
  BY DEF SkipMount
<1>2. n \in Nat \ {0} /\ n + 1 \in 1..Len(Table[system]) + 1
  BY <1>1, DisksFacts DEF Entries
<1>3. silent[c] \subseteq 1..n - 1 /\ Lists(disks[c], Gave(n, silent[c]))
  BY <1>1 DEF DisksInv, ListedAt
<1>4. Gave(n + 1, quiet) = Gave(n, silent[c])
  <2>1. 1..(n + 1) - 1 = 1..n - 1 \cup {n} /\ n \notin 1..n - 1
    BY <1>2
  <2>. QED  BY <2>1 DEF Gave
<1>5. quiet \subseteq 1..(n + 1) - 1 /\ quiet \in SUBSET Nat /\ n + 1 \in Nat
  BY <1>2, <1>3
<1>. HIDE DEF quiet
<1>6. ~noTable[c] /\ ListedAt("mounts", n + 1, disks[c], quiet, FALSE)
  BY <1>1, <1>2, <1>3, <1>4, <1>5 DEF DisksInv, ListedAt
<1>7. /\ pc' = [pc EXCEPT ![c] = "mounts"] /\ disks' = [disks EXCEPT ![c] = disks[c]]
      /\ disks[c] \in Seq(Nat)
      /\ noTable' = [noTable EXCEPT ![c] = FALSE] /\ FALSE \in BOOLEAN
  BY <1>1, <1>6, DisksFacts
<1>. DEFINE after == n + 1
<1>8. after \in Nat /\ entry' = [entry EXCEPT ![c] = after]
      /\ ListedAt("mounts", after, disks[c], quiet, FALSE)
  BY <1>1, <1>5, <1>6
<1>. HIDE DEF n, after
<1>. QED  BY <1>1, <1>5, <1>7, <1>8, DisksStepOf

\* The steps to the loop and out of it.
LEMMA TableStep ==
    ASSUME TypeOK, DisksTypeOK, DisksInv, NEW c \in Child,
           OpenTable(c) \/ NoTable(c) \/ EndOfTable(c)
    PROVE  DisksInv' /\ DisksTypeOK'
<1>1. /\ UNCHANGED startVars /\ Len(Table[system]) \in Nat
      /\ entry' = [entry EXCEPT ![c] = entry[c]] /\ disks' = [disks EXCEPT ![c] = disks[c]]
      /\ silent' = [silent EXCEPT ![c] = silent[c]]
      /\ entry[c] \in Nat /\ disks[c] \in Seq(Nat) /\ silent[c] \in SUBSET Nat
  BY DisksFacts DEF OpenTable, NoTable, EndOfTable, diskVars
<1>2. ListedAt(pc[c], entry[c], disks[c], silent[c], noTable[c])
  BY DEF DisksInv
<1>3. CASE OpenTable(c)
  <2>1. /\ pc[c] = "disks" /\ pc' = [pc EXCEPT ![c] = "mounts"]
        /\ noTable' = [noTable EXCEPT ![c] = noTable[c]] /\ noTable[c] \in BOOLEAN
    BY <1>3, DisksFacts DEF OpenTable, diskVars
  <2>2. entry[c] = 1 /\ disks[c] = <<>> /\ silent[c] = {} /\ ~noTable[c]
    BY <2>1, <1>2 DEF ListedAt
  <2>3. Gave(1, {}) = {}
    BY DEF Gave
  <2>4. 1 \in 1..Len(Table[system]) + 1 /\ {} \subseteq 1..1 - 1
    BY <1>1
  <2>5. Lists(<<>>, Gave(1, {}))
    BY <2>3, EmptyLists, Zenon
  <2>6. ListedAt("mounts", entry[c], disks[c], silent[c], noTable[c])
    BY <2>2, <2>4, <2>5 DEF ListedAt
  <2>. QED  BY <1>1, <2>1, <2>6, DisksStepOf
<1>4. CASE NoTable(c)
  <2>1. /\ pc[c] = "disks" /\ pc' = [pc EXCEPT ![c] = "reply"]
        /\ noTable' = [noTable EXCEPT ![c] = TRUE] /\ TRUE \in BOOLEAN
    BY <1>4 DEF NoTable
  <2>2. ListedAt("reply", entry[c], disks[c], silent[c], TRUE)
    BY <1>2, <2>1 DEF ListedAt
  <2>. QED  BY <1>1, <2>1, <2>2, DisksStepOf
<1>5. CASE EndOfTable(c)
  <2>1. /\ pc[c] = "mounts" /\ pc' = [pc EXCEPT ![c] = "reply"]
        /\ noTable' = [noTable EXCEPT ![c] = noTable[c]] /\ noTable[c] \in BOOLEAN
        /\ entry[c] \notin Entries
    BY <1>5, DisksFacts DEF EndOfTable, diskVars
  <2>2. entry[c] = Len(Table[system]) + 1
    BY <1>1, <1>2, <2>1 DEF ListedAt, Entries
  <2>3. ListedAt("reply", entry[c], disks[c], silent[c], noTable[c])
    BY <1>2, <2>1, <2>2 DEF ListedAt
  <2>. QED  BY <1>1, <2>1, <2>3, DisksStepOf
<1>. QED  BY <1>3, <1>4, <1>5

\* Every step of the daemon and of a child keeps the lists.
LEMMA DisksStepAny ==
    ASSUME TypeOK, DisksTypeOK, DisksInv, [Next]_vars
    PROVE  DisksInv' /\ DisksTypeOK'
<1>1. ASSUME UNCHANGED <<system, pc, diskVars>> PROVE DisksInv' /\ DisksTypeOK'
  BY <1>1 DEF diskVars, DisksInv, DisksTypeOK, ListedAt, Gave, Shown
<1>2. CASE UNCHANGED vars \/ Startup
  BY <1>2, <1>1 DEF vars, startVars, Startup
<1>3. ASSUME NEW c \in Child,
             \/ Collect(c) \/ Call(c)
             \/ Unavailable(c) \/ Seek(c) \/ SeekFails(c) \/ Read(c) \/ ReadFails(c)
      PROVE  DisksInv' /\ DisksTypeOK'
  <2>1. /\ pc[c] \notin {"mounts", "reply"} /\ UNCHANGED startVars
        /\ entry' = entry /\ disks' = disks /\ silent' = silent /\ noTable' = noTable
    BY <1>3 DEF Collect, Call, Unavailable, Seek, SeekFails, Read, ReadFails, diskVars
  <2>2. PICK place \in {"collect", "read", "disks"} : pc' = [pc EXCEPT ![c] = place]
    BY <1>3 DEF Collect, Call, Unavailable, Seek, SeekFails, Read, ReadFails, Advance
  <2>3. ListedAt(place, entry[c], disks[c], silent[c], noTable[c])
    BY <2>1, <2>2 DEF DisksInv, ListedAt
  <2>4. /\ entry' = [entry EXCEPT ![c] = entry[c]] /\ disks' = [disks EXCEPT ![c] = disks[c]]
        /\ silent' = [silent EXCEPT ![c] = silent[c]]
        /\ noTable' = [noTable EXCEPT ![c] = noTable[c]] /\ noTable[c] \in BOOLEAN
        /\ entry[c] \in Nat /\ disks[c] \in Seq(Nat) /\ silent[c] \in SUBSET Nat
        /\ UNCHANGED startVars
    BY <2>1, DisksFacts
  <2>. QED  BY <2>2, <2>3, <2>4, DisksStepOf
<1>4. ASSUME NEW c \in Child, Reply(c) PROVE DisksInv' /\ DisksTypeOK'
  <2>1. /\ UNCHANGED startVars /\ pc' = [pc EXCEPT ![c] = "idle"]
        /\ entry' = [entry EXCEPT ![c] = 1] /\ disks' = [disks EXCEPT ![c] = <<>>]
        /\ silent' = [silent EXCEPT ![c] = {}] /\ noTable' = [noTable EXCEPT ![c] = FALSE]
    BY <1>4 DEF Reply
  <2>2. /\ <<>> \in Seq(Nat) /\ {} \in SUBSET Nat /\ 1 \in Nat /\ FALSE \in BOOLEAN
        /\ ListedAt("idle", 1, <<>>, {}, FALSE)
    BY DEF ListedAt
  <2>. QED  BY <2>1, <2>2, DisksStepOf
<1>. QED  BY <1>2, <1>3, <1>4, TableStep, ListMountStep, SkipMountStep DEF Next

\* collectDisks(), addDisk(), isLocalDisk(): for any mount table, loopback mounts
\* included, any number of places and whatever fails, a reply has the disks (and the
\* loopback mounts, but not on IRIX) that gave their size, in the order of the table,
\* up to the number of places; and none if the table cannot be read.
THEOREM DisksAreListed == Spec => []DisksListed
<1>1. Init => DisksInv /\ DisksTypeOK
  BY DEF Init, DisksInv, DisksTypeOK, ListedAt
<1>2. TypeOK /\ DisksInv /\ DisksTypeOK /\ [Next]_vars => (DisksInv /\ DisksTypeOK)'
  BY DisksStepAny
<1>3. TypeOK /\ DisksInv => DisksListed
  <2>. SUFFICES ASSUME TypeOK, DisksInv, NEW c \in Child, pc[c] = "reply"
                PROVE  LET told == {i \in Entries :
                                        Shown(Table[system][i]) /\ i \notin silent[c]}
                       IN  IF noTable[c] THEN disks[c] = <<>> ELSE
                           /\ {disks[c][n] : n \in 1..Len(disks[c])} = FirstOf(told)
                           /\ \A m, n \in 1..Len(disks[c]) :
                                m < n => disks[c][m] < disks[c][n]
    BY DEF DisksListed, FirstOf
  <2>1. Gave(Len(Table[system]) + 1, silent[c]) =
            {i \in Entries : Shown(Table[system][i]) /\ i \notin silent[c]}
    BY TableAssumption DEF Gave, Entries, TypeOK
  <2>2. IF noTable[c] THEN disks[c] = <<>>
        ELSE Lists(disks[c], Gave(Len(Table[system]) + 1, silent[c]))
    BY DEF DisksInv, ListedAt
  <2>. QED  BY <2>1, <2>2 DEF Lists
<1>4. IInv => TypeOK
  BY DEF IInv
<1>. QED  BY <1>1, <1>2, <1>3, <1>4, Invariance, PTL DEF Spec

=============================================================================
