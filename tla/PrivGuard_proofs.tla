--------------------------- MODULE PrivGuard_proofs ---------------------------
(***************************************************************************)
(* Proofs about PrivGuard, whichever calls of drop() may fail.             *)
(*                                                                         *)
(* RunsAsAsked and EffectiveRestored speak of the places where a verb works*)
(* and where none does, CleanStop of the moment of a SIGTERM.  Inv says    *)
(* what is true in between: which of the ids each call of drop() has       *)
(* changed, and that a guard that has dropped knows what to put back and   *)
(* is root underneath.                                                     *)
(***************************************************************************)
EXTENDS PrivGuard, TLAPS

\* What the calls of the guard return for a process in Ids.
LEMMA CallFacts ==
    ASSUME NEW i \in Ids, NEW n \in Nat
    PROVE  /\ Setegid(i, n) \in Ids /\ Seteuid(i, n) \in Ids
           /\ Setegid(i, n).euid = i.euid /\ Seteuid(i, n).egid = i.egid
           /\ Setegid(i, n).groups = i.groups /\ Seteuid(i, n).groups = i.groups
           /\ MaySetegid(i, n) => Setegid(i, n).egid = n
           /\ MaySeteuid(i, n) => Seteuid(i, n).euid = n
BY DEF Ids, Setegid, Seteuid

LEMMA InitInv == Init => Inv
<1>. SUFFICES ASSUME Init PROVE Inv
  OBVIOUS
<1>0. ~dropped /\ dropped \in BOOLEAN /\ inline \in BOOLEAN
  BY Zenon DEF Init
<1>1. TypeOK
  <2>1. /\ started \in Ids /\ daemon \in Ids /\ ids \in Ids /\ saved \in Nat
        /\ up \in {"up", "stopped"} /\ pidfile \in {"there", "removed"}
        /\ pc = "accept" /\ user \in User \cup {NoUser, Unknown}
        /\ conns \in 0..MaxConns /\ reqs \in 0..MaxReqs
    BY IdAssumption, BoundAssumption DEF Init
  <2>. QED  BY <1>0, <2>1 DEF TypeOK, Places
<1>2. GuardInv
  BY DEF Init, GuardInv, AsStarted, EgidKept
<1>3. CleanStop
  BY DEF Init, CleanStop
<1>. QED  BY <1>1, <1>2, <1>3 DEF Inv

\* The guard's destructor gives back what the daemon was started with.
LEMMA RestoredFacts ==
    ASSUME Inv, dropped, pc = "reply"
    PROVE  Restored \in Ids /\ AsStarted(Restored)
<1>1. started.euid = 0 /\ (EgidKept => saved = started.egid) /\ ids \in Ids /\ saved \in Nat
  BY DEF Inv, TypeOK, GuardInv
<1>2. Seteuid(ids, 0) \in Ids /\ Seteuid(ids, 0).euid = 0
  BY <1>1, CallFacts DEF MaySeteuid
<1>3. /\ Restored \in Ids /\ Restored.euid = 0 /\ Restored.egid = saved
  BY <1>1, <1>2, CallFacts DEF Restored, MaySetegid, IsRoot
<1>. QED  BY <1>1, <1>3 DEF AsStarted, EgidKept

\* Every step keeps the invariant.
LEMMA StepInv == ASSUME Inv, [Next]_vars PROVE TypeOK' /\ GuardInv'
<1>. USE DEF Inv, stop
<1>1. CASE UNCHANGED vars
  BY <1>1 DEF vars, guardVars, bounds, TypeOK, GuardInv, AsStarted, EgidKept
<1>2. ASSUME NEW self \in BOOLEAN, Accept(self) PROVE TypeOK' /\ GuardInv'
  BY <1>2, BoundAssumption
     DEF Accept, guardVars, TypeOK, GuardInv, Places, AsStarted, EgidKept
<1>3. CASE Close
  BY <1>3 DEF Close, guardVars, bounds, TypeOK, GuardInv, Places, AsStarted, EgidKept
<1>4. ASSUME NEW u \in User \cup {NoUser, Unknown}, Request(u) PROVE TypeOK' /\ GuardInv'
  <2>0. /\ pc' \in {"op", "reply", "initgroups"}
        /\ pc' = "initgroups" => user' \in User
        /\ user' \in User \cup {NoUser, Unknown}
        /\ conns' \in 0..MaxConns /\ reqs' \in 0..MaxReqs
        /\ up' \in {"up", "stopped"} /\ pidfile' \in {"there", "removed"}
        /\ started' \in Ids /\ daemon' \in Ids /\ ids' \in Ids /\ saved' \in Nat
    BY <1>4, BoundAssumption DEF Request, TypeOK
  <2>00. inline' \in BOOLEAN /\ dropped' \in BOOLEAN /\ ~dropped'
    BY <1>4, Zenon DEF Request, TypeOK
  <2>1. TypeOK'
    BY <2>0, <2>00 DEF TypeOK, Places
  <2>2. GuardInv'
    BY <1>4, NameAssumption DEF Request, TypeOK, GuardInv, AsStarted, EgidKept
  <2>. QED  BY <2>1, <2>2
<1>5. CASE DropFails
  <2>1. /\ pc \in {"initgroups", "setegid", "seteuid"} /\ pc' = "reply"
        /\ failed' = failed \cup {pc} /\ ids' = ids /\ ids.egid \in Nat
        /\ saved' = IF pc = "initgroups" THEN ids.egid ELSE saved
    BY <1>5 DEF DropFails, TypeOK, Ids
  <2>2. TypeOK'
    BY <1>5, <2>1 DEF DropFails, bounds, TypeOK, Places, Ids
  <2>3. GuardInv'
    BY <1>5, <2>1 DEF DropFails, bounds, TypeOK, GuardInv, AsStarted, EgidKept
  <2>. QED  BY <2>2, <2>3
<1>6. CASE Initgroups
  <2>1. user \in User /\ GroupsOf[user] \in SUBSET Nat
    BY <1>6, IdAssumption DEF Initgroups, TypeOK
  <2>2. /\ ids' \in Ids /\ ids'.groups = GroupsOf[user]
        /\ ids'.euid = ids.euid /\ ids'.egid = ids.egid
    BY <1>6, <2>1 DEF Initgroups, TypeOK, Ids
  <2>3. TypeOK'
    BY <1>6, <2>1, <2>2 DEF Initgroups, bounds, TypeOK, Places, Ids
  <2>4. GuardInv'
    BY <1>6, <2>1, <2>2 DEF Initgroups, bounds, TypeOK, GuardInv, AsStarted, EgidKept, IsRoot
  <2>. QED  BY <2>3, <2>4
<1>7. CASE DropEgid
  <2>1. user \in User /\ GidOf[user] \in Nat /\ ids \in Ids
    BY <1>7, IdAssumption DEF DropEgid, TypeOK
  <2>2. /\ ids' \in Ids /\ ids'.groups = ids.groups
        /\ ids'.euid = ids.euid /\ ids'.egid = GidOf[user]
    BY <1>7, <2>1, CallFacts DEF DropEgid
  <2>3. TypeOK'
    BY <1>7, <2>1, <2>2 DEF DropEgid, guardVars, bounds, TypeOK, Places
  <2>4. GuardInv'
    BY <1>7, <2>2 DEF DropEgid, guardVars, bounds, TypeOK, GuardInv, AsStarted, EgidKept
  <2>. QED  BY <2>3, <2>4
<1>8. CASE DropEuid
  <2>1. user \in User /\ UidOf[user] \in Nat /\ ids \in Ids
    BY <1>8, IdAssumption DEF DropEuid, TypeOK
  <2>2. /\ ids' \in Ids /\ ids'.groups = ids.groups
        /\ ids'.egid = ids.egid /\ ids'.euid = UidOf[user]
    BY <1>8, <2>1, CallFacts DEF DropEuid
  <2>3. TypeOK'
    BY <1>8, <2>1, <2>2 DEF DropEuid, bounds, TypeOK, Places
  <2>4. GuardInv'
    BY <1>8, <2>2 DEF DropEuid, bounds, TypeOK, GuardInv, AsStarted, EgidKept
  <2>. QED  BY <2>3, <2>4
<1>9. CASE Operate
  BY <1>9 DEF Operate, guardVars, bounds, TypeOK, GuardInv, Places, AsStarted, EgidKept
<1>10. CASE Reply
  <2>1. ids' \in Ids /\ AsStarted(ids')
    BY <1>10, RestoredFacts DEF Reply, TypeOK, GuardInv
  <2>2. TypeOK'
    BY <1>10, <2>1 DEF Reply, guardVars, bounds, TypeOK, Places
  <2>3. GuardInv'
    BY <1>10, <2>1 DEF Reply, guardVars, bounds, GuardInv, AsStarted, EgidKept
  <2>. QED  BY <2>2, <2>3
<1>11. CASE Terminate
  BY <1>11 DEF Terminate, Serving, guardVars, bounds, TypeOK, GuardInv, Places,
     AsStarted, EgidKept
<1>. QED
  BY <1>1, <1>2, <1>3, <1>4, <1>5, <1>6, <1>7, <1>8, <1>9, <1>10, <1>11 DEF Next

\* The pidfile is left only by a SIGTERM between DropEuid and Reply.
LEMMA StopStep == ASSUME Inv, [Next]_vars PROVE CleanStop'
<1>. USE DEF Inv
<1>1. CASE Terminate
  <2>1. SUFFICES ASSUME pidfile' = "there" PROVE CleanStop'
    BY DEF CleanStop
  <2>2. /\ up = "up" /\ UNCHANGED <<ids, user, started>>
        /\ (Serving => pc' = "gone")
        /\ (IF Serving THEN ids ELSE daemon).euid # started.euid
    BY <1>1, <2>1 DEF Terminate, MayUnlink, guardVars
  <2>3. /\ Serving /\ pc # "gone" /\ ids.euid # started.euid
        /\ pc' = "gone" /\ UNCHANGED <<ids, user, started>>
    BY <2>2 DEF GuardInv, AsStarted
  <2>4. pc \in {"op", "reply"} /\ dropped
    BY <2>3 DEF TypeOK, Places, GuardInv, AsStarted, Serving
  <2>5. user \in User /\ ids.euid = UidOf[user]
    BY <2>4 DEF TypeOK, GuardInv
  <2>. QED  BY <2>3, <2>5 DEF CleanStop
<1>2. CASE ~Terminate
  <2>1. UNCHANGED stop
    BY <1>2 DEF Next, vars, Accept, Close, Request, DropFails, Initgroups, DropEgid,
       DropEuid, Operate, Reply
  <2>2. pc = "gone" => UNCHANGED <<pc, user, ids, started>>
    BY <1>2 DEF Next, vars, guardVars, Accept, Close, Request, DropFails, Initgroups,
       DropEgid, DropEuid, Operate, Reply
  <2>. QED  BY <2>1, <2>2 DEF stop, CleanStop
<1>. QED  BY <1>1, <1>2

\* The invariant holds for any users, requests and connections, whether or not
\* the daemon was started as root.
THEOREM Invariance == Spec => []Inv
<1>1. Init => Inv
  BY InitInv
<1>2. Inv /\ [Next]_vars => Inv'
  BY StepInv, StopStep DEF Inv
<1>. QED  BY <1>1, <1>2, PTL DEF Spec

\* A verb works with the ids of the user it names, or, without one, with the
\* effective ids of the daemon: it never works with anything a refused or an
\* earlier request has left behind.
THEOREM WorksAsAsked == Spec => []RunsAsAsked
<1>1. Inv => RunsAsAsked
  BY NameAssumption DEF Inv, TypeOK, GuardInv, RunsAsAsked, AsStarted, EgidKept
<1>. QED  BY <1>1, Invariance, PTL

\* Between requests the effective ids are those the daemon was started with;
\* the egid, unless a seteuid() has failed for root.
THEOREM GivesBack == Spec => []EffectiveRestored
<1>1. Inv => EffectiveRestored
  BY DEF Inv, GuardInv, EffectiveRestored, AsStarted, EgidKept
<1>. QED  BY <1>1, Invariance, PTL

\* A SIGTERM leaves the pidfile behind only if it finds the daemon itself at
\* work for another user.
THEOREM StopsClean == Spec => []CleanStop
<1>1. Inv => CleanStop
  BY DEF Inv
<1>. QED  BY <1>1, Invariance, PTL

=============================================================================
