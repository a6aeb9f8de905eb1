------------------------------ MODULE PrivGuard ------------------------------
(***************************************************************************)
(* "user" on the file verbs: parseUserField() and struct HeliosPrivGuard   *)
(* in Verbs.cpp, over the requests of a connection and over connections.   *)
(*                                                                         *)
(* The ids of a process are a record: euid, egid and the supplementary     *)
(* groups; the real and saved ids are those it was started with.  A child  *)
(* starts with the ids the daemon has when it forks; when fork() fails the *)
(* daemon serves the connection itself, so what a guard leaves behind      *)
(* stays in the daemon, and a SIGTERM finds it with the ids of the moment. *)
(***************************************************************************)
EXTENDS Naturals

CONSTANTS
    User,      \* names getpwnam() knows
    NoUser,    \* no "user" in the request
    Unknown,   \* a name getpwnam() does not know
    UidOf,     \* UidOf[u]: the uid of u; 0 is root
    GidOf,     \* GidOf[u]: its gid
    GroupsOf,  \* GroupsOf[u]: what initgroups() gives it
    Starts,    \* the ids the daemon may be started with
    Failing,   \* calls that may fail although the process may make them
    MaxReqs,   \* bound: requests
    MaxConns   \* bound: connections

ASSUME NameAssumption ==
    NoUser # Unknown /\ NoUser \notin User /\ Unknown \notin User
ASSUME FailingAssumption == Failing \subseteq {"initgroups", "setegid", "seteuid"}
Ids == [euid : Nat, egid : Nat, groups : SUBSET Nat]

ASSUME IdAssumption ==
    /\ Starts \subseteq Ids
    /\ \A u \in User :
        UidOf[u] \in Nat /\ GidOf[u] \in Nat /\ GroupsOf[u] \in SUBSET Nat
ASSUME BoundAssumption == MaxReqs \in Nat /\ MaxConns \in Nat

VARIABLES
    started,  \* the ids the daemon was started with
    daemon,   \* ids of the daemon
    ids,      \* ids of the process that serves the connection
    inline,   \* is that the daemon itself?
    pc,       \* where it is
    user,     \* the "user" of the request
    saved,    \* savedEgid
    dropped,  \* the guard has lowered the ids and will put them back
    failed,   \* history: calls of drop() that have failed
    up,       \* "up", or "stopped" by a SIGTERM
    pidfile,  \* "there", or "removed"
    conns,    \* connections so far
    reqs      \* requests so far

guardVars == <<user, saved, dropped>>
stop      == <<up, pidfile>>
bounds    == <<conns, reqs>>
vars == <<started, daemon, ids, inline, pc, guardVars, failed, stop, bounds>>

Init ==
    /\ started \in Starts
    /\ daemon = started /\ ids = started
    /\ inline = FALSE
    /\ pc = "accept"
    /\ user = NoUser /\ saved = 0 /\ dropped = FALSE
    /\ failed = {}
    /\ up = "up" /\ pidfile = "there"
    /\ conns = 0 /\ reqs = 0

(***************************************************************************)
(* The system calls: the ids afterwards, and whether the kernel lets the   *)
(* process make them.  Root may set any id, others go back to the real one.*)
(***************************************************************************)

IsRoot(i) == i.euid = 0
MaySetegid(i, g) == IsRoot(i) \/ g = started.egid
MaySeteuid(i, u) == IsRoot(i) \/ u = started.euid

Setegid(i, g) == IF MaySetegid(i, g) THEN [i EXCEPT !.egid = g] ELSE i
Seteuid(i, u) == IF MaySeteuid(i, u) THEN [i EXCEPT !.euid = u] ELSE i

(***************************************************************************)
(* Connections.                                                            *)
(***************************************************************************)

\* The daemon forks a child, or serves the connection itself.
Accept(self) ==
    /\ pc = "accept" /\ up = "up" /\ conns < MaxConns
    /\ conns' = conns + 1
    /\ inline' = self
    /\ ids' = daemon
    /\ pc' = "recv"
    /\ UNCHANGED <<started, daemon, guardVars, failed, stop, reqs>>

\* The connection ends: the child leaves, or the daemon goes back to accept().
Close ==
    /\ pc = "recv"
    /\ daemon' = IF inline THEN ids ELSE daemon
    /\ pc' = "accept"
    /\ UNCHANGED <<started, ids, inline, guardVars, failed, stop, bounds>>

(***************************************************************************)
(* A request.                                                              *)
(***************************************************************************)

\* parseUserField(), and the guard's constructor.
Request(u) ==
    /\ pc = "recv" /\ reqs < MaxReqs
    /\ reqs' = reqs + 1
    /\ user' = u
    /\ dropped' = FALSE
    /\ pc' = CASE u = NoUser -> "op" [] u = Unknown -> "reply" [] OTHER -> "initgroups"
    /\ UNCHANGED <<started, daemon, ids, inline, saved, failed, stop, conns>>

\* Mutant of DropFails: the verb does not look at ok().
DropFails_Ignored ==
    /\ \/ pc = "initgroups" /\ (~IsRoot(ids) \/ pc \in Failing)
       \/ pc = "setegid" /\ (~MaySetegid(ids, GidOf[user]) \/ pc \in Failing)
       \/ pc = "seteuid" /\ (~MaySeteuid(ids, UidOf[user]) \/ pc \in Failing)
    /\ saved' = IF pc = "initgroups" THEN ids.egid ELSE saved
    /\ failed' = failed \cup {pc}
    /\ pc' = "op"
    /\ UNCHANGED <<started, daemon, ids, inline, user, dropped, stop, bounds>>

\* drop(): `okFlag = 0; return`, and the verb refuses the request.  What the
\* earlier calls have changed stays.
DropFails ==
    /\ \/ pc = "initgroups" /\ (~IsRoot(ids) \/ pc \in Failing)
       \/ pc = "setegid" /\ (~MaySetegid(ids, GidOf[user]) \/ pc \in Failing)
       \/ pc = "seteuid" /\ (~MaySeteuid(ids, UidOf[user]) \/ pc \in Failing)
    /\ saved' = IF pc = "initgroups" THEN ids.egid ELSE saved
    /\ failed' = failed \cup {pc}
    /\ pc' = "reply"
    /\ UNCHANGED <<started, daemon, ids, inline, user, dropped, stop, bounds>>

\* savedEgid = getegid(); initgroups( name, gid )
Initgroups ==
    /\ pc = "initgroups" /\ IsRoot(ids)
    /\ saved' = ids.egid
    /\ ids' = [ids EXCEPT !.groups = GroupsOf[user]]
    /\ pc' = "setegid"
    /\ UNCHANGED <<started, daemon, inline, user, dropped, failed, stop, bounds>>

DropEgid ==
    /\ pc = "setegid" /\ MaySetegid(ids, GidOf[user])
    /\ ids' = Setegid(ids, GidOf[user])
    /\ pc' = "seteuid"
    /\ UNCHANGED <<started, daemon, inline, guardVars, failed, stop, bounds>>

DropEuid ==
    /\ pc = "seteuid" /\ MaySeteuid(ids, UidOf[user])
    /\ ids' = Seteuid(ids, UidOf[user])
    /\ dropped' = TRUE
    /\ pc' = "op"
    /\ UNCHANGED <<started, daemon, inline, user, saved, failed, stop, bounds>>

\* The verb does its work, with the ids of this state, or throws.
Operate ==
    /\ pc = "op"
    /\ pc' = "reply"
    /\ UNCHANGED <<started, daemon, ids, inline, guardVars, failed, stop, bounds>>

\* Mutants of Restored: the egid, or the euid, is forgotten.
Restored_EuidOnly == Seteuid(ids, 0)
Restored_EgidOnly == Setegid(ids, saved)

\* ~HeliosPrivGuard(): seteuid( 0 ), then setegid( savedEgid ).
Restored == Setegid(Seteuid(ids, 0), saved)

\* The end of the verb's scope.
Reply ==
    /\ pc = "reply"
    /\ ids' = IF dropped THEN Restored ELSE ids
    /\ pc' = "recv"
    /\ UNCHANGED <<started, daemon, inline, guardVars, failed, stop, bounds>>

(***************************************************************************)
(* The init script's SIGTERM to the daemon: termHandler() removes the      *)
(* pidfile, if the ids of the moment let it, and leaves.                   *)
(***************************************************************************)

\* Does the daemon itself serve a connection?
Serving == inline /\ pc # "accept"

MayUnlink(i) == i.euid \in {0, started.euid}

Terminate ==
    /\ up = "up"
    /\ up' = "stopped"
    /\ pidfile' = IF MayUnlink(IF Serving THEN ids ELSE daemon)
                  THEN "removed" ELSE pidfile
    /\ pc' = IF Serving THEN "gone" ELSE pc
    /\ UNCHANGED <<started, daemon, ids, inline, guardVars, failed, bounds>>

Next ==
    \/ \E self \in BOOLEAN : Accept(self)
    \/ Close
    \/ \E u \in User \cup {NoUser, Unknown} : Request(u)
    \/ DropFails \/ Initgroups \/ DropEgid \/ DropEuid \/ Operate \/ Reply
    \/ Terminate

Spec == Init /\ [][Next]_vars

(***************************************************************************)
(* Properties.                                                             *)
(***************************************************************************)

\* drop() is reached with a user that getpwnam() knows, and only drop() lowers
\* the ids.
Places == {"accept", "recv", "initgroups", "setegid", "seteuid", "op", "reply",
           "gone"}
TypeOK ==
    /\ started \in Ids /\ daemon \in Ids /\ ids \in Ids /\ saved \in Nat
    /\ inline \in BOOLEAN /\ dropped \in BOOLEAN
    /\ pc \in Places
    /\ user \in User \cup {NoUser, Unknown}
    /\ (pc \in {"initgroups", "setegid", "seteuid"} \/ dropped) => user \in User
    /\ up \in {"up", "stopped"} /\ pidfile \in {"there", "removed"}
    /\ conns \in 0..MaxConns /\ reqs \in 0..MaxReqs

\* The effective ids are those the daemon was started with; the egid, unless a
\* seteuid() has failed after its setegid() had worked, which nobody undoes.
EgidKept == "seteuid" \notin failed
AsStarted(i) == i.euid = started.euid /\ (EgidKept => i.egid = started.egid)

\* A verb with a user works with that user's ids and nobody else's, one
\* without works with the effective ids the daemon was started with, whatever
\* the requests before it asked for and however they ended.
RunsAsAsked ==
    pc = "op" =>
        IF user = NoUser THEN AsStarted(ids)
        ELSE /\ ids.euid = UidOf[user] /\ ids.egid = GidOf[user]
             /\ ids.groups = GroupsOf[user]

\* The daemon itself, and a process between two requests, has the effective
\* ids it was started with: "it restores root afterward" (PROTOCOL.md), also
\* after a drop that failed half-way, for the euid at least.
EffectiveRestored ==
    /\ AsStarted(daemon)
    /\ pc \in {"accept", "recv"} => AsStarted(ids)

\* After a SIGTERM the pidfile is gone, whatever users were served before;
\* it can stay only if the signal found the daemon at work for another user.
CleanStop ==
    (up = "stopped" /\ pidfile = "there") =>
        /\ pc = "gone" /\ user \in User
        /\ ids.euid = UidOf[user] /\ ids.euid # started.euid

\* A verb without a user works with all the ids of the daemon, the
\* supplementary groups too.
GroupsRestored == (pc = "op" /\ user = NoUser) => ids = started

\* What the proofs need of the places in between: each call of drop() has
\* changed what it says, and a guard that has dropped remembers the rest.
GuardInv ==
    /\ AsStarted(daemon)
    /\ pc \in {"accept", "recv", "initgroups", "setegid"} => AsStarted(ids)
    /\ pc \in {"initgroups", "setegid", "seteuid"} => ~dropped
    /\ (pc \in {"setegid", "seteuid"} \/ (pc \in {"op", "reply"} /\ dropped)) =>
        /\ started.euid = 0 /\ (EgidKept => saved = started.egid)
        /\ ids.groups = GroupsOf[user]
    /\ pc = "seteuid" => ids.euid = started.euid /\ ids.egid = GidOf[user]
    /\ pc \in {"op", "reply"} =>
        IF dropped THEN ids.euid = UidOf[user] /\ ids.egid = GidOf[user]
        ELSE AsStarted(ids)
    /\ (pc = "op" /\ user # NoUser) => dropped
    /\ pc = "gone" => up = "stopped"

Inv == TypeOK /\ GuardInv /\ CleanStop
=============================================================================
