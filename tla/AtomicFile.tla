----------------------------- MODULE AtomicFile -----------------------------
(***************************************************************************)
(* What the file verbs of heliosAgent promise about one path, with no      *)
(* temp file, inode or block in sight: the path holds one value; a write   *)
(* request replaces the value in one step or not at all, whatever becomes  *)
(* of the process that serves it; a read request returns the value the     *)
(* path held at one instant between its call and its return, or stops      *)
(* short of it, which its client can tell from what was announced.  A      *)
(* crash of the host leaves the value alone, unless the write that put it  *)
(* there was not made durable: then it may leave a torn one.               *)
(*                                                                         *)
(* FileVerbs.tla is shown to implement this module.                        *)
(***************************************************************************)

CONSTANTS
    Request,    \* the requests that arrive
    Payload,    \* Payload[r] is the value a write request r carries
    Torn,       \* Torn[r]: what a crash may leave of it if it is not durable
    Fragile,    \* requests whose write may not be durable
    Absent,     \* the value of a path that does not exist
    Directory,  \* the value of a path that is not a regular file
    Initial     \* the values the path may hold at the start

VARIABLES
    file,       \* the value the path holds
    tearable,   \* what a crash may leave of it; none if it is durable
    kind,       \* kind[r] \in {"read", "write"}
    phase,      \* how far r has got
    seen,       \* the value a read request has picked up, until it answers
    result      \* the value it returned (Absent before it did)

vars == <<file, tearable, kind, phase, seen, result>>

Init ==
    /\ file \in Initial
    /\ tearable = {}
    /\ kind \in [Request -> {"read", "write"}]
    /\ phase = [r \in Request |-> "new"]
    /\ seen = [r \in Request |-> Absent]
    /\ result = [r \in Request |-> Absent]

Step(r, from, to) ==
    /\ phase[r] = from
    /\ phase' = [phase EXCEPT ![r] = to]

Forget(r) == seen' = [seen EXCEPT ![r] = Absent]

Call(r) ==
    /\ Step(r, "new", "open")
    /\ UNCHANGED <<file, tearable, kind, seen, result>>

\* The whole payload arrives at once, and never on top of a directory.
Write(r) ==
    /\ Step(r, "open", "applied")
    /\ kind[r] = "write"
    /\ file # Directory
    /\ file' = Payload[r]
    /\ tearable' = {} \/ (r \in Fragile /\ tearable' = Torn[r])
    /\ UNCHANGED <<kind, seen, result>>

Read(r) ==
    /\ Step(r, "open", "applied")
    /\ kind[r] = "read"
    /\ file # Absent
    /\ seen' = [seen EXCEPT ![r] = file]
    /\ UNCHANGED <<file, tearable, kind, result>>

\* A success reply: the write has been applied, or the value returned is the
\* one that was picked up.
Succeed(r) ==
    /\ Step(r, "applied", "ok")
    /\ result' = [result EXCEPT ![r] = seen[r]]
    /\ Forget(r)
    /\ UNCHANGED <<file, tearable, kind>>

\* A read whose answer is cut short of what it announced: no value is returned.
Stop(r) ==
    /\ Step(r, "applied", "short")
    /\ kind[r] = "read"
    /\ Forget(r)
    /\ UNCHANGED <<file, tearable, kind, result>>

\* An error reply: a write that fails has not touched the path.
Fail(r) ==
    /\ \/ Step(r, "open", "err")
       \/ Step(r, "applied", "err") /\ kind[r] = "read"
    /\ Forget(r)
    /\ UNCHANGED <<file, tearable, kind, result>>

\* The process that serves r goes away without a reply.
Lose(r) ==
    /\ Step(r, "open", "lost") \/ Step(r, "applied", "lost")
    /\ Forget(r)
    /\ UNCHANGED <<file, tearable, kind, result>>

\* The whole host does.
Crash ==
    /\ phase' = [r \in Request |->
                    IF phase[r] \in {"open", "applied"} THEN "lost" ELSE phase[r]]
    /\ seen' = [r \in Request |-> Absent]
    /\ file' \in {file} \cup tearable
    /\ UNCHANGED <<tearable, kind, result>>

Next ==
    \/ Crash
    \/ \E r \in Request :
        Call(r) \/ Write(r) \/ Read(r) \/ Succeed(r) \/ Stop(r) \/ Fail(r) \/ Lose(r)

Spec == Init /\ [][Next]_vars
=============================================================================
