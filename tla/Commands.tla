------------------------------ MODULE Commands ------------------------------
(***************************************************************************)
(* The commands the agent starts, and who waits for them: run_command and  *)
(* search (verbRun, verbSearch in Verbs.cpp), the forking and the SIGCHLD  *)
(* handling of main() and reapChildren() in HeliosAgent.cpp.               *)
(*                                                                         *)
(* The processes that serve are the daemon and one child per connection,   *)
(* which is named by its connection.  Each connection makes one request,   *)
(* which starts one command.  A process that ends is a zombie until its    *)
(* parent waits for it, either in SIGCHLD's handler or, for a command, in  *)
(* CxProcess, which is not in the repository: it starts the command,       *)
(* collects its output, kills it at its deadline (if it has one) and waits *)
(* for it with waitpid().                                                  *)
(*                                                                         *)
(* A SIGCHLD that comes while one is pending adds nothing.  On the         *)
(* System V hosts delivering it resets the handler, SIGCHLDs are discarded *)
(* until the handler sets itself again, and doing so posts one when a      *)
(* child is a zombie; on the BSD hosts they are held back meanwhile.       *)
(***************************************************************************)
EXTENDS Integers, Sequences, FiniteSets

CONSTANTS
    Conn,          \* connections, and the children that serve them
    Daemon,        \* the daemon
    Nobody,        \* who serves a connection that has not been accepted
    Workload,      \* the requests there may be: functions to Calls
    System,        \* "svr4", "bsd"
    Status,        \* exit statuses of commands
    Number,        \* values of "timeout_ms" and "max" in a request
    Absent,        \* a request without the field
    DefaultLimit,  \* 60000, for search
    DefaultMax     \* 1000

Server == Conn \cup {Daemon}

\* What grep prints: matches, and lines that are not file:line:text, as in
\* "Binary file x matches".
Line == {"match", "note"}
Calls == [verb : {"run_command", "search"},
          good : BOOLEAN,                    \* has its "cmd" or "pattern", and
                                             \* no unknown "user"
          limit : Number \cup {Absent},      \* "timeout_ms"
          max : Number \cup {Absent},        \* "max"
          text : Seq(Line)]                  \* what the command prints in full

ASSUME NameAssumption == Daemon \notin Conn /\ Nobody \notin Server
ASSUME NumberAssumption == Number \subseteq Int /\ Absent \notin Number
ASSUME StatusAssumption == Status \subseteq Nat /\ {0, 1, 2} \subseteq Status
ASSUME WorkloadAssumption == Workload \subseteq [Conn -> Calls]
ASSUME SystemAssumption == System \subseteq {"svr4", "bsd"}
ASSUME DefaultAssumption ==
    DefaultLimit \in Nat \ {0} /\ DefaultMax \in Nat \ {0}

VARIABLES
    system,   \* which host this is
    call,     \* call[c]: the request
    by,       \* by[c]: the process that serves connection c
    child,    \* child[c]: life of the child forked for c
    cmd,      \* cmd[c]: life of the command c's request starts
    status,   \* status[c]: what that command ended with
    sent,     \* sent[c]: lines it has printed
    expired,  \* expired[c]: it was killed at its deadline
    step,     \* step[c]: where the request is
    rc,       \* rc[c]: what getExitCode() returned
    at,       \* at[c]: lines of grep's output that have been parsed
    count,    \* count[c]: matches that were taken
    truncated,\* truncated[c]: there was one more
    disp,     \* disp[p]: disposition of SIGCHLD in p
    pending,  \* processes with a SIGCHLD to handle
    hand      \* hand[p]: where p is in reapChildren()

parse   == <<at, count, truncated>>
result  == <<rc, parse>>
works   == <<by, child, cmd, status, sent, expired, step, result>>
signals == <<disp, pending, hand>>
vars    == <<system, call, works, signals>>

Life == {"none", "runs", "zombie", "reaped"}
Code == Status \cup {-1}

Init ==
    /\ system \in System
    /\ call \in Workload
    /\ by = [c \in Conn |-> Nobody]
    /\ child = [c \in Conn |-> "none"]
    /\ cmd = [c \in Conn |-> "none"]
    /\ status = [c \in Conn |-> 0]
    /\ sent = [c \in Conn |-> 0]
    /\ expired = [c \in Conn |-> FALSE]
    /\ step = [c \in Conn |-> "new"]
    /\ rc = [c \in Conn |-> 0]
    /\ at = [c \in Conn |-> 0]
    /\ count = [c \in Conn |-> 0]
    /\ truncated = [c \in Conn |-> FALSE]
    /\ disp = [p \in Server |-> "reap"]
    /\ pending = {}
    /\ hand = [p \in Server |-> "main"]

Goto(c, s) == step' = [step EXCEPT ![c] = s]

\* p goes on with its own work when it is not in a handler.
Free(p) == hand[p] = "main"
Alive(p) == p = Daemon \/ (p \in Conn /\ child[p] = "runs")

\* The daemon accepts nobody while it serves somebody itself.
Accepting ==
    /\ Free(Daemon)
    /\ \A c \in Conn : by[c] = Daemon => step[c] = "closed"

\* A child of p has ended: p gets a SIGCHLD, which the default ignores.
Signal(p) == pending' = IF disp[p] = "reap" THEN pending \cup {p} ELSE pending

HasZombie(p) ==
    \E c \in Conn : \/ p = Daemon /\ child[c] = "zombie"
                    \/ by[c] = p /\ cmd[c] = "zombie"

(***************************************************************************)
(* The accept loop and the life of a connection.                           *)
(***************************************************************************)

\* fork() works; the child starts with the daemon's handler ...
Fork(c) ==
    /\ by[c] = Nobody /\ Accepting
    /\ by' = [by EXCEPT ![c] = c]
    /\ child' = [child EXCEPT ![c] = "runs"]
    /\ disp' = [disp EXCEPT ![c] = disp[Daemon]]
    /\ Goto(c, "forked")
    /\ UNCHANGED <<system, call, cmd, status, sent, expired, result, pending,
                   hand>>

\* Mutant of Restore: the child keeps the handler.
Restore_Skipped(c) ==
    /\ step[c] = "forked" /\ Alive(c) /\ Free(c)
    /\ Goto(c, "ready")
    /\ UNCHANGED <<system, call, by, child, cmd, status, sent, expired, result,
                   signals>>

\* ... closes the listening socket, and gives SIGCHLD back to the default.
Restore(c) ==
    /\ step[c] = "forked" /\ Alive(c) /\ Free(c)
    /\ disp' = [disp EXCEPT ![c] = "default"]
    /\ Goto(c, "ready")
    /\ UNCHANGED <<system, call, by, child, cmd, status, sent, expired, result,
                   pending, hand>>

\* fork() fails: the daemon serves the connection itself, handler and all.
ForkFails(c) ==
    /\ by[c] = Nobody /\ Accepting
    /\ by' = [by EXCEPT ![c] = Daemon]
    /\ Goto(c, "ready")
    /\ UNCHANGED <<system, call, child, cmd, status, sent, expired, result,
                   signals>>

\* The client has its reply and leaves: a child exits, the daemon goes back to
\* its accept loop.
Leave(c) ==
    /\ step[c] = "answered" /\ Alive(by[c]) /\ Free(by[c])
    /\ Goto(c, "closed")
    /\ IF by[c] = Daemon
       THEN UNCHANGED <<child, pending>>
       ELSE /\ child' = [child EXCEPT ![c] = "zombie"]
            /\ Signal(Daemon)
    /\ UNCHANGED <<system, call, by, cmd, status, sent, expired, result, disp,
                   hand>>

(***************************************************************************)
(* run_command and search.                                                 *)
(***************************************************************************)

\* The verb has the command's status: search parses, run_command answers.
Collected(c, code) ==
    /\ rc' = [rc EXCEPT ![c] = code]
    /\ Goto(c, IF call[c].verb = "search" THEN "parse" ELSE "answered")

\* CxProcess forks the command.
Spawn(c) ==
    /\ cmd' = [cmd EXCEPT ![c] = "runs"]
    /\ Goto(c, "waits")
    /\ UNCHANGED <<system, call, by, child, status, sent, expired, result,
                   signals>>

\* CxProcess cannot start it: run()'s result is ignored, and the verb goes on
\* with no output and what getExitCode() then reports, which is not known.
SpawnFails(c) ==
    /\ \E code \in Code : Collected(c, code)
    /\ UNCHANGED <<system, call, by, child, cmd, status, sent, expired, parse,
                   signals>>

\* A request without its required field, or for a user there is not.
Refused(c) ==
    /\ ~call[c].good
    /\ Goto(c, "answered")
    /\ UNCHANGED <<system, call, by, child, cmd, status, sent, expired, result,
                   signals>>

Ready(c) == step[c] = "ready" /\ Alive(by[c]) /\ Free(by[c])

RunCommand(c) ==
    /\ Ready(c) /\ call[c].verb = "run_command"
    /\ \/ Refused(c)
       \/ call[c].good /\ (Spawn(c) \/ SpawnFails(c))

Search(c) ==
    /\ Ready(c) /\ call[c].verb = "search"
    /\ \/ Refused(c)
       \/ call[c].good /\ (Spawn(c) \/ SpawnFails(c))

\* The timeout CxProcess is given; 0 or less is none.
RunLimit(k) == IF k.limit = Absent THEN 0 ELSE k.limit

\* Mutant of SearchLimit: the request's timeout is taken as it is.
SearchLimit_AsGiven(k) == IF k.limit = Absent THEN DefaultLimit ELSE k.limit

\* search has a bound whatever is asked for.
SearchLimit(k) ==
    IF k.limit # Absent /\ k.limit > 0 THEN k.limit ELSE DefaultLimit

SearchMax(k) == IF k.max # Absent /\ k.max > 0 THEN k.max ELSE DefaultMax

Limit(c) == IF call[c].verb = "search" THEN SearchLimit(call[c])
            ELSE RunLimit(call[c])

\* waitpid() in CxProcess: the command's own status, or -1 when it was killed
\* at the deadline.
Collect(c) ==
    /\ step[c] = "waits" /\ Alive(by[c]) /\ Free(by[c])
    /\ cmd[c] = "zombie"
    /\ cmd' = [cmd EXCEPT ![c] = "reaped"]
    /\ Collected(c, IF expired[c] THEN -1 ELSE status[c])
    /\ UNCHANGED <<system, call, by, child, status, sent, expired, parse,
                   signals>>

\* There is nothing left to wait for: what CxProcess then reports is not known.
CollectFails(c) ==
    /\ step[c] = "waits" /\ Alive(by[c]) /\ Free(by[c])
    /\ cmd[c] = "reaped"
    /\ \E code \in Code : Collected(c, code)
    /\ UNCHANGED <<system, call, by, child, cmd, status, sent, expired, parse,
                   signals>>

\* The loop over the output is only for status 0, 1 and the -1 of a deadline,
\* and ends with it or with the match that is one too many.
MoreLines(c) == rc[c] <= 1 /\ ~truncated[c] /\ at[c] < sent[c]

Parsing(c) == step[c] = "parse" /\ Alive(by[c]) /\ Free(by[c])

\* Mutant of ParseLine: `truncated` is set when "max" is reached.
ParseLine_Full(c) ==
    /\ Parsing(c) /\ MoreLines(c)
    /\ at' = [at EXCEPT ![c] = @ + 1]
    /\ IF call[c].text[at[c] + 1] = "match"
       THEN /\ count' = [count EXCEPT ![c] = @ + 1]
            /\ truncated' = [truncated EXCEPT ![c] =
                               count[c] + 1 >= SearchMax(call[c])]
       ELSE UNCHANGED <<count, truncated>>
    /\ UNCHANGED <<system, call, by, child, cmd, status, sent, expired, step,
                   rc, signals>>

\* One line: a match is taken while there is room for it.
ParseLine(c) ==
    /\ Parsing(c) /\ MoreLines(c)
    /\ at' = [at EXCEPT ![c] = @ + 1]
    /\ IF call[c].text[at[c] + 1] # "match" THEN UNCHANGED <<count, truncated>>
       ELSE IF count[c] >= SearchMax(call[c])
       THEN truncated' = [truncated EXCEPT ![c] = TRUE] /\ UNCHANGED count
       ELSE count' = [count EXCEPT ![c] = @ + 1] /\ UNCHANGED truncated
    /\ UNCHANGED <<system, call, by, child, cmd, status, sent, expired, step,
                   rc, signals>>

ParseDone(c) ==
    /\ Parsing(c) /\ ~MoreLines(c)
    /\ Goto(c, "answered")
    /\ UNCHANGED <<system, call, by, child, cmd, status, sent, expired, result,
                   signals>>

\* A grep that failed is reported as an error; run_command is ok whatever the
\* command's status.
GrepFailed(c) == rc[c] >= 2
Ok(c) == call[c].good /\ (call[c].verb = "search" => ~GrepFailed(c))

(***************************************************************************)
(* The command, which may run for ever.                                    *)
(***************************************************************************)

Prints(c) ==
    /\ cmd[c] = "runs" /\ sent[c] < Len(call[c].text)
    /\ sent' = [sent EXCEPT ![c] = @ + 1]
    /\ UNCHANGED <<system, call, by, child, cmd, status, expired, step, result,
                   signals>>

\* The command ends: its parent has a zombie, or init takes it.
End(c) ==
    /\ cmd' = [cmd EXCEPT ![c] = IF Alive(by[c]) THEN "zombie" ELSE "reaped"]
    /\ IF Alive(by[c]) THEN Signal(by[c]) ELSE UNCHANGED pending

\* grep exits 0 or 1 when it has printed everything, and with 2 or more when
\* it fails or is killed; of other commands nothing is known.
Exits(c, s) ==
    call[c].verb = "search" /\ s < 2 =>
        sent[c] = Len(call[c].text) /\ (s = 0 <=> call[c].text # <<>>)

Exit(c) ==
    /\ cmd[c] = "runs"
    /\ \E s \in Status : Exits(c, s) /\ status' = [status EXCEPT ![c] = s]
    /\ End(c)
    /\ UNCHANGED <<system, call, by, child, sent, expired, step, result, disp,
                   hand>>

\* The deadline: CxProcess kills the command.
Expire(c) ==
    /\ step[c] = "waits" /\ cmd[c] = "runs"
    /\ Alive(by[c]) /\ Limit(c) > 0
    /\ expired' = [expired EXCEPT ![c] = TRUE]
    /\ End(c)
    /\ UNCHANGED <<system, call, by, child, status, sent, step, result, disp,
                   hand>>

\* A connection's child is killed; its command goes on without it.
Crash(c) ==
    /\ child[c] = "runs"
    /\ child' = [child EXCEPT ![c] = "zombie"]
    /\ cmd' = [cmd EXCEPT ![c] = IF @ = "zombie" THEN "reaped" ELSE @]
    /\ Signal(Daemon)
    /\ UNCHANGED <<system, call, by, status, sent, expired, step, result, disp,
                   hand>>

(***************************************************************************)
(* SIGCHLD and its handler.                                                *)
(***************************************************************************)

Deliver(p) ==
    /\ p \in pending /\ disp[p] = "reap" /\ Free(p) /\ Alive(p)
    /\ pending' = pending \ {p}
    /\ hand' = [hand EXCEPT ![p] = "drain"]
    /\ disp' = IF system = "svr4" THEN [disp EXCEPT ![p] = "default"] ELSE disp
    /\ UNCHANGED <<system, call, works>>

\* waitpid( -1, WNOHANG ) takes any zombie there is.
TakeZombie(p) ==
    \E c \in Conn :
        \/ /\ p = Daemon /\ child[c] = "zombie"
           /\ child' = [child EXCEPT ![c] = "reaped"]
           /\ UNCHANGED cmd
        \/ /\ by[c] = p /\ cmd[c] = "zombie"
           /\ cmd' = [cmd EXCEPT ![c] = "reaped"]
           /\ UNCHANGED child

\* Mutant of Reap: `if` instead of `while`.
Reap_One(p) ==
    /\ hand[p] = "drain" /\ Alive(p)
    /\ TakeZombie(p)
    /\ hand' = [hand EXCEPT ![p] = "rearm"]
    /\ UNCHANGED <<system, call, by, status, sent, expired, step, result, disp,
                   pending>>

\* The loop of reapChildren() ...
Reap(p) ==
    /\ hand[p] = "drain" /\ Alive(p)
    /\ TakeZombie(p)
    /\ UNCHANGED <<system, call, by, status, sent, expired, step, result,
                   signals>>

\* ... ends when no child has exited ...
ReapDone(p) ==
    /\ hand[p] = "drain" /\ Alive(p)
    /\ ~HasZombie(p)
    /\ hand' = [hand EXCEPT ![p] = "rearm"]
    /\ UNCHANGED <<system, call, works, disp, pending>>

\* Mutant of Rearm: the handler is not set again.
Rearm_Missing(p) ==
    /\ hand[p] = "rearm" /\ Alive(p)
    /\ hand' = [hand EXCEPT ![p] = "main"]
    /\ UNCHANGED <<system, call, works, disp, pending>>

\* ... and signal() sets the handler again.
Rearm(p) ==
    /\ hand[p] = "rearm" /\ Alive(p)
    /\ hand' = [hand EXCEPT ![p] = "main"]
    /\ disp' = [disp EXCEPT ![p] = "reap"]
    /\ pending' = IF system = "svr4" /\ HasZombie(p)
                  THEN pending \cup {p} ELSE pending
    /\ UNCHANGED <<system, call, works>>

\* What a connection's server does next.
Serve(c) ==
    \/ Restore(c) \/ RunCommand(c) \/ Search(c)
    \/ Collect(c) \/ CollectFails(c) \/ ParseLine(c) \/ ParseDone(c)
    \/ Leave(c)

reapChildren(p) == Deliver(p) \/ Reap(p) \/ ReapDone(p) \/ Rearm(p)

Next ==
    \/ \E c \in Conn : \/ Fork(c) \/ ForkFails(c) \/ Serve(c)
                       \/ Prints(c) \/ Exit(c) \/ Expire(c) \/ Crash(c)
    \/ \E p \in Server : reapChildren(p)

Spec == Init /\ [][Next]_vars

\* The processes that serve run, and deadlines pass; commands need not do
\* anything, and nobody need connect.
Fairness ==
    /\ \A c \in Conn : WF_vars(Serve(c)) /\ WF_vars(Expire(c))
    /\ \A p \in Server : WF_vars(reapChildren(p))

FairSpec == Spec /\ Fairness

(***************************************************************************)
(* Properties.                                                             *)
(***************************************************************************)

Forked(c) == by[c] = c
Started(c) == cmd[c] # "none"
Told(c) == step[c] \in {"answered", "closed"} /\ call[c].good

\* A request served by a child of its own, and whose command was started, is
\* told what its own command ended with: no other process takes the status (the
\* comment in main() on why the child restores SIGCHLD); -1 says that it was
\* killed at its deadline.
OwnStatus ==
    \A c \in Conn :
        Told(c) /\ Forked(c) /\ Started(c) =>
            rc[c] = IF expired[c] THEN -1 ELSE status[c]

\* Those of the first n lines that are matches.
Matches(text, n) == {k \in 1..n : text[k] = "match"}

\* Whatever a grep that was started does, a search in a child of its own that is
\* ok returns every match, up to "max", and says "truncated" if and only if there
\* are more (PROTOCOL.md on search): all there are, or, when the deadline cut it
\* short, all that were printed by then.  So a grep that ran and failed is not an
\* empty result.  Two searches are excepted, which can be ok and say less: one
\* whose grep could not be started, and one that the daemon serves itself.
SearchHonest ==
    \A c \in Conn :
        call[c].verb = "search" /\ Told(c) /\ Forked(c) /\ Started(c) /\ Ok(c) =>
            LET text == call[c].text
                all  == Cardinality(Matches(text, IF expired[c] THEN sent[c]
                                                  ELSE Len(text)))
                max  == SearchMax(call[c])
            IN  /\ truncated[c] <=> all > max
                /\ count[c] = IF all > max THEN max ELSE all

\* Every process that ends is waited for: neither the children of connections
\* nor commands stay zombies, however their ends coincide with the handler.
AllReaped ==
    \A c \in Conn :
        /\ child[c] = "zombie" ~> child[c] = "reaped"
        /\ cmd[c] = "zombie" ~> cmd[c] = "reaped"

\* A search is answered even if its grep never ends, and so is a run_command
\* with a timeout; unless the process that serves it is killed.
Answered ==
    \A c \in Conn :
        (/\ step[c] = "ready"
         /\ call[c].verb = "search" \/ RunLimit(call[c]) > 0) ~>
            (step[c] \in {"answered", "closed"} \/ ~Alive(by[c]))

(***************************************************************************)
(* The inductive invariant of the proofs.                                  *)
(***************************************************************************)

\* Every variable has its type.
TypeOK ==
    /\ system \in System
    /\ call \in [Conn -> Calls]
    /\ by \in [Conn -> Server \cup {Nobody}]
    /\ child \in [Conn -> Life]
    /\ cmd \in [Conn -> Life]
    /\ status \in [Conn -> Status]
    /\ sent \in [Conn -> Nat]
    /\ expired \in [Conn -> BOOLEAN]
    /\ step \in [Conn -> {"new", "forked", "ready", "waits", "parse",
                          "answered", "closed"}]
    /\ rc \in [Conn -> Code]
    /\ at \in [Conn -> Nat]
    /\ count \in [Conn -> Nat]
    /\ truncated \in [Conn -> BOOLEAN]
    /\ disp \in [Server -> {"reap", "default"}]
    /\ pending \subseteq Server
    /\ hand \in [Server -> {"main", "drain", "rearm"}]

\* A connection is served by a child of its own or by the daemon, and its command,
\* if it is started, lives from the request's start to its answer.
ServedInv ==
    \A c \in Conn :
        /\ by[c] \in {c, Daemon, Nobody}
        /\ by[c] = Nobody <=> step[c] = "new"
        /\ by[c] = c <=> child[c] # "none"
        /\ step[c] = "forked" => by[c] = c
        /\ step[c] \in {"new", "forked", "ready"} => cmd[c] = "none"
        /\ step[c] = "waits" => Started(c)
        /\ Started(c) => call[c].good
        /\ step[c] \in {"parse", "answered", "closed"} =>
            cmd[c] \in {"none", "reaped"}

\* The daemon has its handler set whenever it is not in it, and is never
\* without it on a host that does not reset it.
ArmedInv ==
    /\ hand[Daemon] = "main" => disp[Daemon] = "reap"
    /\ system = "bsd" => disp[Daemon] = "reap"

\* A zombie of the daemon's is not forgotten: a signal is pending, or the
\* handler is at work and will look again.
ZombieInv ==
    HasZombie(Daemon) =>
        \/ Daemon \in pending
        \/ hand[Daemon] = "drain"
        \/ hand[Daemon] = "rearm" /\ system = "svr4"

\* A child that serves is never in the handler: it has no children before it
\* has given SIGCHLD back to the default.
QuietInv ==
    \A c \in Conn :
        /\ hand[c] = "main" /\ c \notin pending
        /\ Forked(c) /\ step[c] # "forked" => disp[c] = "default"

\* So its command is there to be waited for, and what the verb then has is the
\* command's own status, which does not change any more.
WaitInv ==
    \A c \in Conn : Forked(c) =>
        /\ (child[c] = "runs" /\ step[c] = "waits") =>
            cmd[c] \in {"runs", "zombie"}
        /\ (step[c] = "parse" \/ Told(c)) /\ Started(c) =>
            rc[c] = IF expired[c] THEN -1 ELSE status[c]

\* A grep that ended by itself, with matches or without, has printed all.
GrepInv ==
    \A c \in Conn :
        /\ sent[c] <= Len(call[c].text)
        /\ (/\ call[c].verb = "search" /\ cmd[c] \in {"zombie", "reaped"}
            /\ ~expired[c] /\ status[c] < 2) => sent[c] = Len(call[c].text)

\* What has been parsed has been counted, up to "max".
ParseInv ==
    \A c \in Conn :
        LET n   == Cardinality(Matches(call[c].text, at[c]))
            max == SearchMax(call[c])
        IN  /\ at[c] <= sent[c]
            /\ step[c] \in {"new", "forked", "ready", "waits"} => at[c] = 0
            /\ truncated[c] <=> n > max
            /\ count[c] = IF n > max THEN max ELSE n
            /\ (step[c] \in {"answered", "closed"} /\ call[c].verb = "search"
                /\ call[c].good) => ~MoreLines(c)

Inv ==
    /\ TypeOK
    /\ ServedInv
    /\ ArmedInv
    /\ ZombieInv
    /\ QuietInv
    /\ WaitInv
    /\ GrepInv
    /\ ParseInv
=============================================================================
