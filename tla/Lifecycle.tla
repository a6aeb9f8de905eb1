------------------------------ MODULE Lifecycle ------------------------------
(***************************************************************************)
(* How the daemon comes up, how the init script finds it again, and how it *)
(* goes down: main() from bind() to the accept loop, daemonize(),          *)
(* writePidFile(), termHandler() and performShutdown() in HeliosAgent.cpp, *)
(* and start, stop and restart of init/heliosAgent.                        *)
(*                                                                         *)
(* A process is a pid with the place it has reached:                       *)
(*   "main"     started by the script, not bound yet                       *)
(*   "bound"    has the listening socket, not detached                     *)
(*   "session"  the child of the first fork()                              *)
(*   "daemon"   the child of the second: the daemon, no pidfile yet        *)
(*   "open"     has created the pidfile but not written its pid            *)
(*   "serving"  in the accept loop                                         *)
(*   "forked"   the child of a connection, listening socket still open     *)
(*   "child"    the child of a connection                                  *)
(*   "halting"  a child that runs the shutdown command                     *)
(*   "leaving"  in termHandler(), past unlink()                            *)
(*   "other"    an unrelated process that has got the pid of one that left *)
(*   "free"     nobody                                                     *)
(* A connection that the daemon serves itself is in Server.tla.            *)
(***************************************************************************)
EXTENDS Naturals, FiniteSets

CONSTANTS
    Pid,          \* process ids, which are used again
    Script,       \* people and rc files that run the init script
    Absent,       \* content of the pidfile: there is none
    Empty,        \* content of the pidfile: nothing in it
    Faults,       \* what may go wrong: see Fault
    MaxFaults,    \* bound: kinds of faults in one behaviour
    MaxCmds,      \* bound: init script commands
    MaxChildren   \* bound: connections served at a time

Fault == {"fork",      \* fork() fails while the daemon detaches
          "open",      \* the pidfile cannot be created
          "shutdown",  \* the shutdown command fails
          "termChild", \* somebody sends SIGTERM to a connection's child
          "crash",     \* a process is killed
          "late",      \* a SIGTERM has not been handled by the next command
                       \* of the script, or in the `sleep 1` of restart
          "overlap",   \* the init script is run twice at the same time
          "reuse"}     \* a pid is used again, by anyone, while a script that
                       \* has read it is about to signal it

ASSUME NameAssumption == Absent # Empty /\ Absent \notin Pid /\ Empty \notin Pid
ASSUME FaultAssumption == Faults \subseteq Fault
ASSUME BoundAssumption ==
    MaxFaults \in Nat /\ MaxCmds \in Nat /\ MaxChildren \in Nat

VARIABLES
    pc,       \* pc[p]: where process p is
    holds,    \* processes with the listening socket open
    gpath,    \* processes in which g_pidPath is set
    pidfile,  \* content of the pidfile
    mine,     \* processes whose open pidfile is still the one at the path
    term,     \* processes with a SIGTERM to handle
    step,     \* step[s]: where the init script run by s is
    cmd,      \* cmd[s]: its argument
    target,   \* target[s]: what `cat $PIDFILE` printed, or the process awaited
    started,  \* scripts whose last command said "heliosAgent started"
    cmds,     \* commands so far
    down,     \* the machine has gone down
    hit       \* history: the faults so far

procVars   == <<pc, holds, gpath, term>>
fileVars   == <<pidfile, mine>>
scriptVars == <<step, cmd, target, started, cmds>>
world == <<down, hit>>
vars == <<procVars, fileVars, scriptVars, world>>

Place == {"free", "main", "bound", "session", "daemon", "open", "serving",
          "forked", "child", "halting", "leaving", "other"}
Detached == {"session", "daemon", "open", "serving"}

Init ==
    /\ pc = [p \in Pid |-> "free"]
    /\ holds = {} /\ gpath = {} /\ term = {}
    /\ pidfile = Absent /\ mine = {}
    /\ step = [s \in Script |-> "idle"]
    /\ cmd = [s \in Script |-> "start"]
    /\ target = [s \in Script |-> Empty]
    /\ started = {}
    /\ cmds = 0
    /\ down = FALSE
    /\ hit = {}

\* Faults F happen.
Hit(F) ==
    /\ F \subseteq Faults
    /\ hit' = hit \cup F /\ Cardinality(hit') <= MaxFaults
    /\ UNCHANGED down

At(p, place) == pc' = [pc EXCEPT ![p] = place]

\* The kernel gives the free pid p to a new process.
Takes(p) ==
    /\ pc[p] = "free"
    /\ Hit({f \in {"reuse"} : \E s \in Script : step[s] = "kill" /\ target[s] = p})

\* Process p ends: its descriptors, variables and pending signals go with it.
Gone(p) ==
    /\ At(p, "free")
    /\ holds' = holds \ {p}
    /\ gpath' = gpath \ {p}
    /\ term' = term \ {p}

\* The script that started p, if one still waits for it, goes on.
Awaits(s, p) == step[s] = "wait" /\ target[s] = p
Return(p, said) ==
    /\ step' = [s \in Script |-> IF Awaits(s, p) THEN "idle" ELSE step[s]]
    /\ started' = started \cup {s \in Script : said /\ Awaits(s, p)}
    /\ UNCHANGED <<cmd, target, cmds>>

Unlink == pidfile' = Absent /\ mine' = {}

(***************************************************************************)
(* The init script.                                                        *)
(***************************************************************************)

\* Nobody is about to leave, or to close an inherited listening socket.
Settled == \A p \in Pid : p \notin term /\ pc[p] \notin {"leaving", "forked"}

\* The faults of a script that goes on: a signal has not been handled yet, or
\* somebody else is using the script.
Disturbed(s) ==
    {f \in {"late"} : ~Settled} \cup
    {f \in {"overlap"} : \E t \in Script \ {s} : step[t] # "idle"}

Invoke(s, c) ==
    /\ step[s] = "idle" /\ cmds < MaxCmds
    /\ Hit(Disturbed(s))
    /\ cmds' = cmds + 1
    /\ cmd' = [cmd EXCEPT ![s] = c]
    /\ step' = [step EXCEPT ![s] = IF c = "start" THEN "launch" ELSE "test"]
    /\ started' = started \ {s}
    /\ UNCHANGED <<procVars, fileVars, target>>

\* What a script does once it is through with stop.
AfterStop(s) == IF cmd[s] = "restart" THEN "sleep" ELSE "idle"

\* [ -f "$PIDFILE" ]
StopTest(s) ==
    /\ step[s] = "test"
    /\ step' = [step EXCEPT ![s] = IF pidfile = Absent THEN AfterStop(s) ELSE "cat"]
    /\ UNCHANGED <<procVars, fileVars, cmd, target, started, cmds, world>>

\* PID=`cat "$PIDFILE"`, which may have gone or be empty by now
StopCat(s) ==
    /\ step[s] = "cat"
    /\ step' = [step EXCEPT ![s] = "kill"]
    /\ target' = [target EXCEPT ![s] = IF pidfile \in Pid THEN pidfile ELSE Empty]
    /\ UNCHANGED <<procVars, fileVars, cmd, started, cmds, world>>

\* kill -TERM "$PID" 2>/dev/null
StopKill(s) ==
    /\ step[s] = "kill"
    /\ step' = [step EXCEPT ![s] = AfterStop(s)]
    /\ term' = term \cup {p \in {target[s]} \cap Pid : pc[p] # "free"}
    /\ UNCHANGED <<pc, holds, gpath, fileVars, cmd, target, started, cmds, world>>

\* Mutant of Sleep: no time passes.
Sleep_None(s) ==
    /\ step[s] = "sleep"
    /\ step' = [step EXCEPT ![s] = "launch"]
    /\ UNCHANGED <<procVars, fileVars, cmd, target, started, cmds, world>>

\* sleep 1, between the stop and the start of a restart
Sleep(s) ==
    /\ step[s] = "sleep"
    /\ Hit(Disturbed(s))
    /\ step' = [step EXCEPT ![s] = "launch"]
    /\ UNCHANGED <<procVars, fileVars, cmd, target, started, cmds>>

\* "$BIN" -d ...: the script waits for the process it starts
Launch(s) ==
    /\ step[s] = "launch"
    /\ \E p \in Pid :
        /\ Takes(p)
        /\ At(p, "main")
        /\ target' = [target EXCEPT ![s] = p]
    /\ step' = [step EXCEPT ![s] = "wait"]
    /\ UNCHANGED <<holds, gpath, term, fileVars, cmd, started, cmds>>

(***************************************************************************)
(* main(), up to the accept loop.                                          *)
(***************************************************************************)

\* server.bind(), server.listen(): one process at a time may listen.
Bind(p) ==
    /\ pc[p] = "main" /\ holds = {}
    /\ At(p, "bound")
    /\ holds' = {p}
    /\ UNCHANGED <<gpath, term, fileVars, scriptVars, world>>

\* Mutant of BindFails: what performShutdown() and termHandler() do is done
\* on this exit too.
BindFails_Cleans(p) ==
    /\ pc[p] = "main" /\ holds # {}
    /\ Gone(p)
    /\ Return(p, FALSE)
    /\ Unlink
    /\ UNCHANGED world

\* Mutant of BindFails: the exception is caught and main() goes on.
BindFails_GoesOn(p) ==
    /\ pc[p] = "main" /\ holds # {}
    /\ At(p, "bound")
    /\ UNCHANGED <<holds, gpath, term, fileVars, scriptVars, world>>

\* It throws: exit 1, before anything else has been touched.
BindFails(p) ==
    /\ pc[p] = "main" /\ holds # {}
    /\ Gone(p)
    /\ Return(p, FALSE)
    /\ UNCHANGED <<fileVars, world>>

\* daemonize(): a child goes on with the socket, the parent exits 0.
Detach(p, place) ==
    \E q \in Pid :
        /\ Takes(q)
        /\ pc' = [pc EXCEPT ![p] = "free", ![q] = place]
        /\ holds' = (holds \ {p}) \cup {q}
        /\ term' = term \ {p}

FirstFork(p) ==
    /\ pc[p] = "bound"
    /\ Detach(p, "session")
    /\ Return(p, TRUE)
    /\ UNCHANGED <<gpath, fileVars>>

FirstForkFails(p) ==
    /\ pc[p] = "bound"
    /\ Gone(p)
    /\ Return(p, FALSE)
    /\ UNCHANGED fileVars
    /\ Hit({"fork"})

\* Mutant of SecondFork: `pid >= 0`, and the child leaves as well.
SecondFork_BothLeave(p) ==
    /\ pc[p] = "session"
    /\ Gone(p)
    /\ UNCHANGED <<fileVars, scriptVars, world>>

SecondFork(p) ==
    /\ pc[p] = "session"
    /\ Detach(p, "daemon")
    /\ UNCHANGED <<gpath, fileVars, scriptVars>>

SecondForkFails(p) ==
    /\ pc[p] = "session"
    /\ Gone(p)
    /\ UNCHANGED <<fileVars, scriptVars>>
    /\ Hit({"fork"})

\* Mutant of OpenPidFile: g_pidPath is never set.
OpenPidFile_NoPath(p) ==
    /\ pc[p] = "daemon"
    /\ At(p, "open")
    /\ pidfile' = Empty /\ mine' = mine \cup {p}
    /\ UNCHANGED <<holds, gpath, term, scriptVars, world>>

\* g_pidPath = pidPath; fopen( path, "w" ) creates the file or empties it.
OpenPidFile(p) ==
    /\ pc[p] = "daemon"
    /\ At(p, "open")
    /\ gpath' = gpath \cup {p}
    /\ pidfile' = Empty /\ mine' = mine \cup {p}
    /\ UNCHANGED <<holds, term, scriptVars, world>>

OpenPidFileFails(p) ==
    /\ pc[p] = "daemon"
    /\ At(p, "serving")
    /\ gpath' = gpath \cup {p}
    /\ UNCHANGED <<holds, term, fileVars, scriptVars>>
    /\ Hit({"open"})

\* fclose() writes the pid into the file that was opened, linked or not.
WritePidFile(p) ==
    /\ pc[p] = "open"
    /\ At(p, "serving")
    /\ pidfile' = IF p \in mine THEN p ELSE pidfile
    /\ mine' = mine \ {p}
    /\ UNCHANGED <<holds, gpath, term, scriptVars, world>>

(***************************************************************************)
(* The daemon at work.                                                     *)
(***************************************************************************)

Children == {q \in Pid : pc[q] \in {"forked", "child", "halting"}}

\* accept() and fork(): the child starts with all the daemon has.
Accept(p) ==
    /\ pc[p] = "serving" /\ Cardinality(Children) < MaxChildren
    /\ \E q \in Pid :
        /\ Takes(q)
        /\ At(q, "forked")
        /\ holds' = holds \cup {q}
        /\ gpath' = gpath \cup {q}
    /\ UNCHANGED <<term, fileVars, scriptVars>>

\* The child: server.close().
CloseServer(q) ==
    /\ pc[q] = "forked"
    /\ At(q, "child")
    /\ holds' = holds \ {q}
    /\ UNCHANGED <<gpath, term, fileVars, scriptVars, world>>

ChildDone(q) ==
    /\ pc[q] = "child"
    /\ Gone(q)
    /\ UNCHANGED <<fileVars, scriptVars, world>>

\* performShutdown(): unlink( g_pidPath ), then the command.
Shutdown(q) ==
    /\ pc[q] = "child"
    /\ At(q, "halting")
    /\ Unlink
    /\ UNCHANGED <<holds, gpath, term, scriptVars, world>>

HaltWorks(q) ==
    /\ pc[q] = "halting"
    /\ down' = TRUE
    /\ UNCHANGED <<procVars, fileVars, scriptVars, hit>>

\* rc != 0: a line in the log, and the child exits.
HaltFails(q) ==
    /\ pc[q] = "halting"
    /\ Gone(q)
    /\ UNCHANGED <<fileVars, scriptVars>>
    /\ Hit({"shutdown"})

Alive(p) == pc[p] \notin {"free", "other", "leaving"}

\* Mutant of TermUnlink: the file stays.
TermUnlink_Keeps(p) ==
    /\ p \in term /\ Alive(p)
    /\ At(p, "leaving")
    /\ UNCHANGED <<holds, gpath, term, fileVars, scriptVars, world>>

\* termHandler(): whichever process it runs in removes the pidfile, ...
TermUnlink(p) ==
    /\ p \in term /\ Alive(p)
    /\ At(p, "leaving")
    /\ IF p \in gpath THEN Unlink ELSE UNCHANGED fileVars
    /\ UNCHANGED <<holds, gpath, term, scriptVars, world>>

\* ... then _exit( 0 ).
TermExit(p) ==
    /\ pc[p] = "leaving"
    /\ Gone(p)
    /\ Return(p, TRUE)
    /\ UNCHANGED <<fileVars, world>>

\* SIGTERM ends an unrelated process too.
TermOther(p) ==
    /\ p \in term /\ pc[p] = "other"
    /\ Gone(p)
    /\ UNCHANGED <<fileVars, scriptVars, world>>

(***************************************************************************)
(* The rest of the world.                                                  *)
(***************************************************************************)

SignalChild(q) ==
    /\ pc[q] \in {"forked", "child", "halting"}
    /\ term' = term \cup {q}
    /\ UNCHANGED <<pc, holds, gpath, fileVars, scriptVars>>
    /\ Hit({"termChild"})

Crash(p) ==
    /\ pc[p] \in Detached \cup {"forked", "child"}
    /\ Gone(p)
    /\ mine' = mine \ {p}
    /\ UNCHANGED <<pidfile, scriptVars>>
    /\ Hit({"crash"})

Stranger(p) ==
    /\ "reuse" \in Faults /\ Takes(p)
    /\ \A q \in Pid : pc[q] # "other"
    /\ At(p, "other")
    /\ UNCHANGED <<holds, gpath, term, fileVars, scriptVars>>

StrangerLeaves(p) ==
    /\ pc[p] = "other"
    /\ Gone(p)
    /\ UNCHANGED <<fileVars, scriptVars, world>>

ScriptStep(s) == StopTest(s) \/ StopCat(s) \/ StopKill(s) \/ Sleep(s) \/ Launch(s)

\* What a process does by itself, without being asked by a client.
Own(p) ==
    \/ Bind(p) \/ BindFails(p)
    \/ FirstFork(p) \/ FirstForkFails(p) \/ SecondFork(p) \/ SecondForkFails(p)
    \/ OpenPidFile(p) \/ OpenPidFileFails(p) \/ WritePidFile(p)
    \/ CloseServer(p)
    \/ TermUnlink(p) \/ TermExit(p) \/ TermOther(p)

Served(p) == Accept(p) \/ ChildDone(p) \/ Shutdown(p) \/ HaltWorks(p) \/ HaltFails(p)

World(p) == SignalChild(p) \/ Crash(p) \/ Stranger(p) \/ StrangerLeaves(p)

Next ==
    /\ ~down
    /\ \/ \E s \in Script :
            \/ \E c \in {"start", "stop", "restart"} : Invoke(s, c)
            \/ ScriptStep(s)
       \/ \E p \in Pid : Own(p) \/ Served(p) \/ World(p)

Spec == Init /\ [][Next]_vars

\* Fairness: the scripts run to their end and the processes keep running;
\* clients, administrators and the shutdown command need do nothing.
Fairness ==
    /\ \A s \in Script : WF_vars(~down /\ ScriptStep(s))
    /\ \A p \in Pid : WF_vars(~down /\ Own(p))

FairSpec == Spec /\ Fairness

(***************************************************************************)
(* Properties.                                                             *)
(***************************************************************************)

TypeOK ==
    /\ pc \in [Pid -> Place]
    /\ holds \subseteq Pid /\ gpath \subseteq Pid /\ term \subseteq Pid
    /\ mine \subseteq Pid
    /\ pidfile \in Pid \cup {Absent, Empty}
    /\ step \in [Script -> {"idle", "test", "cat", "kill", "sleep", "launch", "wait"}]
    /\ cmd \in [Script -> {"start", "stop", "restart"}]
    /\ target \in [Script -> Pid \cup {Empty}]
    /\ started \subseteq Script
    /\ cmds \in 0..MaxCmds
    /\ down \in BOOLEAN /\ hit \subseteq Faults

Serving == {p \in Pid : pc[p] = "serving"}
Halting == \E q \in Pid : pc[q] = "halting"

\* A daemon that serves can be found: unless the machine is being shut down,
\* the pidfile has its pid (writePidFile: "record our pid so an init
\* stop/K-script can find us").  Not so once the file could not be made, after
\* a shutdown command that failed, and after a SIGTERM to the child of a
\* connection, which may have got the pid that a script has read.
Findable ==
    hit \cap {"open", "shutdown", "termChild", "reuse"} = {} =>
        \A p \in Serving : pidfile = p \/ Halting \/ down

\* The pid in the pidfile is that of a daemon in its accept loop, never of a
\* process that has left: termHandler() unlinks before it exits, and whoever
\* left did so before the next one could bind.  Only a crash leaves it there.
NoStalePid == pidfile \in Pid /\ "crash" \notin hit => pc[pidfile] = "serving"

\* At most one daemon, bound or detached, at any time, and it is the one that
\* holds the listening socket: bind() comes first and one process can do it.
OneDaemon ==
    \A p, q \in Pid :
        pc[p] \in Detached \cup {"bound"} =>
            /\ p \in holds
            /\ pc[q] \in Detached \cup {"bound"} => p = q

\* The init script sends its signal to a daemon that serves, or to nobody, also
\* when pids are used again at once: as long as one run of it follows the other
\* and no process is killed.
SignalsADaemon ==
    [][\A s \in Script, p \in Pid :
        (/\ hit \cap {"late", "overlap", "crash"} = {}
         /\ p \in term' \ term /\ step[s] = "kill" /\ step'[s] # "kill") =>
            pc[p] = "serving"]_vars

\* Once the script has said "heliosAgent started" a daemon gets to serve,
\* unless the script is used again first.  When the second fork() fails nobody
\* serves, although the script has been told of success.
StartedServes ==
    \A s \in Script :
        (s \in started) ~> (Serving # {} \/ s \notin started \/ down \/ "fork" \in hit)

\* A start, and the start of a restart after the old daemon has left, leads to
\* a daemon that serves.
LaunchServes ==
    \A s \in Script :
        (step[s] = "launch") ~> (Serving # {} \/ down \/ "fork" \in hit)

=============================================================================
