------------------------------- MODULE Server -------------------------------
(***************************************************************************)
(* The accept loop of main() and handleConnection() in HeliosAgent.cpp.    *)
(*                                                                         *)
(* The daemon accepts a connection and forks a child to serve it; when     *)
(* fork() fails it serves the connection itself.  The serving process      *)
(* reads a line, offers it to the streaming verbs, dispatches it, sends    *)
(* the reply, and stops when a shutdown has been asked for, which it then  *)
(* performs.  The intent is a static variable of the process: a child      *)
(* starts with the value the daemon has when it forks.                     *)
(*                                                                         *)
(* Lines are abstracted to what the loop tells apart:                      *)
(*   "blank"     nothing but CR and LF                                     *)
(*   "stream"    a put_file or get_file that leaves the connection framed  *)
(*   "fatal"     one after which the connection has to be closed           *)
(*   "shutdown"  an authorized shutdown                                    *)
(*   "plain"     any other request, malformed and unauthorized ones too    *)
(* A child is named by the connection it serves.                           *)
(***************************************************************************)
EXTENDS Naturals, Sequences

CONSTANTS
    Conn,         \* client connections
    Main,         \* the daemon process
    MaxLines,     \* bound: lines that clients send
    NoConn        \* "the daemon is handling no connection"

ASSUME NameAssumption == Main \notin Conn /\ NoConn \notin Conn \cup {Main}
ASSUME BoundAssumption == MaxLines \in Nat

Line == {"blank", "stream", "fatal", "shutdown", "plain"}
Proc == Conn \cup {Main}

VARIABLES
    client,   \* client[c]: the client's end: "away", "open" or "closed"
    queue,    \* queue[c]: lines it sent that have not been read
    sent,     \* how many lines have been sent, by all clients
    backlog,  \* connections the kernel holds for accept()
    mainAt,   \* what the daemon is doing
    mainConn, \* the connection it is doing it with
    server,   \* server[c]: the process that serves c (NoConn before)
    pc,       \* pc[c]: where handleConnection( c ) is
    cur,      \* cur[c]: the line being handled
    intent,   \* processes in which s_shutdownRequested is set
    held,     \* held[c]: processes with c's descriptor open
    machine,  \* "up", "going" (shutdown command accepted) or "down"
    asked,    \* history: connections on which a shutdown was dispatched
    acked,    \* history: those whose client was sent the reply to it
    ran,      \* history: connections whose server performed a shutdown
    crashed   \* history: connections whose server process died

clientVars == <<client, queue, sent>>
mainVars   == <<backlog, mainAt, mainConn>>
history    == <<asked, acked, ran, crashed>>
vars == <<clientVars, mainVars, server, pc, cur, intent, held, machine, history>>

Init ==
    /\ client = [c \in Conn |-> "away"]
    /\ queue = [c \in Conn |-> <<>>]
    /\ sent = 0
    /\ backlog = <<>>
    /\ mainAt = "accept" /\ mainConn = NoConn
    /\ server = [c \in Conn |-> NoConn]
    /\ pc = [c \in Conn |-> "none"]
    /\ cur = [c \in Conn |-> "blank"]
    /\ intent = {}
    /\ held = [c \in Conn |-> {}]
    /\ machine = "up"
    /\ asked = {} /\ acked = {} /\ ran = {} /\ crashed = {}

Goto(c, s) == pc' = [pc EXCEPT ![c] = s]

(***************************************************************************)
(* Clients.                                                                *)
(***************************************************************************)

Connect(c) ==
    /\ client[c] = "away"
    /\ client' = [client EXCEPT ![c] = "open"]
    /\ backlog' = Append(backlog, c)
    /\ UNCHANGED <<queue, sent, mainAt, mainConn, server, pc, cur, intent,
                   held, machine, history>>

SendLine(c, l) ==
    /\ client[c] = "open" /\ sent < MaxLines
    /\ queue' = [queue EXCEPT ![c] = Append(@, l)]
    /\ sent' = sent + 1
    /\ UNCHANGED <<client, mainVars, server, pc, cur, intent, held, machine,
                   history>>

Leave(c) ==
    /\ client[c] = "open"
    /\ client' = [client EXCEPT ![c] = "closed"]
    /\ UNCHANGED <<queue, sent, mainVars, server, pc, cur, intent, held,
                   machine, history>>

(***************************************************************************)
(* The daemon's accept loop.                                               *)
(***************************************************************************)

\* server.accept(): the daemon gets a descriptor for the oldest connection.
Accept ==
    /\ mainAt = "accept" /\ backlog # <<>>
    /\ mainAt' = "fork" /\ mainConn' = Head(backlog)
    /\ backlog' = Tail(backlog)
    /\ held' = [held EXCEPT ![Head(backlog)] = {Main}]
    /\ UNCHANGED <<clientVars, server, pc, cur, intent, machine, history>>

\* Mutant of Fork: the parent serves the connection too.
Fork_Serves ==
    LET c == mainConn IN
    /\ mainAt = "fork"
    /\ mainAt' = "inline"
    /\ server' = [server EXCEPT ![c] = c]
    /\ Goto(c, "recv")
    /\ intent' = intent \cup {p \in {c} : Main \in intent}
    /\ held' = [held EXCEPT ![c] = @ \cup {c}]
    /\ UNCHANGED <<clientVars, backlog, mainConn, cur, machine, history>>

\* fork(): the child has a copy of everything, the shutdown intent included.
Fork ==
    LET c == mainConn IN
    /\ mainAt = "fork"
    /\ mainAt' = "release"
    /\ server' = [server EXCEPT ![c] = c]
    /\ Goto(c, "recv")
    /\ intent' = intent \cup {p \in {c} : Main \in intent}
    /\ held' = [held EXCEPT ![c] = @ \cup {c}]
    /\ UNCHANGED <<clientVars, backlog, mainConn, cur, machine, history>>

\* fork() fails: the daemon serves the connection itself.
ForkFails ==
    LET c == mainConn IN
    /\ mainAt = "fork"
    /\ mainAt' = "inline"
    /\ server' = [server EXCEPT ![c] = Main]
    /\ Goto(c, "recv")
    /\ UNCHANGED <<clientVars, backlog, mainConn, cur, intent, held, machine,
                   history>>

InlineDone ==
    /\ mainAt = "inline" /\ pc[mainConn] = "over"
    /\ mainAt' = "release"
    /\ UNCHANGED <<clientVars, backlog, mainConn, server, pc, cur, intent, held,
                   machine, history>>

\* Mutant of Release: the daemon keeps its copy of the descriptor.
Release_Keeps ==
    /\ mainAt = "release"
    /\ mainAt' = "accept" /\ mainConn' = NoConn
    /\ UNCHANGED <<clientVars, backlog, server, pc, cur, intent, held, machine,
                   history>>

\* `conn` goes out of scope: the daemon's copy of the descriptor is closed.
Release ==
    /\ mainAt = "release"
    /\ mainAt' = "accept" /\ mainConn' = NoConn
    /\ held' = [held EXCEPT ![mainConn] = @ \ {Main}]
    /\ UNCHANGED <<clientVars, backlog, server, pc, cur, intent, machine,
                   history>>

(***************************************************************************)
(* handleConnection( c ), in the process server[c].                        *)
(***************************************************************************)

Requested(c) == server[c] \in intent

\* recvUntil( '\n' ); a blank line is skipped.
Recv(c) ==
    /\ pc[c] = "recv" /\ queue[c] # <<>>
    /\ cur' = [cur EXCEPT ![c] = Head(queue[c])]
    /\ queue' = [queue EXCEPT ![c] = Tail(@)]
    /\ Goto(c, IF Head(queue[c]) = "blank" THEN "recv" ELSE "stream")
    /\ UNCHANGED <<client, sent, mainVars, server, intent, held, machine,
                   history>>

\* The peer has closed: recvUntil() throws (a reset may discard unread lines).
RecvThrows(c) ==
    /\ pc[c] = "recv" /\ client[c] = "closed"
    /\ Goto(c, "close")
    /\ UNCHANGED <<clientVars, mainVars, server, cur, intent, held, machine,
                   history>>

\* heliosHandleStreaming(): 1 keeps serving, 2 or an exception closes, 0 is
\* for the dispatcher.
Stream(c) ==
    /\ pc[c] = "stream"
    /\ \/ cur[c] = "stream" /\ Goto(c, "recv")
       \/ cur[c] = "stream" /\ client[c] = "closed" /\ Goto(c, "close")
       \/ cur[c] = "fatal" /\ Goto(c, "close")
       \/ cur[c] \in {"plain", "shutdown"} /\ Goto(c, "dispatch")
    /\ UNCHANGED <<clientVars, mainVars, server, cur, intent, held, machine,
                   history>>

\* heliosDispatch(); verbShutdown only records the intent.
Dispatch(c) ==
    /\ pc[c] = "dispatch"
    /\ Goto(c, "send")
    /\ IF cur[c] = "shutdown"
       THEN /\ intent' = intent \cup {server[c]}
            /\ asked' = asked \cup {c}
       ELSE UNCHANGED <<intent, asked>>
    /\ UNCHANGED <<clientVars, mainVars, server, cur, held, machine, acked, ran,
                   crashed>>

\* Mutant of SendReply: a shutdown is performed without the reply.
SendReply_ShutdownFirst(c) ==
    /\ pc[c] = "send"
    /\ Goto(c, IF cur[c] = "shutdown" THEN "close" ELSE "check")
    /\ UNCHANGED <<clientVars, mainVars, server, cur, intent, held, machine,
                   history>>

\* sendAtLeast( response ).
SendReply(c) ==
    /\ pc[c] = "send"
    /\ Goto(c, "check")
    /\ acked' = IF cur[c] = "shutdown" THEN acked \cup {c} ELSE acked
    /\ UNCHANGED <<clientVars, mainVars, server, cur, intent, held, machine,
                   asked, ran, crashed>>

SendThrows(c) ==
    /\ pc[c] = "send" /\ client[c] = "closed"
    /\ Goto(c, "close")
    /\ UNCHANGED <<clientVars, mainVars, server, cur, intent, held, machine,
                   history>>

\* Mutant of Check: the loop goes on after a shutdown request.
Check_Continues(c) ==
    /\ pc[c] = "check"
    /\ Goto(c, "recv")
    /\ UNCHANGED <<clientVars, mainVars, server, cur, intent, held, machine,
                   history>>

\* Stop serving once a shutdown is requested.
Check(c) ==
    /\ pc[c] = "check"
    /\ Goto(c, IF Requested(c) THEN "close" ELSE "recv")
    /\ UNCHANGED <<clientVars, mainVars, server, cur, intent, held, machine,
                   history>>

\* Mutant of Close: a shutdown whose reply could not be sent is forgotten.
Close_NeedsAck(c) ==
    /\ pc[c] = "close"
    /\ held' = [held EXCEPT ![c] = @ \ {server[c]}]
    /\ Goto(c, IF Requested(c) /\ c \in acked THEN "exec" ELSE "over")
    /\ UNCHANGED <<clientVars, mainVars, server, cur, intent, machine, history>>

\* Mutant of Close: the intent is not looked at.
Close_Always(c) ==
    /\ pc[c] = "close"
    /\ held' = [held EXCEPT ![c] = @ \ {server[c]}]
    /\ Goto(c, "exec")
    /\ UNCHANGED <<clientVars, mainVars, server, cur, intent, machine, history>>

\* Mutant of Close: the shutdown is started with the connection still open.
Close_KeepsOpen(c) ==
    /\ pc[c] = "close"
    /\ Goto(c, IF Requested(c) THEN "exec" ELSE "over")
    /\ UNCHANGED <<clientVars, mainVars, server, cur, intent, held, machine,
                   history>>

\* conn.close(), and the intent is looked at again.
Close(c) ==
    /\ pc[c] = "close"
    /\ held' = [held EXCEPT ![c] = @ \ {server[c]}]
    /\ Goto(c, IF Requested(c) THEN "exec" ELSE "over")
    /\ UNCHANGED <<clientVars, mainVars, server, cur, intent, machine, history>>

\* performShutdown(): system( cmd ) starts the shutdown, or fails and is
\* logged; either way the process goes on.
Exec(c) ==
    /\ pc[c] = "exec"
    /\ Goto(c, "over")
    /\ ran' = ran \cup {c}
    /\ machine' \in {machine, "going"}
    /\ UNCHANGED <<clientVars, mainVars, server, cur, intent, held, asked, acked,
                   crashed>>

(***************************************************************************)
(* Failures.                                                               *)
(***************************************************************************)

\* The child that serves c dies in the middle of it.
Crash(c) ==
    /\ server[c] = c /\ pc[c] # "over"
    /\ Goto(c, "over")
    /\ held' = [held EXCEPT ![c] = @ \ {c}]
    /\ crashed' = crashed \cup {c}
    /\ UNCHANGED <<clientVars, mainVars, server, cur, intent, machine, asked,
                   acked, ran>>

Halt ==
    /\ machine = "going"
    /\ machine' = "down"
    /\ UNCHANGED <<clientVars, mainVars, server, pc, cur, intent, held, history>>

Loop(c) ==
    \/ Recv(c) \/ RecvThrows(c) \/ Stream(c) \/ Dispatch(c) \/ SendReply(c)
    \/ SendThrows(c) \/ Check(c) \/ Close(c) \/ Exec(c)

AcceptLoop == Accept \/ Fork \/ ForkFails \/ InlineDone \/ Release

Next ==
    /\ machine # "down"
    /\ \/ AcceptLoop
       \/ Halt
       \/ \E c \in Conn : Connect(c) \/ Leave(c) \/ Loop(c) \/ Crash(c)
       \/ \E c \in Conn, l \in Line : SendLine(c, l)

\* The daemon and the serving processes run when they can: the kernel
\* schedules them, and the calls they block in return when there is a
\* connection, a line or an end of file.  Clients owe nothing.
Fairness ==
    /\ WF_vars(machine # "down" /\ AcceptLoop)
    /\ \A c \in Conn : WF_vars(machine # "down" /\ Loop(c))

Spec == Init /\ [][Next]_vars
FairSpec == Spec /\ Fairness

(***************************************************************************)
(* Properties.                                                             *)
(***************************************************************************)

TypeOK ==
    /\ client \in [Conn -> {"away", "open", "closed"}]
    /\ queue \in [Conn -> Seq(Line)]
    /\ sent \in 0..MaxLines
    /\ backlog \in Seq(Conn)
    /\ mainAt \in {"accept", "fork", "inline", "release"}
    /\ mainConn \in Conn \cup {NoConn}
    /\ server \in [Conn -> Proc \cup {NoConn}]
    /\ pc \in [Conn -> {"none", "recv", "stream", "dispatch", "send", "check",
                        "close", "exec", "over"}]
    /\ cur \in [Conn -> Line]
    /\ intent \subseteq Proc
    /\ held \in [Conn -> SUBSET Proc]
    /\ machine \in {"up", "going", "down"}
    /\ asked \subseteq Conn /\ acked \subseteq Conn
    /\ ran \subseteq Conn /\ crashed \subseteq Conn

\* No fork() has failed: every connection has a child of its own.
Forked == \A c \in Conn : server[c] # Main

\* Only a connection on which a shutdown was dispatched brings the system
\* down: the intent is that connection's (Verbs.h, heliosShutdownRequested).
\* After a connection was served inline this is not so: the intent stays in
\* the daemon, and every later child starts with it.
ShutdownOnlyIfAsked == Forked => ran \subseteq asked

\* The client that asks for a shutdown is told before it is performed, unless
\* it has gone away.
AckFirst ==
    \A c \in ran \cap asked : c \in acked \/ client[c] = "closed"

\* Once a shutdown was dispatched on a connection no other request of that
\* connection is handled.
NothingAfterShutdown ==
    [][\A c \in asked : pc'[c] \notin {"recv", "stream", "dispatch"}]_vars

\* When the server of a connection is through with it and the daemon has gone
\* back to accept(), no process holds its descriptor: the client sees the end
\* of the stream.
NoDescriptorLeak ==
    \A c \in Conn : pc[c] = "over" /\ mainConn # c => held[c] = {}

\* The daemon serves a connection itself, which it does when fork() has failed.
Occupied == \E c \in Conn : server[c] = Main /\ pc[c] # "over"

\* A client that connects is served, however long the others take ("never
\* blocks another client"), unless the daemon serves one itself that stays for
\* good.
EveryoneServed ==
    \A c \in Conn :
        <>(client[c] # "away") =>
            \/ <>(server[c] # NoConn \/ machine = "down")
            \/ <>[]Occupied

\* A shutdown that was dispatched is performed, even if its reply could not be
\* sent, unless the process that has to do it dies or another shutdown is first.
IntentHonoured ==
    \A c \in Conn : c \in asked ~> c \in ran \cup crashed \/ machine = "down"

(***************************************************************************)
(* The inductive invariant of the proofs.                                  *)
(***************************************************************************)

\* A connection is in the accept queue once, and there until it is accepted.
QueueInv ==
    /\ \A i, j \in 1..Len(backlog) : backlog[i] = backlog[j] => i = j
    /\ \A i \in 1..Len(backlog) :
         /\ server[backlog[i]] = NoConn
         /\ client[backlog[i]] # "away"
         /\ backlog[i] # mainConn
    /\ mainAt = "accept" <=> mainConn = NoConn
    /\ mainAt = "fork" => server[mainConn] = NoConn
    /\ \A c \in Conn : client[c] = "away" => server[c] = NoConn /\ mainConn # c

Waiting(c) == \E i \in 1..Len(backlog) : backlog[i] = c

\* A client that has connected is in the queue, or at hand, or served.
PlaceInv ==
    \A c \in Conn : client[c] # "away" =>
        Waiting(c) \/ (mainConn = c /\ mainAt = "fork") \/ server[c] # NoConn

\* A connection that is served is served by its own child or by the daemon.
ServerInv ==
    \A c \in Conn :
        /\ server[c] \in {c, Main, NoConn}
        /\ server[c] = NoConn <=> pc[c] = "none"
        /\ server[c] = NoConn => c \notin asked
        /\ c \in ran => pc[c] = "over"

\* Whoever has a connection's descriptor open is about to close it.
HeldInv ==
    \A c \in Conn :
        held[c] \subseteq
            (IF c = mainConn THEN {Main} ELSE {}) \cup
            (IF server[c] = c /\ pc[c] \notin {"exec", "over"} THEN {c} ELSE {})

\* From the dispatch of a shutdown on, the server of the connection has the
\* intent, answers before it does anything about it, and is not through before
\* it has.
AskedInv ==
    \A c \in asked :
        /\ Requested(c)
        /\ pc[c] \in {"send", "check", "close", "exec", "over"}
        /\ pc[c] = "send" => cur[c] = "shutdown"
        /\ pc[c] \in {"check", "close", "exec"} \/ c \in ran =>
             c \in acked \/ client[c] = "closed"
        /\ pc[c] = "over" => c \in ran \cup crashed

\* While every connection has a child of its own, the intent is that of one
\* connection.
ForkedInv ==
    Forked =>
        /\ Main \notin intent
        /\ \A c \in Conn :
             /\ c \in intent => c \in asked
             /\ pc[c] = "exec" => c \in intent
             /\ c \in ran => c \in asked

Inv == TypeOK /\ QueueInv /\ PlaceInv /\ ServerInv /\ HeldInv /\ AskedInv /\ ForkedInv
=============================================================================
