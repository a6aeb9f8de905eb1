----------------------------- MODULE Server_proofs -----------------------------
(***************************************************************************)
(* Proofs about Server: its inductive invariant and what follows from it.  *)
(***************************************************************************)
EXTENDS Server, TLAPS

\* Taking an element from a sequence, and adding one, as the queues do.
LEMMA QueueFacts ==
    ASSUME NEW S, NEW s \in Seq(S)
    PROVE  /\ s # <<>> => /\ Head(s) \in S /\ Head(s) = s[1]
                          /\ Tail(s) \in Seq(S) /\ Len(Tail(s)) = Len(s) - 1
                          /\ Len(s) \in Nat \ {0}
                          /\ \A i \in 1..Len(Tail(s)) : Tail(s)[i] = s[i + 1]
           /\ \A x \in S : /\ Append(s, x) \in Seq(S)
                           /\ Len(Append(s, x)) = Len(s) + 1
                           /\ Append(s, x)[Len(s) + 1] = x
                           /\ \A i \in 1..Len(s) : Append(s, x)[i] = s[i]
OBVIOUS

LEMMA InitInv == Init => Inv
<1> SUFFICES ASSUME Init PROVE Inv
    OBVIOUS
<1>1. TypeOK
    BY NameAssumption, BoundAssumption DEF Init, TypeOK, Proc, Line
<1>2. QueueInv /\ PlaceInv
    BY NameAssumption DEF Init, QueueInv, PlaceInv
<1>3. ServerInv /\ HeldInv
    BY NameAssumption DEF Init, ServerInv, HeldInv
<1>4. AskedInv /\ ForkedInv
    BY NameAssumption DEF Init, AskedInv, ForkedInv, Proc
<1> QED
    BY <1>1, <1>2, <1>3, <1>4 DEF Inv

\* The daemon is at work on a connection unless it is in accept().
LEMMA MainConn == ASSUME Inv PROVE mainAt # "accept" => mainConn \in Conn
BY DEF Inv, TypeOK, QueueInv

\* A step of handleConnection() changes neither the accept queue nor who
\* serves what.
LEMMA LoopFrame ==
    ASSUME NEW c \in Conn, Loop(c) \/ Crash(c)
    PROVE  UNCHANGED <<client, sent, backlog, mainAt, mainConn, server>>
BY DEF Loop, Recv, RecvThrows, Stream, Dispatch, SendReply, SendThrows, Check,
   Close, Exec, Crash, clientVars, mainVars

(***************************************************************************)
(* Every step has the right type.                                          *)
(***************************************************************************)

LEMMA TypeNext == ASSUME Inv, [Next]_vars PROVE TypeOK'
<1> USE DEF TypeOK, Goto, clientVars, mainVars, history
<1> TypeOK /\ QueueInv /\ ServerInv
    BY DEF Inv
<1>1. ASSUME NEW c \in Conn, Connect(c) \/ Leave(c) PROVE TypeOK'
  <2>1. backlog' = backlog \/ backlog' = Append(backlog, c)
      BY <1>1 DEF Connect, Leave
  <2>2. backlog \in Seq(Conn)
      OBVIOUS
  <2>3. Append(backlog, c) \in Seq(Conn)
      BY <2>2
  <2>4. backlog' \in Seq(Conn)
      BY <2>1, <2>2, <2>3
  <2> QED
      BY <1>1, <2>4 DEF Connect, Leave
<1>2. ASSUME NEW c \in Conn, NEW l \in Line, SendLine(c, l) PROVE TypeOK'
    BY <1>2, BoundAssumption DEF SendLine
<1>3. CASE Accept
    BY <1>3, QueueFacts DEF Accept, Proc
<1>4. CASE Fork
    BY <1>4, MainConn DEF Fork, Proc
<1>5. CASE ForkFails
    BY <1>5, MainConn DEF ForkFails, Proc
<1>6. CASE InlineDone \/ Release
  <2>1. held' = held \/ held' = [held EXCEPT ![mainConn] = @ \ {Main}]
      BY <1>6 DEF InlineDone, Release
  <2>2. held \in [Conn -> SUBSET Proc]
      OBVIOUS
  <2>3. [held EXCEPT ![mainConn] = @ \ {Main}] \in [Conn -> SUBSET Proc]
      BY <2>2
  <2>4. held' \in [Conn -> SUBSET Proc]
      BY <2>1, <2>2, <2>3
  <2> QED
      BY <1>6, <2>4 DEF InlineDone, Release
<1>7. ASSUME NEW c \in Conn, Recv(c) PROVE TypeOK'
    BY <1>7, QueueFacts DEF Recv
<1>8. ASSUME NEW c \in Conn,
             RecvThrows(c) \/ Stream(c) \/ SendThrows(c) \/ Check(c)
      PROVE  TypeOK'
    BY <1>8 DEF RecvThrows, Stream, SendThrows, Check
<1>9. ASSUME NEW c \in Conn, Dispatch(c) PROVE TypeOK'
  <2>1. server[c] \in Proc
      BY <1>9 DEF Dispatch, ServerInv
  <2> QED
      BY <1>9, <2>1 DEF Dispatch
<1>10. ASSUME NEW c \in Conn, SendReply(c) \/ Exec(c) PROVE TypeOK'
    BY <1>10 DEF SendReply, Exec
<1>11. ASSUME NEW c \in Conn, Close(c) \/ Crash(c) PROVE TypeOK'
  <2>1. PICK p : held' = [held EXCEPT ![c] = @ \ {p}]
      BY <1>11 DEF Close, Crash
  <2>2. held' \in [Conn -> SUBSET Proc]
      BY <2>1
  <2>3. CASE Close(c)
      BY <2>2, <2>3 DEF Close
  <2>4. CASE Crash(c)
      BY <2>2, <2>4 DEF Crash
  <2> QED
      BY <1>11, <2>3, <2>4
<1>12. CASE Halt \/ UNCHANGED vars
    BY <1>12 DEF Halt, vars
<1> QED
    BY <1>1, <1>2, <1>3, <1>4, <1>5, <1>6, <1>7, <1>8, <1>9, <1>10, <1>11,
       <1>12
    DEF Next, AcceptLoop, Loop

(***************************************************************************)
(* The accept queue.                                                       *)
(***************************************************************************)

LEMMA QueueNext == ASSUME Inv, [Next]_vars PROVE QueueInv'
<1> USE NameAssumption DEF clientVars, mainVars
<1> TypeOK /\ QueueInv /\ ServerInv
    BY DEF Inv
<1>1. ASSUME NEW c \in Conn, Connect(c) PROVE QueueInv'
  <2>1. /\ Len(backlog') = Len(backlog) + 1 /\ Len(backlog) \in Nat
        /\ backlog'[Len(backlog) + 1] = c
        /\ \A i \in 1..Len(backlog) : backlog'[i] = backlog[i] /\ backlog[i] # c
    <3>1. backlog \in Seq(Conn) /\ backlog' = Append(backlog, c) /\ Len(backlog) \in Nat
        BY <1>1 DEF Connect, TypeOK
    <3>2. \A i \in 1..Len(backlog) : backlog[i] # c
        BY <1>1 DEF Connect, QueueInv
    <3> QED
        BY <3>1, <3>2, QueueFacts
  <2>2. /\ client[c] = "away" /\ server[c] = NoConn /\ mainConn # c
        /\ client' = [client EXCEPT ![c] = "open"]
        /\ UNCHANGED <<server, mainAt, mainConn>>
      BY <1>1 DEF Connect, QueueInv
  <2>3. /\ mainAt' = "accept" <=> mainConn' = NoConn
        /\ mainAt' = "fork" => server'[mainConn'] = NoConn
        /\ \A d \in Conn :
             client'[d] = "away" => server'[d] = NoConn /\ mainConn' # d
      BY <2>2 DEF QueueInv, TypeOK
  <2>4. \A i, j \in 1..Len(backlog') : backlog'[i] = backlog'[j] => i = j
      BY <2>1 DEF QueueInv
  <2>5. \A i \in 1..Len(backlog') : /\ server'[backlog'[i]] = NoConn
                                    /\ client'[backlog'[i]] # "away"
                                    /\ backlog'[i] # mainConn'
    <3>1. ASSUME NEW i \in 1..Len(backlog') PROVE i = Len(backlog) + 1 \/ i \in 1..Len(backlog)
        BY <2>1
    <3>2. \A d \in Conn : client[d] # "away" => client'[d] # "away"
        BY <2>2 DEF TypeOK
    <3>3. client'[c] # "away"
        BY <2>2 DEF TypeOK
    <3>4. \A i \in 1..Len(backlog) : backlog[i] \in Conn
        BY DEF TypeOK
    <3> QED
        BY <2>1, <2>2, <3>1, <3>2, <3>3, <3>4 DEF QueueInv
  <2> QED
      BY <2>3, <2>4, <2>5 DEF QueueInv
<1>2. ASSUME NEW c \in Conn, Leave(c) PROVE QueueInv'
    BY <1>2 DEF Leave, QueueInv, TypeOK
<1>3. CASE Accept
    BY <1>3, QueueFacts DEF Accept, QueueInv, TypeOK
<1>4. CASE Fork \/ ForkFails
    BY <1>4 DEF Fork, ForkFails, QueueInv, TypeOK, Proc
<1>5. CASE InlineDone \/ Release
    BY <1>5 DEF InlineDone, Release, QueueInv, TypeOK
<1>6. CASE \/ \E c \in Conn : Loop(c) \/ Crash(c)
           \/ \E c \in Conn, l \in Line : SendLine(c, l)
           \/ Halt
           \/ UNCHANGED vars
    BY <1>6, LoopFrame DEF SendLine, Halt, vars, QueueInv
<1> QED
    BY <1>1, <1>2, <1>3, <1>4, <1>5, <1>6 DEF Next, AcceptLoop

LEMMA PlaceNext == ASSUME Inv, [Next]_vars PROVE PlaceInv'
<1> USE NameAssumption DEF clientVars, mainVars
<1> TypeOK /\ QueueInv /\ PlaceInv
    BY DEF Inv
<1>1. ASSUME NEW c \in Conn, Connect(c) PROVE PlaceInv'
  <2>1. /\ Len(backlog') = Len(backlog) + 1 /\ Len(backlog) \in Nat
        /\ backlog'[Len(backlog) + 1] = c
        /\ \A i \in 1..Len(backlog) : backlog'[i] = backlog[i]
      BY <1>1, QueueFacts DEF Connect, TypeOK
  <2>2. /\ Waiting(c)' /\ \A d \in Conn : Waiting(d) => Waiting(d)'
      BY <2>1 DEF Waiting
  <2>3. \A d \in Conn : d # c => client'[d] = client[d]
      BY <1>1 DEF Connect, TypeOK
  <2> QED
      BY <1>1, <2>2, <2>3 DEF Connect, PlaceInv
<1>2. ASSUME NEW c \in Conn, Leave(c) PROVE PlaceInv'
    BY <1>2 DEF Leave, PlaceInv, Waiting, TypeOK
<1>3. CASE Accept
  <2>1. ASSUME NEW d \in Conn, Waiting(d) PROVE Waiting(d)' \/ d = mainConn'
    <3>1. PICK i \in 1..Len(backlog) : backlog[i] = d
        BY <2>1 DEF Waiting
    <3>2. CASE i = 1
        BY <1>3, <3>1, <3>2, QueueFacts DEF Accept, TypeOK
    <3>3. CASE i # 1
      <4>1. /\ i - 1 \in 1..Len(backlog') /\ backlog'[i - 1] = backlog[(i - 1) + 1]
          BY <1>3, <3>1, <3>3, QueueFacts DEF Accept, TypeOK
      <4> QED
          BY <3>1, <4>1 DEF Waiting
    <3> QED
        BY <3>2, <3>3
  <2>2. \A d \in Conn : ~(mainConn = d /\ mainAt = "fork")
      BY <1>3 DEF Accept
  <2> QED
      BY <1>3, <2>1, <2>2 DEF Accept, PlaceInv
<1>4. CASE Fork \/ ForkFails
  <2>1. \A d \in Conn : d # mainConn => server'[d] = server[d]
      BY <1>4, MainConn DEF Fork, ForkFails, TypeOK
  <2>2. server'[mainConn] # NoConn
      BY <1>4, MainConn DEF Fork, ForkFails, TypeOK
  <2> QED
      BY <1>4, <2>1, <2>2 DEF Fork, ForkFails, PlaceInv, Waiting
<1>5. CASE InlineDone \/ Release
    BY <1>5 DEF InlineDone, Release, PlaceInv, Waiting
<1>6. CASE \/ \E c \in Conn : Loop(c) \/ Crash(c)
           \/ \E c \in Conn, l \in Line : SendLine(c, l)
           \/ Halt
           \/ UNCHANGED vars
    BY <1>6, LoopFrame DEF SendLine, Halt, vars, PlaceInv, Waiting
<1> QED
    BY <1>1, <1>2, <1>3, <1>4, <1>5, <1>6 DEF Next, AcceptLoop

(***************************************************************************)
(* Who serves what, and who has what open.                                 *)
(***************************************************************************)

LEMMA ServerNext == ASSUME Inv, [Next]_vars PROVE ServerInv'
<1> USE NameAssumption DEF clientVars, mainVars, history, Goto, ServerInv
<1> TypeOK /\ QueueInv /\ ServerInv
    BY DEF Inv
<1>1. CASE Fork \/ ForkFails
    BY <1>1, MainConn DEF Fork, ForkFails, QueueInv, TypeOK
<1>2. ASSUME NEW c \in Conn, Loop(c) \/ Crash(c) PROVE ServerInv'
    BY <1>2, LoopFrame
    DEF Loop, Recv, RecvThrows, Stream, Dispatch, SendReply, SendThrows, Check,
        Close, Exec, Crash, TypeOK
<1>3. CASE \/ Accept \/ InlineDone \/ Release \/ Halt \/ UNCHANGED vars
           \/ \E c \in Conn : Connect(c) \/ Leave(c)
           \/ \E c \in Conn, l \in Line : SendLine(c, l)
    BY <1>3 DEF Accept, InlineDone, Release, Halt, Connect, Leave, SendLine, vars
<1> QED
    BY <1>1, <1>2, <1>3 DEF Next, AcceptLoop

LEMMA HeldNext == ASSUME Inv, [Next]_vars PROVE HeldInv'
<1> USE NameAssumption DEF clientVars, mainVars, Goto, HeldInv
<1> TypeOK /\ QueueInv /\ ServerInv /\ HeldInv
    BY DEF Inv
<1>1. CASE Accept
    BY <1>1, QueueFacts DEF Accept, QueueInv, TypeOK
<1>2. CASE Fork \/ ForkFails
  <2>1. \A d \in Conn : d # mainConn => /\ server'[d] = server[d]
                                       /\ pc'[d] = pc[d]
                                       /\ held'[d] = held[d]
      BY <1>2, MainConn DEF Fork, ForkFails, TypeOK
  <2>2. held[mainConn] \subseteq {Main}
      BY <1>2, MainConn DEF Fork, ForkFails, QueueInv
  <2>3. mainConn' = mainConn /\ mainConn \in Conn
      BY <1>2, MainConn DEF Fork, ForkFails
  <2>4. \/ held'[mainConn] = held[mainConn]
        \/ /\ held'[mainConn] = held[mainConn] \cup {mainConn}
           /\ server'[mainConn] = mainConn
           /\ pc'[mainConn] = "recv"
      BY <1>2, <2>3 DEF Fork, ForkFails, TypeOK
  <2> QED
      BY <2>1, <2>2, <2>3, <2>4
<1>3. CASE Release
    BY <1>3 DEF Release, QueueInv, TypeOK
<1>4. ASSUME NEW c \in Conn, Close(c) \/ Crash(c) PROVE HeldInv'
  <2>1. CASE Close(c)
      BY <1>4, <2>1 DEF Close, ServerInv, TypeOK
  <2>2. CASE Crash(c)
      BY <1>4, <2>2 DEF Crash, TypeOK
  <2> QED
      BY <1>4, <2>1, <2>2
<1>5. ASSUME NEW c \in Conn, Loop(c), ~Close(c) PROVE HeldInv'
    BY <1>5
    DEF Loop, Recv, RecvThrows, Stream, Dispatch, SendReply, SendThrows, Check,
        Exec, ServerInv, TypeOK
<1>6. CASE \/ InlineDone \/ Halt \/ UNCHANGED vars
           \/ \E c \in Conn : Connect(c) \/ Leave(c)
           \/ \E c \in Conn, l \in Line : SendLine(c, l)
    BY <1>6 DEF InlineDone, Halt, Connect, Leave, SendLine, vars
<1> QED
    BY <1>1, <1>2, <1>3, <1>4, <1>5, <1>6 DEF Next, AcceptLoop

(***************************************************************************)
(* The shutdown intent.                                                    *)
(***************************************************************************)

LEMMA AskedNext == ASSUME Inv, [Next]_vars PROVE AskedInv'
<1> USE NameAssumption DEF clientVars, mainVars, history, Goto, AskedInv
<1> TypeOK /\ QueueInv /\ ServerInv /\ AskedInv
    BY DEF Inv
<1>1. CASE Fork \/ ForkFails
  <2>1. /\ asked' = asked /\ cur' = cur /\ acked' = acked /\ ran' = ran
        /\ client' = client /\ crashed' = crashed
        /\ \A c \in asked : /\ c # mainConn /\ server'[c] = server[c]
                            /\ pc'[c] = pc[c]
      BY <1>1, MainConn DEF Fork, ForkFails, QueueInv, ServerInv, TypeOK
  <2>2. intent \subseteq intent'
      BY <1>1 DEF Fork, ForkFails
  <2> QED
      BY <2>1, <2>2 DEF Requested
<1>2. ASSUME NEW c \in Conn, Recv(c) \/ RecvThrows(c) \/ Stream(c)
      PROVE  AskedInv'
    BY <1>2 DEF Requested, Recv, RecvThrows, Stream, TypeOK
<1>3. ASSUME NEW c \in Conn, Dispatch(c) PROVE AskedInv'
  <2>1. CASE cur[c] = "shutdown"
    <3>1. c \notin ran
        BY <1>3 DEF Dispatch, ServerInv
    <3> QED
        BY <1>3, <2>1, <3>1 DEF Dispatch, Requested, TypeOK
  <2>2. CASE cur[c] # "shutdown"
      BY <1>3, <2>2 DEF Dispatch, Requested, TypeOK
  <2> QED
      BY <2>1, <2>2
<1>4. ASSUME NEW c \in Conn, SendReply(c) \/ SendThrows(c) \/ Check(c)
      PROVE  AskedInv'
    BY <1>4 DEF SendReply, SendThrows, Check, Requested, TypeOK
<1>5. ASSUME NEW c \in Conn, Close(c) \/ Exec(c) \/ Crash(c) PROVE AskedInv'
    BY <1>5 DEF Close, Exec, Crash, Requested, TypeOK
<1>6. ASSUME NEW c \in Conn, Connect(c) \/ Leave(c) PROVE AskedInv'
    BY <1>6 DEF Connect, Leave, Requested, TypeOK
<1>7. CASE \/ Accept \/ InlineDone \/ Release \/ Halt \/ UNCHANGED vars
           \/ \E c \in Conn, l \in Line : SendLine(c, l)
    BY <1>7 DEF Requested, Accept, InlineDone, Release, Halt, SendLine, vars
<1> QED
    BY <1>1, <1>2, <1>3, <1>4, <1>5, <1>6, <1>7 DEF Next, AcceptLoop, Loop

LEMMA ForkedNext == ASSUME Inv, [Next]_vars PROVE ForkedInv'
<1> SUFFICES ASSUME Forked' PROVE ForkedInv'
    BY DEF ForkedInv
<1> USE NameAssumption DEF clientVars, mainVars, history, Goto, ForkedInv
<1> TypeOK /\ QueueInv /\ ServerInv /\ ForkedInv
    BY DEF Inv
<1>0. Forked
    BY DEF Inv, TypeOK, QueueInv, Forked, Next, AcceptLoop, Loop, Accept, Fork,
       ForkFails, InlineDone, Release, Halt, Connect, Leave, SendLine, Recv,
       RecvThrows, Stream, Dispatch, SendReply, SendThrows, Check, Close, Exec,
       Crash, vars
<1> USE <1>0 DEF Forked
<1>1. CASE Fork
    BY <1>1 DEF Fork, QueueInv, ServerInv, TypeOK, Proc
<1>2. ~ForkFails
    BY MainConn DEF ForkFails, TypeOK
<1>3. ASSUME NEW c \in Conn, Recv(c) \/ RecvThrows(c) \/ Stream(c)
      PROVE  ForkedInv'
    BY <1>3 DEF Recv, RecvThrows, Stream, TypeOK
<1>4. ASSUME NEW c \in Conn, Dispatch(c) PROVE ForkedInv'
    BY <1>4 DEF Dispatch, ServerInv, TypeOK, Proc
<1>5. ASSUME NEW c \in Conn, SendReply(c) \/ SendThrows(c) \/ Check(c)
      PROVE  ForkedInv'
    BY <1>5 DEF SendReply, SendThrows, Check, TypeOK
<1>6. ASSUME NEW c \in Conn, Close(c) \/ Exec(c) \/ Crash(c) PROVE ForkedInv'
    BY <1>6 DEF Close, Exec, Crash, Requested, ServerInv, TypeOK
<1>7. CASE \/ Accept \/ InlineDone \/ Release \/ Halt \/ UNCHANGED vars
           \/ \E c \in Conn : Connect(c) \/ Leave(c)
           \/ \E c \in Conn, l \in Line : SendLine(c, l)
    BY <1>7 DEF Accept, InlineDone, Release, Halt, Connect, Leave, SendLine, vars
<1> QED
    BY <1>1, <1>2, <1>3, <1>4, <1>5, <1>6, <1>7 DEF Next, AcceptLoop, Loop

(***************************************************************************)
(* The theorems.                                                           *)
(***************************************************************************)

\* The invariant of the server loop holds for any number of clients and lines,
\* whether or not fork() fails.
THEOREM Invariance == Spec => []Inv
<1>1. Inv /\ [Next]_vars => Inv'
    BY TypeNext, QueueNext, PlaceNext, ServerNext, HeldNext, AskedNext, ForkedNext DEF Inv
<1> QED
    BY <1>1, InitInv, PTL DEF Spec

\* performShutdown() runs after the reply went out, or after the client left
\* (handleConnection breaks out of its loop only after sendAtLeast).
THEOREM ReplyBeforeShutdown == Spec => []AckFirst
<1>1. Inv => AckFirst
    BY DEF Inv, AskedInv, AckFirst
<1> QED
    BY <1>1, Invariance, PTL

\* As long as fork() works, only a connection that asked for it performs the
\* shutdown (heliosShutdownRequested is the forked connection's own).
THEOREM OnlyIfAsked == Spec => []ShutdownOnlyIfAsked
<1>1. Inv => ShutdownOnlyIfAsked
    BY DEF Inv, TypeOK, ForkedInv, ShutdownOnlyIfAsked
<1> QED
    BY <1>1, Invariance, PTL

\* A connection that is over and that the daemon has let go of is open nowhere:
\* its client sees the end of the stream.
THEOREM DescriptorsClosed == Spec => []NoDescriptorLeak
<1>1. Inv => NoDescriptorLeak
    BY DEF Inv, HeldInv, NoDescriptorLeak
<1> QED
    BY <1>1, Invariance, PTL

\* handleConnection() looks at the intent after every way out of its loop: a
\* shutdown that was dispatched is performed before the process that serves the
\* connection is through, even if its reply could not be sent, unless it died.
THEOREM ShutdownIsNotForgotten ==
    Spec => [](\A c \in asked : pc[c] = "over" => c \in ran \cup crashed)
<1>1. Inv => \A c \in asked : pc[c] = "over" => c \in ran \cup crashed
    BY DEF Inv, AskedInv
<1> QED
    BY <1>1, Invariance, PTL

\* The accept loop loses nobody: a client that has connected waits in the queue,
\* or the daemon is about to fork for it, or it has a server.
THEOREM NobodyIsLost == Spec => []PlaceInv
<1>1. Inv => PlaceInv
    BY DEF Inv
<1> QED
    BY <1>1, Invariance, PTL

\* After a shutdown was dispatched on it a connection has no other request read
\* or handled.
THEOREM ShutdownIsLast == Spec => NothingAfterShutdown
<1>1. Inv' /\ [Next]_vars =>
        [\A c \in asked : pc'[c] \notin {"recv", "stream", "dispatch"}]_vars
  <2> SUFFICES ASSUME Inv', Next
               PROVE  \A c \in asked : pc'[c] \notin {"recv", "stream", "dispatch"}
      OBVIOUS
  <2>1. asked \subseteq asked'
      BY DEF Next, AcceptLoop, Loop, Accept, Fork, ForkFails, InlineDone, Release,
         Halt, Connect, Leave, SendLine, Recv, RecvThrows, Stream, Dispatch,
         SendReply, SendThrows, Check, Close, Exec, Crash, history
  <2> QED
      BY <2>1 DEF Inv, AskedInv
<1> QED
    BY <1>1, Invariance, PTL DEF Spec, NothingAfterShutdown
=============================================================================
