---------------------------- MODULE Commands_proofs ----------------------------
(***************************************************************************)
(* Proofs about Commands: its inductive invariant, part by part, that a    *)
(* command's status reaches the request it belongs to, and that a search   *)
(* tells the whole of what its grep found.                                 *)
(***************************************************************************)
EXTENDS Commands, FiniteSetTheorems, TLAPS

\* A request that is taken up starts its command or is refused.
Starts(c) ==
    /\ Ready(c)
    /\ Refused(c) \/ (call[c].good /\ (Spawn(c) \/ SpawnFails(c)))

\* Every step keeps the types.
LEMMA TypeStep ==
    TypeOK /\ [Next]_vars => TypeOK'
<1> SUFFICES ASSUME TypeOK, [Next]_vars
             PROVE  TypeOK'
    OBVIOUS
<1> USE NameAssumption, SystemAssumption
    DEF vars, works, result, parse, signals, TypeOK, Server, Life, Code
<1>1. ASSUME NEW q \in Conn, Fork(q) PROVE TypeOK'
    BY <1>1 DEF Fork, Goto, Accepting, Free
<1>2. ASSUME NEW q \in Conn, ForkFails(q) PROVE TypeOK'
    BY <1>2 DEF ForkFails, Goto, Accepting, Free
<1>3. ASSUME NEW q \in Conn, Restore(q) PROVE TypeOK'
    BY <1>3 DEF Restore, Goto, Alive, Free
<1>4. ASSUME NEW q \in Conn, Starts(q) PROVE TypeOK'
    BY <1>4 DEF Starts, Ready, Refused, Spawn, SpawnFails, Collected, Goto, Alive, Free
<1>5. ASSUME NEW q \in Conn, Collect(q) PROVE TypeOK'
    BY <1>5 DEF Collect, Collected, Goto, Alive, Free
<1>6. ASSUME NEW q \in Conn, CollectFails(q) PROVE TypeOK'
    BY <1>6 DEF CollectFails, Collected, Goto, Alive, Free
<1>7. ASSUME NEW q \in Conn, ParseLine(q) PROVE TypeOK'
    <2>1. /\ at' = [at EXCEPT ![q] = @ + 1]
          /\ \/ UNCHANGED <<count, truncated>>
             \/ truncated' = [truncated EXCEPT ![q] = TRUE] /\ UNCHANGED count
             \/ count' = [count EXCEPT ![q] = @ + 1] /\ UNCHANGED truncated
        BY <1>7 DEF ParseLine
    <2>2. at' \in [Conn -> Nat] /\ count' \in [Conn -> Nat]
        BY <2>1
    <2>3. truncated' \in [Conn -> BOOLEAN]
        BY <2>1
    <2> QED
        BY <2>2, <2>3, <1>7 DEF ParseLine
<1>8. ASSUME NEW q \in Conn, ParseDone(q) PROVE TypeOK'
    BY <1>8 DEF ParseDone, Parsing, Goto, Alive, Free
<1>9. ASSUME NEW q \in Conn, Leave(q) PROVE TypeOK'
    BY <1>9 DEF Leave, Goto, Alive, Free, Signal
<1>10. ASSUME NEW q \in Conn, Prints(q) PROVE TypeOK'
    BY <1>10 DEF Prints
<1>11. ASSUME NEW q \in Conn, Exit(q) PROVE TypeOK'
    BY <1>11 DEF Exit, End, Signal, Alive
<1>12. ASSUME NEW q \in Conn, Expire(q) PROVE TypeOK'
    BY <1>12 DEF Expire, End, Signal, Alive
<1>13. ASSUME NEW q \in Conn, Crash(q) PROVE TypeOK'
    BY <1>13 DEF Crash, Signal, Alive
<1>14. ASSUME NEW p \in Server, Deliver(p) PROVE TypeOK'
    BY <1>14 DEF Deliver, Free, Alive
<1>15. ASSUME NEW p \in Server, Reap(p) PROVE TypeOK'
    BY <1>15 DEF Reap, TakeZombie, Alive
<1>16. ASSUME NEW p \in Server, ReapDone(p) PROVE TypeOK'
    BY <1>16 DEF ReapDone, Alive
<1>17. ASSUME NEW p \in Server, Rearm(p) PROVE TypeOK'
    BY <1>17 DEF Rearm, Alive
<1>18. CASE UNCHANGED vars
    BY <1>18
<1> QED
    BY <1>1, <1>2, <1>3, <1>4, <1>5, <1>6, <1>7, <1>8, <1>9, <1>10, <1>11, <1>12,
       <1>13, <1>14, <1>15, <1>16, <1>17, <1>18
       DEF Next, Serve, reapChildren, Starts, RunCommand, Search

\* Who serves a connection is settled when it is accepted.
LEMMA ServedStep ==
    TypeOK /\ ServedInv /\ [Next]_vars => ServedInv'
<1> SUFFICES ASSUME TypeOK, ServedInv, [Next]_vars
             PROVE  ServedInv'
    OBVIOUS
<1> USE NameAssumption, SystemAssumption
    DEF vars, works, result, parse, signals, TypeOK, ServedInv, Started, Server, Life, Calls
<1>1. ASSUME NEW q \in Conn, Fork(q) PROVE ServedInv'
    BY <1>1 DEF Fork, Goto, Accepting, Free
<1>2. ASSUME NEW q \in Conn, ForkFails(q) PROVE ServedInv'
    BY <1>2 DEF ForkFails, Goto, Accepting, Free
<1>3. ASSUME NEW q \in Conn, Restore(q) PROVE ServedInv'
    BY <1>3 DEF Restore, Goto, Alive, Free
<1>4. ASSUME NEW q \in Conn, Starts(q) PROVE ServedInv'
    BY <1>4 DEF Starts, Ready, Refused, Spawn, SpawnFails, Collected, Goto, Alive, Free
<1>5. ASSUME NEW q \in Conn, Collect(q) PROVE ServedInv'
    BY <1>5 DEF Collect, Collected, Goto, Alive, Free
<1>6. ASSUME NEW q \in Conn, CollectFails(q) PROVE ServedInv'
    BY <1>6 DEF CollectFails, Collected, Goto, Alive, Free
<1>7. ASSUME NEW q \in Conn, ParseLine(q) PROVE ServedInv'
    BY <1>7 DEF ParseLine, Parsing, MoreLines, Alive, Free
<1>8. ASSUME NEW q \in Conn, ParseDone(q) PROVE ServedInv'
    BY <1>8 DEF ParseDone, Parsing, Goto, Alive, Free
<1>9. ASSUME NEW q \in Conn, Leave(q) PROVE ServedInv'
    BY <1>9 DEF Leave, Goto, Alive, Free, Signal
<1>10. ASSUME NEW q \in Conn, Prints(q) PROVE ServedInv'
    BY <1>10 DEF Prints
<1>11. ASSUME NEW q \in Conn, Exit(q) PROVE ServedInv'
    BY <1>11 DEF Exit, End, Signal, Alive
<1>12. ASSUME NEW q \in Conn, Expire(q) PROVE ServedInv'
    BY <1>12 DEF Expire, End, Signal, Alive
<1>13. ASSUME NEW q \in Conn, Crash(q) PROVE ServedInv'
    BY <1>13 DEF Crash, Signal, Alive
<1>14. ASSUME NEW p \in Server, Deliver(p) PROVE ServedInv'
    BY <1>14 DEF Deliver, Free, Alive
<1>15. ASSUME NEW p \in Server, Reap(p) PROVE ServedInv'
    BY <1>15 DEF Reap, TakeZombie, Alive
<1>16. ASSUME NEW p \in Server, ReapDone(p) PROVE ServedInv'
    BY <1>16 DEF ReapDone, Alive
<1>17. ASSUME NEW p \in Server, Rearm(p) PROVE ServedInv'
    BY <1>17 DEF Rearm, Alive
<1>18. CASE UNCHANGED vars
    BY <1>18
<1> QED
    BY <1>1, <1>2, <1>3, <1>4, <1>5, <1>6, <1>7, <1>8, <1>9, <1>10, <1>11, <1>12,
       <1>13, <1>14, <1>15, <1>16, <1>17, <1>18
       DEF Next, Serve, reapChildren, Starts, RunCommand, Search

\* The daemon has its handler set when it is not in it.
LEMMA ArmedStep ==
    TypeOK /\ ServedInv /\ ArmedInv /\ [Next]_vars => ArmedInv'
<1> SUFFICES ASSUME TypeOK, ServedInv, ArmedInv, [Next]_vars
             PROVE  ArmedInv'
    OBVIOUS
<1> USE NameAssumption, SystemAssumption
    DEF vars, works, result, parse, signals, TypeOK, ArmedInv, Server
<1>1. ASSUME NEW q \in Conn, Fork(q) PROVE ArmedInv'
    BY <1>1 DEF Fork, Goto, Accepting, Free
<1>2. ASSUME NEW q \in Conn, ForkFails(q) PROVE ArmedInv'
    BY <1>2 DEF ForkFails, Goto, Accepting, Free
<1>3. ASSUME NEW q \in Conn, Restore(q) PROVE ArmedInv'
    BY <1>3 DEF Restore, Goto, Alive, Free
<1>4. ASSUME NEW q \in Conn, Starts(q) PROVE ArmedInv'
    BY <1>4 DEF Starts, Ready, Refused, Spawn, SpawnFails, Collected, Goto, Alive, Free
<1>5. ASSUME NEW q \in Conn, Collect(q) PROVE ArmedInv'
    BY <1>5 DEF Collect, Collected, Goto, Alive, Free
<1>6. ASSUME NEW q \in Conn, CollectFails(q) PROVE ArmedInv'
    BY <1>6 DEF CollectFails, Collected, Goto, Alive, Free
<1>7. ASSUME NEW q \in Conn, ParseLine(q) PROVE ArmedInv'
    BY <1>7 DEF ParseLine, Parsing, MoreLines, Alive, Free
<1>8. ASSUME NEW q \in Conn, ParseDone(q) PROVE ArmedInv'
    BY <1>8 DEF ParseDone, Parsing, Goto, Alive, Free
<1>9. ASSUME NEW q \in Conn, Leave(q) PROVE ArmedInv'
    BY <1>9 DEF Leave, Goto, Alive, Free, Signal
<1>10. ASSUME NEW q \in Conn, Prints(q) PROVE ArmedInv'
    BY <1>10 DEF Prints
<1>11. ASSUME NEW q \in Conn, Exit(q) PROVE ArmedInv'
    BY <1>11 DEF Exit, End, Signal, Alive
<1>12. ASSUME NEW q \in Conn, Expire(q) PROVE ArmedInv'
    BY <1>12 DEF Expire, End, Signal, Alive
<1>13. ASSUME NEW q \in Conn, Crash(q) PROVE ArmedInv'
    BY <1>13 DEF Crash, Signal, Alive
<1>14. ASSUME NEW p \in Server, Deliver(p) PROVE ArmedInv'
    BY <1>14 DEF Deliver, Free, Alive
<1>15. ASSUME NEW p \in Server, Reap(p) PROVE ArmedInv'
    BY <1>15 DEF Reap, TakeZombie, Alive
<1>16. ASSUME NEW p \in Server, ReapDone(p) PROVE ArmedInv'
    BY <1>16 DEF ReapDone, Alive
<1>17. ASSUME NEW p \in Server, Rearm(p) PROVE ArmedInv'
    BY <1>17 DEF Rearm, Alive
<1>18. CASE UNCHANGED vars
    BY <1>18
<1> QED
    BY <1>1, <1>2, <1>3, <1>4, <1>5, <1>6, <1>7, <1>8, <1>9, <1>10, <1>11, <1>12,
       <1>13, <1>14, <1>15, <1>16, <1>17, <1>18
       DEF Next, Serve, reapChildren, Starts, RunCommand, Search

\* The children are never in the handler.
LEMMA QuietStep ==
    TypeOK /\ ServedInv /\ QuietInv /\ [Next]_vars => QuietInv'
<1> SUFFICES ASSUME TypeOK, ServedInv, QuietInv, [Next]_vars
             PROVE  QuietInv'
    OBVIOUS
<1> USE NameAssumption, SystemAssumption
    DEF vars, works, result, parse, signals, TypeOK, ServedInv, QuietInv, Forked,
        Server
<1>1. ASSUME NEW q \in Conn, Fork(q) PROVE QuietInv'
    BY <1>1 DEF Fork, Goto, Accepting, Free
<1>2. ASSUME NEW q \in Conn, ForkFails(q) PROVE QuietInv'
    BY <1>2 DEF ForkFails, Goto, Accepting, Free
<1>3. ASSUME NEW q \in Conn, Restore(q) PROVE QuietInv'
    BY <1>3 DEF Restore, Goto, Alive, Free
<1>4. ASSUME NEW q \in Conn, Starts(q) PROVE QuietInv'
    BY <1>4 DEF Starts, Ready, Refused, Spawn, SpawnFails, Collected, Goto, Alive, Free
<1>5. ASSUME NEW q \in Conn, Collect(q) PROVE QuietInv'
    BY <1>5 DEF Collect, Collected, Goto, Alive, Free
<1>6. ASSUME NEW q \in Conn, CollectFails(q) PROVE QuietInv'
    BY <1>6 DEF CollectFails, Collected, Goto, Alive, Free
<1>7. ASSUME NEW q \in Conn, ParseLine(q) PROVE QuietInv'
    BY <1>7 DEF ParseLine, Parsing, MoreLines, Alive, Free
<1>8. ASSUME NEW q \in Conn, ParseDone(q) PROVE QuietInv'
    BY <1>8 DEF ParseDone, Parsing, Goto, Alive, Free
<1>9. ASSUME NEW q \in Conn, Leave(q) PROVE QuietInv'
    BY <1>9 DEF Leave, Goto, Alive, Free, Signal
<1>10. ASSUME NEW q \in Conn, Prints(q) PROVE QuietInv'
    BY <1>10 DEF Prints
<1>11. ASSUME NEW q \in Conn, Exit(q) PROVE QuietInv'
    BY <1>11 DEF Exit, End, Signal, Alive
<1>12. ASSUME NEW q \in Conn, Expire(q) PROVE QuietInv'
    BY <1>12 DEF Expire, End, Signal, Alive
<1>13. ASSUME NEW q \in Conn, Crash(q) PROVE QuietInv'
    BY <1>13 DEF Crash, Signal, Alive
<1>14. ASSUME NEW p \in Server, Deliver(p) PROVE QuietInv'
    BY <1>14 DEF Deliver, Free, Alive
<1>15. ASSUME NEW p \in Server, Reap(p) PROVE QuietInv'
    BY <1>15 DEF Reap, TakeZombie, Alive
<1>16. ASSUME NEW p \in Server, ReapDone(p) PROVE QuietInv'
    BY <1>16 DEF ReapDone, Alive
<1>17. ASSUME NEW p \in Server, Rearm(p) PROVE QuietInv'
    BY <1>17 DEF Rearm, Alive
<1>18. CASE UNCHANGED vars
    BY <1>18
<1> QED
    BY <1>1, <1>2, <1>3, <1>4, <1>5, <1>6, <1>7, <1>8, <1>9, <1>10, <1>11, <1>12,
       <1>13, <1>14, <1>15, <1>16, <1>17, <1>18
       DEF Next, Serve, reapChildren, Starts, RunCommand, Search

\* The daemon gets a SIGCHLD, or is where it will look by itself.
LEMMA SignalledDaemon ==
    TypeOK /\ ArmedInv /\ Signal(Daemon) /\ UNCHANGED <<system, disp, hand>> => ZombieInv'
BY SystemAssumption DEF TypeOK, ArmedInv, Signal, ZombieInv, Server

\* No zombie of the daemon's is forgotten.
LEMMA ZombieStep ==
    TypeOK /\ ServedInv /\ ArmedInv /\ QuietInv /\ ZombieInv /\ [Next]_vars => ZombieInv'
<1> SUFFICES ASSUME TypeOK, ServedInv, ArmedInv, QuietInv, ZombieInv, [Next]_vars
             PROVE  ZombieInv'
    OBVIOUS
<1> USE NameAssumption, SystemAssumption
    DEF vars, works, result, parse, signals, TypeOK, ServedInv, ArmedInv, QuietInv,
        ZombieInv, HasZombie, Server, Forked
<1>1. ASSUME NEW q \in Conn, Fork(q) PROVE ZombieInv'
    BY <1>1 DEF Fork, Goto, Accepting, Free
<1>2. ASSUME NEW q \in Conn, ForkFails(q) PROVE ZombieInv'
    BY <1>2 DEF ForkFails, Goto, Accepting, Free
<1>3. ASSUME NEW q \in Conn, Restore(q) PROVE ZombieInv'
    BY <1>3 DEF Restore, Goto, Alive, Free
<1>4. ASSUME NEW q \in Conn, Starts(q) PROVE ZombieInv'
    BY <1>4 DEF Starts, Ready, Refused, Spawn, SpawnFails, Collected, Goto, Alive, Free
<1>5. ASSUME NEW q \in Conn, Collect(q) PROVE ZombieInv'
    BY <1>5 DEF Collect, Collected, Goto, Alive, Free
<1>6. ASSUME NEW q \in Conn, CollectFails(q) PROVE ZombieInv'
    BY <1>6 DEF CollectFails, Collected, Goto, Alive, Free
<1>7. ASSUME NEW q \in Conn, ParseLine(q) PROVE ZombieInv'
    BY <1>7 DEF ParseLine, Parsing, MoreLines, Alive, Free
<1>8. ASSUME NEW q \in Conn, ParseDone(q) PROVE ZombieInv'
    BY <1>8 DEF ParseDone, Parsing, Goto, Alive, Free
<1>9. ASSUME NEW q \in Conn, Leave(q) PROVE ZombieInv'
    <2>1. Signal(Daemon) => ZombieInv'
        BY <1>9, SignalledDaemon DEF Leave
    <2>2. CASE by[q] = Daemon
        BY <1>9, <2>2 DEF Leave
    <2> QED
        BY <1>9, <2>1, <2>2 DEF Leave
<1>10. ASSUME NEW q \in Conn, Prints(q) PROVE ZombieInv'
    BY <1>10 DEF Prints
<1>11. ASSUME NEW q \in Conn, Exit(q) PROVE ZombieInv'
    <2>1. CASE by[q] = Daemon
        BY <1>11, <2>1, SignalledDaemon DEF Exit, End, Alive
    <2>2. CASE by[q] = q
        BY <1>11, <2>2 DEF Exit, End, Signal
    <2> QED
        BY <1>11, <2>1, <2>2 DEF Exit
<1>12. ASSUME NEW q \in Conn, Expire(q) PROVE ZombieInv'
    <2>1. CASE by[q] = Daemon
        BY <1>12, <2>1, SignalledDaemon DEF Expire, End, Alive
    <2>2. CASE by[q] = q
        BY <1>12, <2>2 DEF Expire, End, Signal
    <2> QED
        BY <1>12, <2>1, <2>2 DEF Expire
<1>13. ASSUME NEW q \in Conn, Crash(q) PROVE ZombieInv'
    BY <1>13, SignalledDaemon DEF Crash
<1>14. ASSUME NEW p \in Server, Deliver(p) PROVE ZombieInv'
    BY <1>14 DEF Deliver, Free, Alive
<1>15. ASSUME NEW p \in Server, Reap(p) PROVE ZombieInv'
    BY <1>15 DEF Reap, TakeZombie, Alive
<1>16. ASSUME NEW p \in Server, ReapDone(p) PROVE ZombieInv'
    BY <1>16 DEF ReapDone, Alive
<1>17. ASSUME NEW p \in Server, Rearm(p) PROVE ZombieInv'
    BY <1>17 DEF Rearm, Alive
<1>18. CASE UNCHANGED vars
    BY <1>18
<1> QED
    BY <1>1, <1>2, <1>3, <1>4, <1>5, <1>6, <1>7, <1>8, <1>9, <1>10, <1>11, <1>12,
       <1>13, <1>14, <1>15, <1>16, <1>17, <1>18
       DEF Next, Serve, reapChildren, Starts, RunCommand, Search

\* The command of a forked child is its own to wait for.
LEMMA WaitStep ==
    TypeOK /\ ServedInv /\ QuietInv /\ WaitInv /\ [Next]_vars => WaitInv'
<1> SUFFICES ASSUME TypeOK, ServedInv, QuietInv, WaitInv, [Next]_vars
             PROVE  WaitInv'
    OBVIOUS
<1> USE NameAssumption, SystemAssumption
    DEF vars, works, result, parse, signals, TypeOK, ServedInv, QuietInv, WaitInv,
        Forked, Started, Told, Server
<1>1. ASSUME NEW q \in Conn, Fork(q) PROVE WaitInv'
    BY <1>1 DEF Fork, Goto, Accepting, Free
<1>2. ASSUME NEW q \in Conn, ForkFails(q) PROVE WaitInv'
    BY <1>2 DEF ForkFails, Goto, Accepting, Free
<1>3. ASSUME NEW q \in Conn, Restore(q) PROVE WaitInv'
    BY <1>3 DEF Restore, Goto, Alive, Free
<1>4. ASSUME NEW q \in Conn, Starts(q) PROVE WaitInv'
    BY <1>4 DEF Starts, Ready, Refused, Spawn, SpawnFails, Collected, Goto, Alive, Free
<1>5. ASSUME NEW q \in Conn, Collect(q) PROVE WaitInv'
    BY <1>5 DEF Collect, Collected, Goto, Alive, Free
<1>6. ASSUME NEW q \in Conn, CollectFails(q) PROVE WaitInv'
    BY <1>6 DEF CollectFails, Collected, Goto, Alive, Free
<1>7. ASSUME NEW q \in Conn, ParseLine(q) PROVE WaitInv'
    BY <1>7 DEF ParseLine, Parsing, MoreLines, Alive, Free
<1>8. ASSUME NEW q \in Conn, ParseDone(q) PROVE WaitInv'
    BY <1>8 DEF ParseDone, Parsing, Goto, Alive, Free
<1>9. ASSUME NEW q \in Conn, Leave(q) PROVE WaitInv'
    BY <1>9 DEF Leave, Goto, Alive, Free, Signal
<1>10. ASSUME NEW q \in Conn, Prints(q) PROVE WaitInv'
    BY <1>10 DEF Prints
<1>11. ASSUME NEW q \in Conn, Exit(q) PROVE WaitInv'
    BY <1>11 DEF Exit, End, Signal, Alive
<1>12. ASSUME NEW q \in Conn, Expire(q) PROVE WaitInv'
    BY <1>12 DEF Expire, End, Signal, Alive
<1>13. ASSUME NEW q \in Conn, Crash(q) PROVE WaitInv'
    BY <1>13 DEF Crash, Signal, Alive
<1>14. ASSUME NEW p \in Server, Deliver(p) PROVE WaitInv'
    BY <1>14 DEF Deliver, Free, Alive
<1>15. ASSUME NEW p \in Server, Reap(p) PROVE WaitInv'
    BY <1>15 DEF Reap, TakeZombie, Alive
<1>16. ASSUME NEW p \in Server, ReapDone(p) PROVE WaitInv'
    BY <1>16 DEF ReapDone, Alive
<1>17. ASSUME NEW p \in Server, Rearm(p) PROVE WaitInv'
    BY <1>17 DEF Rearm, Alive
<1>18. CASE UNCHANGED vars
    BY <1>18
<1> QED
    BY <1>1, <1>2, <1>3, <1>4, <1>5, <1>6, <1>7, <1>8, <1>9, <1>10, <1>11, <1>12,
       <1>13, <1>14, <1>15, <1>16, <1>17, <1>18
       DEF Next, Serve, reapChildren, Starts, RunCommand, Search

\* A grep that ended by itself has printed all.
LEMMA GrepStep ==
    TypeOK /\ ServedInv /\ GrepInv /\ [Next]_vars => GrepInv'
<1> SUFFICES ASSUME TypeOK, ServedInv, GrepInv, [Next]_vars
             PROVE  GrepInv'
    OBVIOUS
<1> USE NameAssumption, SystemAssumption
    DEF vars, works, result, parse, signals, TypeOK, ServedInv, GrepInv, Exits,
        Server
<1>1. ASSUME NEW q \in Conn, Fork(q) PROVE GrepInv'
    BY <1>1 DEF Fork, Goto, Accepting, Free
<1>2. ASSUME NEW q \in Conn, ForkFails(q) PROVE GrepInv'
    BY <1>2 DEF ForkFails, Goto, Accepting, Free
<1>3. ASSUME NEW q \in Conn, Restore(q) PROVE GrepInv'
    BY <1>3 DEF Restore, Goto, Alive, Free
<1>4. ASSUME NEW q \in Conn, Starts(q) PROVE GrepInv'
    <2>1. CASE Refused(q)
        BY <1>4, <2>1 DEF Refused
    <2>2. CASE Spawn(q)
        BY <1>4, <2>2 DEF Spawn
    <2>3. CASE SpawnFails(q)
        BY <1>4, <2>3 DEF SpawnFails, Collected
    <2> QED
        BY <1>4, <2>1, <2>2, <2>3 DEF Starts
<1>5. ASSUME NEW q \in Conn, Collect(q) PROVE GrepInv'
    BY <1>5 DEF Collect, Collected, Goto, Alive, Free
<1>6. ASSUME NEW q \in Conn, CollectFails(q) PROVE GrepInv'
    BY <1>6 DEF CollectFails, Collected, Goto, Alive, Free
<1>7. ASSUME NEW q \in Conn, ParseLine(q) PROVE GrepInv'
    BY <1>7 DEF ParseLine, Parsing, MoreLines, Alive, Free
<1>8. ASSUME NEW q \in Conn, ParseDone(q) PROVE GrepInv'
    BY <1>8 DEF ParseDone, Parsing, Goto, Alive, Free
<1>9. ASSUME NEW q \in Conn, Leave(q) PROVE GrepInv'
    BY <1>9 DEF Leave, Goto, Alive, Free, Signal
<1>10. ASSUME NEW q \in Conn, Prints(q) PROVE GrepInv'
    BY <1>10 DEF Prints
<1>11. ASSUME NEW q \in Conn, Exit(q) PROVE GrepInv'
    BY <1>11 DEF Exit, End, Signal, Alive
<1>12. ASSUME NEW q \in Conn, Expire(q) PROVE GrepInv'
    BY <1>12 DEF Expire, End, Signal, Alive
<1>13. ASSUME NEW q \in Conn, Crash(q) PROVE GrepInv'
    BY <1>13 DEF Crash, Signal, Alive
<1>14. ASSUME NEW p \in Server, Deliver(p) PROVE GrepInv'
    BY <1>14 DEF Deliver, Free, Alive
<1>15. ASSUME NEW p \in Server, Reap(p) PROVE GrepInv'
    BY <1>15 DEF Reap, TakeZombie, Alive
<1>16. ASSUME NEW p \in Server, ReapDone(p) PROVE GrepInv'
    BY <1>16 DEF ReapDone, Alive
<1>17. ASSUME NEW p \in Server, Rearm(p) PROVE GrepInv'
    BY <1>17 DEF Rearm, Alive
<1>18. CASE UNCHANGED vars
    BY <1>18
<1> QED
    BY <1>1, <1>2, <1>3, <1>4, <1>5, <1>6, <1>7, <1>8, <1>9, <1>10, <1>11, <1>12,
       <1>13, <1>14, <1>15, <1>16, <1>17, <1>18
       DEF Next, Serve, reapChildren, Starts, RunCommand, Search

\* The matches of a text, one line at a time.
LEMMA MatchFacts ==
    ASSUME NEW text \in Seq(Line), NEW n \in 0..Len(text)
    PROVE  /\ IsFiniteSet(Matches(text, n))
           /\ Cardinality(Matches(text, n)) \in Nat
           /\ n = 0 => Cardinality(Matches(text, n)) = 0
           /\ \A m \in n..Len(text) :
                Cardinality(Matches(text, n)) <= Cardinality(Matches(text, m))
           /\ n < Len(text) =>
                Cardinality(Matches(text, n + 1)) =
                    IF text[n + 1] = "match" THEN Cardinality(Matches(text, n)) + 1
                    ELSE Cardinality(Matches(text, n))
<1>1. \A m \in 0..Len(text) :
        IsFiniteSet(Matches(text, m)) /\ Cardinality(Matches(text, m)) \in Nat
    <2> SUFFICES ASSUME NEW m \in 0..Len(text)
                 PROVE  IsFiniteSet(Matches(text, m)) /\ Cardinality(Matches(text, m)) \in Nat
        OBVIOUS
    <2>1. IsFiniteSet(1..m)
        BY FS_Interval
    <2>2. Matches(text, m) \subseteq 1..m
        BY DEF Matches
    <2> QED
        BY <2>1, <2>2, FS_Subset, FS_CardinalityType
<1>2. n = 0 => Cardinality(Matches(text, n)) = 0
    <2>1. n = 0 => Matches(text, n) = {}
        BY DEF Matches
    <2> QED
        BY <2>1, FS_EmptySet
<1>3. ASSUME NEW m \in n..Len(text)
      PROVE  Cardinality(Matches(text, n)) <= Cardinality(Matches(text, m))
    <2>1. Matches(text, n) \subseteq Matches(text, m)
        BY DEF Matches
    <2>2. m \in 0..Len(text)
        OBVIOUS
    <2> QED
        BY <1>1, <2>1, <2>2, FS_Subset
<1>4. ASSUME n < Len(text), text[n + 1] = "match"
      PROVE  Cardinality(Matches(text, n + 1)) = Cardinality(Matches(text, n)) + 1
    <2>1. Matches(text, n + 1) = Matches(text, n) \cup {n + 1}
        BY <1>4 DEF Matches
    <2>2. n + 1 \notin Matches(text, n)
        BY DEF Matches
    <2> QED
        BY <1>1, <2>1, <2>2, FS_AddElement
<1>5. ASSUME n < Len(text), text[n + 1] # "match"
      PROVE  Matches(text, n + 1) = Matches(text, n)
    BY <1>5 DEF Matches
<1> QED
    BY <1>1, <1>2, <1>3, <1>4, <1>5

\* The bound on matches is positive whatever the request says.
LEMMA MaxFacts ==
    ASSUME NEW k \in Calls
    PROVE  SearchMax(k) \in Nat \ {0} /\ k.text \in Seq(Line)
<1>1. k.max \in Number \cup {Absent} /\ k.text \in Seq(Line)
    BY DEF Calls
<1>2. k.max # Absent => k.max \in Int
    BY <1>1, NumberAssumption
<1> QED
    BY <1>1, <1>2, DefaultAssumption DEF SearchMax

\* The loop over the output counts the matches, up to "max".
LEMMA ParseStep ==
    TypeOK /\ ServedInv /\ GrepInv /\ ParseInv /\ [Next]_vars => ParseInv'
<1> SUFFICES ASSUME TypeOK, ServedInv, GrepInv, ParseInv, [Next]_vars, NEW c \in Conn
             PROVE  (ParseInv!(c))'
    BY DEF ParseInv
<1> USE DEF vars, works, result, parse, signals
<1>1. ASSUME NEW q \in Conn, ParseLine(q) PROVE (ParseInv!(c))'
    <2>1. CASE q = c
        <3> DEFINE text == call[c].text
                   max  == SearchMax(call[c])
                   n    == Cardinality(Matches(text, at[c]))
        <3>1. /\ text \in Seq(Line) /\ max \in Nat \ {0} /\ at[c] \in 0..Len(text)
              /\ at[c] < Len(text) /\ Len(text) \in Nat /\ sent[c] \in Nat /\ at[c] < sent[c]
            BY <1>1, <2>1, MaxFacts DEF TypeOK, ParseLine, MoreLines, ParseInv, GrepInv
        <3>2. /\ n \in Nat
              /\ Cardinality(Matches(text, at[c] + 1)) = IF text[at[c] + 1] = "match" THEN n + 1 ELSE n
            BY <3>1, MatchFacts
        <3>3. /\ ~truncated[c] /\ step[c] = "parse"
              /\ count[c] = n /\ n <= max
            BY <1>1, <2>1, <3>1, <3>2 DEF ParseLine, MoreLines, Parsing, ParseInv
        <3>4. /\ call' = call /\ sent' = sent /\ step' = step /\ at'[c] = at[c] + 1
              /\ \/ text[at[c] + 1] # "match" /\ count'[c] = n /\ ~truncated'[c]
                 \/ text[at[c] + 1] = "match" /\ n >= max /\ count'[c] = n /\ truncated'[c]
                 \/ text[at[c] + 1] = "match" /\ n < max /\ count'[c] = n + 1 /\ ~truncated'[c]
            BY <1>1, <2>1, <3>1, <3>2, <3>3 DEF ParseLine, TypeOK
        <3> HIDE DEF text, max, n
        <3> QED
            BY <3>1, <3>2, <3>3, <3>4 DEF text, max
    <2>2. CASE q # c
        <3>1. /\ call' = call /\ sent' = sent /\ step' = step /\ rc' = rc
              /\ at'[c] = at[c] /\ count'[c] = count[c] /\ truncated'[c] = truncated[c]
            BY <1>1, <2>2 DEF ParseLine, TypeOK
        <3> QED
            BY <3>1 DEF ParseInv, MoreLines
    <2> QED
        BY <2>1, <2>2
<1>2. ASSUME NEW q \in Conn, ParseDone(q) PROVE (ParseInv!(c))'
    <2>1. /\ call' = call /\ sent' = sent /\ rc' = rc /\ UNCHANGED parse
          /\ step' = [step EXCEPT ![q] = "answered"] /\ step[q] = "parse" /\ ~MoreLines(q)
        BY <1>2 DEF ParseDone, Parsing, Goto
    <2> QED
        BY <2>1 DEF ParseInv, MoreLines, TypeOK
<1>3. ASSUME NEW q \in Conn, Starts(q) PROVE (ParseInv!(c))'
    <2>1. /\ call' = call /\ sent' = sent /\ UNCHANGED parse
          /\ step[q] = "ready"
        BY <1>3 DEF Starts, Ready, Refused, Spawn, SpawnFails
    <2>2. CASE Refused(q)
        <3>1. rc' = rc /\ step' = [step EXCEPT ![q] = "answered"] /\ ~call[q].good
            BY <2>2 DEF Refused, Goto
        <3> QED
            BY <2>1, <3>1 DEF ParseInv, MoreLines, TypeOK
    <2>3. CASE Spawn(q)
        <3>1. rc' = rc /\ step' = [step EXCEPT ![q] = "waits"]
            BY <2>3 DEF Spawn, Goto
        <3> QED
            BY <2>1, <3>1 DEF ParseInv, MoreLines, TypeOK
    <2>4. CASE SpawnFails(q)
        <3>1. /\ step' = [step EXCEPT ![q] = IF call[q].verb = "search" THEN "parse" ELSE "answered"]
              /\ q # c => rc'[c] = rc[c]
            BY <2>4 DEF SpawnFails, Collected, Goto, TypeOK
        <3> QED
            BY <2>1, <3>1 DEF ParseInv, MoreLines, TypeOK
    <2> QED
        BY <1>3, <2>2, <2>3, <2>4 DEF Starts
<1>4. ASSUME NEW q \in Conn, Collect(q) \/ CollectFails(q) PROVE (ParseInv!(c))'
    <2>1. /\ call' = call /\ sent' = sent /\ UNCHANGED parse
          /\ step[q] = "waits"
          /\ step' = [step EXCEPT ![q] = IF call[q].verb = "search" THEN "parse" ELSE "answered"]
          /\ q # c => rc'[c] = rc[c]
        BY <1>4 DEF Collect, CollectFails, Collected, Goto, TypeOK
    <2> QED
        BY <2>1 DEF ParseInv, MoreLines, TypeOK
<1>5. ASSUME NEW q \in Conn, Prints(q) PROVE (ParseInv!(c))'
    <2>1. /\ UNCHANGED <<call, step, rc, parse>> /\ sent' = [sent EXCEPT ![q] = @ + 1]
          /\ cmd[q] = "runs"
        BY <1>5 DEF Prints
    <2>2. step[q] \notin {"answered", "closed"}
        BY <2>1 DEF ServedInv
    <2> QED
        BY <2>1, <2>2 DEF ParseInv, MoreLines, TypeOK
<1>6. ASSUME NEW q \in Conn, Fork(q) \/ ForkFails(q) \/ Restore(q) \/ Leave(q)
      PROVE (ParseInv!(c))'
    <2>1. /\ UNCHANGED <<call, sent, rc, parse>>
          /\ \/ step[q] \in {"new", "forked"} /\ \E s \in {"forked", "ready"} : step' = [step EXCEPT ![q] = s]
             \/ step[q] = "answered" /\ step' = [step EXCEPT ![q] = "closed"]
        BY <1>6 DEF Fork, ForkFails, Restore, Leave, Goto, ServedInv
    <2> QED
        BY <2>1 DEF ParseInv, MoreLines, TypeOK
<1>7. ASSUME UNCHANGED <<call, sent, rc, step, parse>> PROVE (ParseInv!(c))'
    BY <1>7 DEF ParseInv, MoreLines
<1>8. ASSUME NEW q \in Conn, Exit(q) \/ Expire(q) \/ Crash(q) PROVE (ParseInv!(c))'
    BY <1>7, <1>8 DEF Exit, Expire, Crash
<1>9. ASSUME NEW p \in Server, reapChildren(p) PROVE (ParseInv!(c))'
    BY <1>7, <1>9 DEF reapChildren, Deliver, Reap, ReapDone, Rearm
<1>10. CASE UNCHANGED vars
    BY <1>7, <1>10
<1> QED
    BY <1>1, <1>2, <1>3, <1>4, <1>5, <1>6, <1>8, <1>9, <1>10
    DEF Next, Serve, Starts, RunCommand, Search

LEMMA InitInv == Init => Inv
<1> SUFFICES ASSUME Init PROVE Inv
    OBVIOUS
<1>1. TypeOK
    BY NameAssumption, StatusAssumption, WorkloadAssumption
    DEF Init, TypeOK, Server, Life, Code
<1>2. ServedInv /\ QuietInv /\ WaitInv
    BY NameAssumption DEF Init, ServedInv, QuietInv, WaitInv, Forked, Started, Told,
       Server
<1>3. ArmedInv /\ ZombieInv
    BY DEF Init, ArmedInv, ZombieInv, HasZombie, Server
<1>4. \A c \in Conn : call[c].text \in Seq(Line) /\ SearchMax(call[c]) \in Nat \ {0}
    BY <1>1, MaxFacts DEF TypeOK
<1>5. GrepInv
    BY <1>4 DEF Init, GrepInv
<1>6. \A c \in Conn : Cardinality(Matches(call[c].text, 0)) = 0
    BY <1>4, MatchFacts
<1>7. ParseInv
    BY <1>4, <1>6 DEF Init, ParseInv
<1> QED
    BY <1>1, <1>2, <1>3, <1>5, <1>7 DEF Inv

\* The invariant holds for any connections, requests, statuses and outputs, on
\* hosts of either kind.
THEOREM Invariance == Spec => []Inv
<1>1. Inv /\ [Next]_vars => Inv'
    BY TypeStep, ServedStep, ArmedStep, QuietStep, ZombieStep, WaitStep, GrepStep,
       ParseStep DEF Inv
<1> QED
    BY InitInv, <1>1, PTL DEF Spec

\* A request served by a child of its own is told its own command's status, if the
\* command could be started at all:
\* main() gives SIGCHLD back to the default before the first request is read.
THEOREM StatusIsOwn == Spec => []OwnStatus
<1>1. Inv => OwnStatus
    BY DEF Inv, WaitInv, OwnStatus
<1> QED
    BY Invariance, <1>1, PTL

\* A search that is ok returns every match up to "max", and says so when there are
\* more, whatever the output of its grep: all the matches there are, or those printed
\* before the deadline.  It is of searches whose grep was started, in a child of
\* their own.
THEOREM SearchIsHonest == Spec => []SearchHonest
<1>1. ASSUME Inv, NEW c \in Conn,
             call[c].verb = "search", Told(c), Forked(c), Started(c), Ok(c)
      PROVE  LET txt == call[c].text
                 tot == Cardinality(Matches(txt, IF expired[c] THEN sent[c]
                                                 ELSE Len(txt)))
                 mx  == SearchMax(call[c])
             IN  /\ truncated[c] <=> tot > mx
                 /\ count[c] = IF tot > mx THEN mx ELSE tot
    <2> DEFINE text == call[c].text
               max  == SearchMax(call[c])
               out  == IF expired[c] THEN sent[c] ELSE Len(text)
               n    == Cardinality(Matches(text, at[c]))
               all  == Cardinality(Matches(text, out))
    <2>1. text \in Seq(Line) /\ max \in Nat \ {0} /\ Len(text) \in Nat
        BY <1>1, MaxFacts DEF Inv, TypeOK
    <2>2. rc[c] \in Int /\ rc[c] < 2 /\ (~expired[c] => rc[c] = status[c])
        <3>1. rc[c] = (IF expired[c] THEN -1 ELSE status[c]) /\ ~(rc[c] >= 2)
            BY <1>1 DEF Inv, WaitInv, Ok, GrepFailed
        <3>2. status[c] \in Nat
            BY <1>1, StatusAssumption DEF Inv, TypeOK
        <3> QED
            BY <3>1, <3>2
    <2>3. cmd[c] = "reaped"
        BY <1>1 DEF Inv, ServedInv, Told, Started
    <2>4. sent[c] = out /\ sent[c] \in Nat /\ sent[c] <= Len(text)
        BY <1>1, <2>2, <2>3 DEF Inv, TypeOK, GrepInv
    <2>5. at[c] \in 0..out /\ (truncated[c] \/ at[c] = out)
        <3>1. at[c] \in Nat /\ at[c] <= sent[c] /\ ~MoreLines(c)
            BY <1>1 DEF Inv, TypeOK, ParseInv, Told
        <3>2. ~(rc[c] <= 1 /\ ~truncated[c] /\ at[c] < sent[c])
            BY <3>1 DEF MoreLines
        <3> HIDE DEF text, out
        <3> QED
            BY <3>1, <3>2, <2>2, <2>4
    <2>6. at[c] \in 0..Len(text) /\ out \in at[c]..Len(text) /\ out \in 0..Len(text)
        <3> HIDE DEF text, out
        <3> QED
            BY <2>1, <2>4, <2>5
    <2>7. n \in Nat /\ all \in Nat /\ n <= all
        <3> HIDE DEF text, out
        <3> QED
            BY <2>1, <2>6, MatchFacts
    <2>8. (truncated[c] <=> n > max) /\ count[c] = IF n > max THEN max ELSE n
        BY <1>1 DEF Inv, ParseInv
    <2>9. (truncated[c] <=> all > max) /\ count[c] = IF all > max THEN max ELSE all
        <3> HIDE DEF text, max, out
        <3>1. CASE truncated[c]
            BY <3>1, <2>1, <2>7, <2>8
        <3>2. CASE ~truncated[c]
            BY <3>2, <2>1, <2>5, <2>7, <2>8
        <3> QED
            BY <3>1, <3>2
    <2> QED
        BY <2>9
<1>2. Inv => SearchHonest
    BY <1>1 DEF SearchHonest
<1> QED
    BY Invariance, <1>2, PTL

(***************************************************************************)
(* Progress.  What is behind AllReaped, which itself is about fairness and *)
(* is left to TLC: whoever ends has a process that will ask for it.        *)
(***************************************************************************)

\* A command that has ended has a parent that is alive and waits for it.
ParentInv ==
    \A c \in Conn : cmd[c] = "zombie" => step[c] = "waits" /\ Alive(by[c])

\* A process that is killed leaves its command to init; one that leaves by itself
\* has waited for it.
LEMMA ParentStep ==
    TypeOK /\ ServedInv /\ ParentInv /\ [Next]_vars => ParentInv'
<1> SUFFICES ASSUME TypeOK, ServedInv, ParentInv, [Next]_vars
             PROVE  ParentInv'
    OBVIOUS
<1> USE NameAssumption
    DEF vars, works, result, parse, signals, TypeOK, ServedInv, ParentInv, Server, Life,
        Alive
<1>1. ASSUME NEW q \in Conn, Fork(q) PROVE ParentInv'
    BY <1>1 DEF Fork, Goto, Accepting, Free
<1>2. ASSUME NEW q \in Conn, ForkFails(q) PROVE ParentInv'
    BY <1>2 DEF ForkFails, Goto, Accepting, Free
<1>3. ASSUME NEW q \in Conn, Restore(q) PROVE ParentInv'
    BY <1>3 DEF Restore, Goto, Free
<1>4. ASSUME NEW q \in Conn, Starts(q) PROVE ParentInv'
    BY <1>4 DEF Starts, Ready, Refused, Spawn, SpawnFails, Collected, Goto, Free
<1>5. ASSUME NEW q \in Conn, Collect(q) PROVE ParentInv'
    BY <1>5 DEF Collect, Collected, Goto, Free
<1>6. ASSUME NEW q \in Conn, CollectFails(q) PROVE ParentInv'
    BY <1>6 DEF CollectFails, Collected, Goto, Free
<1>7. ASSUME NEW q \in Conn, ParseLine(q) PROVE ParentInv'
    BY <1>7 DEF ParseLine
<1>8. ASSUME NEW q \in Conn, ParseDone(q) PROVE ParentInv'
    BY <1>8 DEF ParseDone, Parsing, Goto, Free
<1>9. ASSUME NEW q \in Conn, Leave(q) PROVE ParentInv'
    BY <1>9 DEF Leave, Goto, Free, Signal
<1>10. ASSUME NEW q \in Conn, Prints(q) PROVE ParentInv'
    BY <1>10 DEF Prints
<1>11. ASSUME NEW q \in Conn, Exit(q) PROVE ParentInv'
    BY <1>11 DEF Exit, End, Signal
<1>12. ASSUME NEW q \in Conn, Expire(q) PROVE ParentInv'
    BY <1>12 DEF Expire, End, Signal
<1>13. ASSUME NEW q \in Conn, Crash(q) PROVE ParentInv'
    BY <1>13 DEF Crash, Signal
<1>14. ASSUME NEW p \in Server, Deliver(p) PROVE ParentInv'
    BY <1>14 DEF Deliver
<1>15. ASSUME NEW p \in Server, Reap(p) PROVE ParentInv'
    BY <1>15 DEF Reap, TakeZombie
<1>16. ASSUME NEW p \in Server, ReapDone(p) PROVE ParentInv'
    BY <1>16 DEF ReapDone
<1>17. ASSUME NEW p \in Server, Rearm(p) PROVE ParentInv'
    BY <1>17 DEF Rearm
<1>18. CASE UNCHANGED vars
    BY <1>18
<1> QED
    BY <1>1, <1>2, <1>3, <1>4, <1>5, <1>6, <1>7, <1>8, <1>9, <1>10, <1>11, <1>12,
       <1>13, <1>14, <1>15, <1>16, <1>17, <1>18
       DEF Next, Serve, reapChildren, Starts, RunCommand, Search

\* The handler is on its way: a SIGCHLD is pending, or reapChildren() has still to
\* look, or signal() has, which posts another on the System V hosts.
Noticed ==
    \/ Daemon \in pending /\ disp[Daemon] = "reap"
    \/ Daemon \in pending /\ hand[Daemon] # "main"
    \/ hand[Daemon] = "drain"
    \/ hand[Daemon] = "rearm" /\ system = "svr4"

\* No zombie is forgotten, however the ends of children coincide with one SIGCHLD or
\* with the handler (reapChildren, main): for a connection's child the daemon has
\* still to look, and a command that has ended is what its own parent, which is
\* alive, waits for in CxProcess.
THEOREM NoZombieIsForgotten ==
    Spec => [](\A c \in Conn :
                /\ child[c] = "zombie" => Noticed
                /\ cmd[c] = "zombie" => step[c] = "waits" /\ Alive(by[c]))
<1>1. Inv => \A c \in Conn : child[c] = "zombie" => Noticed
    BY DEF Inv, TypeOK, ZombieInv, HasZombie, ArmedInv, Noticed, Server
<1>2. Init => ParentInv
    BY DEF Init, ParentInv
<1>3. Inv /\ ParentInv /\ [Next]_vars => ParentInv'
    BY ParentStep DEF Inv
<1>4. Inv /\ ParentInv => \A c \in Conn :
        /\ child[c] = "zombie" => Noticed
        /\ cmd[c] = "zombie" => step[c] = "waits" /\ Alive(by[c])
    BY <1>1 DEF ParentInv
<1> QED
    BY <1>2, <1>3, <1>4, Invariance, PTL DEF Spec
==============================================================================
