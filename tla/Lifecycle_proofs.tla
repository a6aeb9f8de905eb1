--------------------------- MODULE Lifecycle_proofs ---------------------------
(***************************************************************************)
(* Proofs about Lifecycle, for any pids, scripts, commands and faults.     *)
(*                                                                         *)
(* OneDaemon and NoStalePid hold almost by themselves.  Findable needs to  *)
(* know what a daemon finds in its pidfile when it writes it, and that a   *)
(* SIGTERM does not reach a child of a connection; SignalsADaemon that one *)
(* script at a time looks for the daemon, and begins when no signal is     *)
(* under way.                                                              *)
(***************************************************************************)
EXTENDS Lifecycle, TLAPS

\* The processes of a connection.
Serves == {"forked", "child", "halting"}

\* A free pid has no signal; a daemon knows its pidfile from the time it opens
\* it; whose open pidfile is at the path is still opening it.
Basics ==
    /\ \A p \in term : pc[p] # "free"
    /\ \A p \in Pid : pc[p] \in {"open", "serving"} => p \in gpath
    /\ \A p \in gpath : pc[p] \in {"open", "serving", "leaving"} \cup Serves
    /\ \A p \in mine : pc[p] = "open"

Untouched == hit \cap {"open", "shutdown", "termChild", "reuse"} = {}

\* The pidfile is the daemon's, or a shutdown that is not over has removed it;
\* and nobody has, or is about to send, a signal for a child of a connection.
Recorded ==
    Untouched =>
        /\ \A p \in Pid : pc[p] = "serving" =>
            pidfile = p \/ (pidfile = Absent /\ (Halting \/ down))
        /\ \A p \in Pid : pc[p] = "open" =>
            \/ p \in mine /\ pidfile = Empty
            \/ p \notin mine /\ pidfile = Absent /\ (Halting \/ down)
        /\ \A p \in term : pc[p] \notin Serves
        /\ pidfile \in Pid => pc[pidfile] \notin Serves
        /\ \A s \in Script : (step[s] = "kill" /\ target[s] \in Pid) =>
            pc[target[s]] \notin Serves

InTurn == hit \cap {"late", "overlap", "crash"} = {}

\* One script at a time; while it looks for the daemon no signal is under way
\* to one, and what it has found serves.
Turns ==
    InTurn =>
        /\ \A s, t \in Script : (step[s] # "idle" /\ step[t] # "idle") => s = t
        /\ \A s \in Script : step[s] \in {"test", "cat", "kill"} =>
            \A p \in term : pc[p] \in Serves \cup {"leaving"}
        /\ \A s \in Script : (step[s] = "kill" /\ target[s] \in Pid) =>
            pc[target[s]] = "serving"

Inv == TypeOK /\ OneDaemon /\ Basics /\ NoStalePid /\ Recorded /\ Turns

LEMMA InitInv == Init => Inv
<1>. SUFFICES ASSUME Init PROVE Inv
  OBVIOUS
<1>1. TypeOK
  <2>1. down \in BOOLEAN
    BY Zenon DEF Init
  <2>. QED  BY <2>1, BoundAssumption DEF Init, TypeOK, Place
<1>2. OneDaemon /\ Basics
  BY DEF Init, OneDaemon, Detached, Basics
<1>3. NoStalePid
  BY NameAssumption DEF Init, NoStalePid
<1>4. Recorded /\ Turns
  BY NameAssumption DEF Init, Recorded, Turns
<1>. QED  BY <1>1, <1>2, <1>3, <1>4 DEF Inv

LEMMA TypeStep == ASSUME Inv, Next PROVE TypeOK'
<1>. USE NameAssumption, BoundAssumption, FaultAssumption
         DEF Inv, TypeOK, procVars, fileVars, scriptVars, world
<1>1. ASSUME NEW s \in Script, NEW c \in {"start", "stop", "restart"}, Invoke(s, c)
       PROVE  TypeOK'
  BY <1>1 DEF Invoke, Disturbed, TypeOK, Place, Hit
<1>2. ASSUME NEW s \in Script, StopTest(s) PROVE TypeOK'
  BY <1>2 DEF StopTest, AfterStop, TypeOK, Place, Hit
<1>3. ASSUME NEW s \in Script, StopCat(s) PROVE TypeOK'
  BY <1>3 DEF StopCat, TypeOK, Place, Hit
<1>4. ASSUME NEW s \in Script, StopKill(s) PROVE TypeOK'
  BY <1>4 DEF StopKill, AfterStop, TypeOK, Place, Hit
<1>5. ASSUME NEW s \in Script, Sleep(s) PROVE TypeOK'
  BY <1>5 DEF Sleep, Disturbed, TypeOK, Place, Hit
<1>6. ASSUME NEW s \in Script, Launch(s) PROVE TypeOK'
  BY <1>6 DEF Launch, Takes, At, TypeOK, Place, Hit
<1>7. ASSUME NEW p \in Pid, Bind(p) PROVE TypeOK'
  BY <1>7 DEF Bind, At, TypeOK, Place, Hit
<1>8. ASSUME NEW p \in Pid, BindFails(p) PROVE TypeOK'
  BY <1>8 DEF BindFails, Gone, At, Return, Awaits, TypeOK, Place, Hit
<1>9. ASSUME NEW p \in Pid, FirstFork(p) PROVE TypeOK'
  BY <1>9 DEF FirstFork, Detach, Takes, Return, Awaits, TypeOK, Place, Hit
<1>10. ASSUME NEW p \in Pid, FirstForkFails(p) PROVE TypeOK'
  BY <1>10 DEF FirstForkFails, Gone, At, Return, Awaits, TypeOK, Place, Hit
<1>11. ASSUME NEW p \in Pid, SecondFork(p) PROVE TypeOK'
  BY <1>11 DEF SecondFork, Detach, Takes, TypeOK, Place, Hit
<1>12. ASSUME NEW p \in Pid, SecondForkFails(p) PROVE TypeOK'
  BY <1>12 DEF SecondForkFails, Gone, At, TypeOK, Place, Hit
<1>13. ASSUME NEW p \in Pid, OpenPidFile(p) PROVE TypeOK'
  BY <1>13 DEF OpenPidFile, At, TypeOK, Place, Hit
<1>14. ASSUME NEW p \in Pid, OpenPidFileFails(p) PROVE TypeOK'
  BY <1>14 DEF OpenPidFileFails, At, TypeOK, Place, Hit
<1>15. ASSUME NEW p \in Pid, WritePidFile(p) PROVE TypeOK'
  BY <1>15 DEF WritePidFile, At, TypeOK, Place, Hit
<1>16. ASSUME NEW p \in Pid, CloseServer(p) PROVE TypeOK'
  BY <1>16 DEF CloseServer, At, TypeOK, Place, Hit
<1>17. ASSUME NEW p \in Pid, TermUnlink(p) PROVE TypeOK'
  BY <1>17 DEF TermUnlink, At, Unlink, Alive, TypeOK, Place, Hit
<1>18. ASSUME NEW p \in Pid, TermExit(p) PROVE TypeOK'
  BY <1>18 DEF TermExit, Gone, At, Return, Awaits, TypeOK, Place, Hit
<1>19. ASSUME NEW p \in Pid, TermOther(p) PROVE TypeOK'
  BY <1>19 DEF TermOther, Gone, At, TypeOK, Place, Hit
<1>20. ASSUME NEW p \in Pid, Accept(p) PROVE TypeOK'
  BY <1>20 DEF Accept, Takes, At, TypeOK, Place, Hit
<1>21. ASSUME NEW p \in Pid, ChildDone(p) PROVE TypeOK'
  BY <1>21 DEF ChildDone, Gone, At, TypeOK, Place, Hit
<1>22. ASSUME NEW p \in Pid, Shutdown(p) PROVE TypeOK'
  BY <1>22 DEF Shutdown, At, Unlink, TypeOK, Place, Hit
<1>23. ASSUME NEW p \in Pid, HaltWorks(p) PROVE TypeOK'
  BY <1>23 DEF HaltWorks, TypeOK, Place, Hit
<1>24. ASSUME NEW p \in Pid, HaltFails(p) PROVE TypeOK'
  BY <1>24 DEF HaltFails, Gone, At, TypeOK, Place, Hit
<1>25. ASSUME NEW p \in Pid, SignalChild(p) PROVE TypeOK'
  BY <1>25 DEF SignalChild, TypeOK, Place, Hit
<1>26. ASSUME NEW p \in Pid, Crash(p) PROVE TypeOK'
  BY <1>26 DEF Crash, Gone, At, TypeOK, Place, Hit
<1>27. ASSUME NEW p \in Pid, Stranger(p) PROVE TypeOK'
  BY <1>27 DEF Stranger, Takes, At, TypeOK, Place, Hit
<1>28. ASSUME NEW p \in Pid, StrangerLeaves(p) PROVE TypeOK'
  BY <1>28 DEF StrangerLeaves, Gone, At, TypeOK, Place, Hit
<1>. QED  BY <1>1, <1>2, <1>3, <1>4, <1>5, <1>6, <1>7, <1>8, <1>9, <1>10, <1>11, <1>12, <1>13,
          <1>14, <1>15, <1>16, <1>17, <1>18, <1>19, <1>20, <1>21, <1>22, <1>23, <1>24, <1>25,
          <1>26, <1>27, <1>28 DEF Next, Own, Served, World, ScriptStep

\* Whoever binds finds nobody with the socket, and a fork() hands it on.
LEMMA DaemonStep == ASSUME Inv, Next PROVE OneDaemon'
<1>. USE DEF Inv, TypeOK, procVars, fileVars, scriptVars, world
<1>1. ASSUME NEW s \in Script, NEW c \in {"start", "stop", "restart"}, Invoke(s, c)
       PROVE  OneDaemon'
  BY <1>1 DEF Invoke, Disturbed, OneDaemon, Detached
<1>2. ASSUME NEW s \in Script, StopTest(s) PROVE OneDaemon'
  BY <1>2 DEF StopTest, AfterStop, OneDaemon, Detached
<1>3. ASSUME NEW s \in Script, StopCat(s) PROVE OneDaemon'
  BY <1>3 DEF StopCat, OneDaemon, Detached
<1>4. ASSUME NEW s \in Script, StopKill(s) PROVE OneDaemon'
  BY <1>4 DEF StopKill, AfterStop, OneDaemon, Detached
<1>5. ASSUME NEW s \in Script, Sleep(s) PROVE OneDaemon'
  BY <1>5 DEF Sleep, Disturbed, OneDaemon, Detached
<1>6. ASSUME NEW s \in Script, Launch(s) PROVE OneDaemon'
  BY <1>6 DEF Launch, Takes, At, OneDaemon, Detached
<1>7. ASSUME NEW p \in Pid, Bind(p) PROVE OneDaemon'
  BY <1>7 DEF Bind, At, OneDaemon, Detached
<1>8. ASSUME NEW p \in Pid, BindFails(p) PROVE OneDaemon'
  BY <1>8 DEF BindFails, Gone, At, Return, Awaits, OneDaemon, Detached
<1>9. ASSUME NEW p \in Pid, FirstFork(p) PROVE OneDaemon'
  BY <1>9 DEF FirstFork, Detach, Takes, Return, Awaits, OneDaemon, Detached
<1>10. ASSUME NEW p \in Pid, FirstForkFails(p) PROVE OneDaemon'
  BY <1>10 DEF FirstForkFails, Gone, At, Return, Awaits, OneDaemon, Detached
<1>11. ASSUME NEW p \in Pid, SecondFork(p) PROVE OneDaemon'
  BY <1>11 DEF SecondFork, Detach, Takes, OneDaemon, Detached
<1>12. ASSUME NEW p \in Pid, SecondForkFails(p) PROVE OneDaemon'
  BY <1>12 DEF SecondForkFails, Gone, At, OneDaemon, Detached
<1>13. ASSUME NEW p \in Pid, OpenPidFile(p) PROVE OneDaemon'
  BY <1>13 DEF OpenPidFile, At, OneDaemon, Detached
<1>14. ASSUME NEW p \in Pid, OpenPidFileFails(p) PROVE OneDaemon'
  BY <1>14 DEF OpenPidFileFails, At, OneDaemon, Detached
<1>15. ASSUME NEW p \in Pid, WritePidFile(p) PROVE OneDaemon'
  BY <1>15 DEF WritePidFile, At, OneDaemon, Detached
<1>16. ASSUME NEW p \in Pid, CloseServer(p) PROVE OneDaemon'
  BY <1>16 DEF CloseServer, At, OneDaemon, Detached
<1>17. ASSUME NEW p \in Pid, TermUnlink(p) PROVE OneDaemon'
  BY <1>17 DEF TermUnlink, At, Unlink, Alive, OneDaemon, Detached
<1>18. ASSUME NEW p \in Pid, TermExit(p) PROVE OneDaemon'
  BY <1>18 DEF TermExit, Gone, At, Return, Awaits, OneDaemon, Detached
<1>19. ASSUME NEW p \in Pid, TermOther(p) PROVE OneDaemon'
  BY <1>19 DEF TermOther, Gone, At, OneDaemon, Detached
<1>20. ASSUME NEW p \in Pid, Accept(p) PROVE OneDaemon'
  BY <1>20 DEF Accept, Takes, At, OneDaemon, Detached
<1>21. ASSUME NEW p \in Pid, ChildDone(p) PROVE OneDaemon'
  BY <1>21 DEF ChildDone, Gone, At, OneDaemon, Detached
<1>22. ASSUME NEW p \in Pid, Shutdown(p) PROVE OneDaemon'
  BY <1>22 DEF Shutdown, At, Unlink, OneDaemon, Detached
<1>23. ASSUME NEW p \in Pid, HaltWorks(p) PROVE OneDaemon'
  BY <1>23 DEF HaltWorks, OneDaemon, Detached
<1>24. ASSUME NEW p \in Pid, HaltFails(p) PROVE OneDaemon'
  BY <1>24 DEF HaltFails, Gone, At, OneDaemon, Detached
<1>25. ASSUME NEW p \in Pid, SignalChild(p) PROVE OneDaemon'
  BY <1>25 DEF SignalChild, OneDaemon, Detached
<1>26. ASSUME NEW p \in Pid, Crash(p) PROVE OneDaemon'
  BY <1>26 DEF Crash, Gone, At, OneDaemon, Detached
<1>27. ASSUME NEW p \in Pid, Stranger(p) PROVE OneDaemon'
  BY <1>27 DEF Stranger, Takes, At, OneDaemon, Detached
<1>28. ASSUME NEW p \in Pid, StrangerLeaves(p) PROVE OneDaemon'
  BY <1>28 DEF StrangerLeaves, Gone, At, OneDaemon, Detached
<1>. QED  BY <1>1, <1>2, <1>3, <1>4, <1>5, <1>6, <1>7, <1>8, <1>9, <1>10, <1>11, <1>12, <1>13,
          <1>14, <1>15, <1>16, <1>17, <1>18, <1>19, <1>20, <1>21, <1>22, <1>23, <1>24, <1>25,
          <1>26, <1>27, <1>28 DEF Next, Own, Served, World, ScriptStep

LEMMA BasicsStep == ASSUME Inv, Next PROVE Basics'
<1>. USE DEF Inv, TypeOK, procVars, fileVars, scriptVars, world
<1>1. ASSUME NEW s \in Script, NEW c \in {"start", "stop", "restart"}, Invoke(s, c)
       PROVE  Basics'
  BY <1>1 DEF Invoke, Disturbed, Basics, Serves, Detached
<1>2. ASSUME NEW s \in Script, StopTest(s) PROVE Basics'
  BY <1>2 DEF StopTest, AfterStop, Basics, Serves, Detached
<1>3. ASSUME NEW s \in Script, StopCat(s) PROVE Basics'
  BY <1>3 DEF StopCat, Basics, Serves, Detached
<1>4. ASSUME NEW s \in Script, StopKill(s) PROVE Basics'
  BY <1>4 DEF StopKill, AfterStop, Basics, Serves, Detached
<1>5. ASSUME NEW s \in Script, Sleep(s) PROVE Basics'
  BY <1>5 DEF Sleep, Disturbed, Basics, Serves, Detached
<1>6. ASSUME NEW s \in Script, Launch(s) PROVE Basics'
  BY <1>6 DEF Launch, Takes, At, Basics, Serves, Detached
<1>7. ASSUME NEW p \in Pid, Bind(p) PROVE Basics'
  BY <1>7 DEF Bind, At, Basics, Serves, Detached
<1>8. ASSUME NEW p \in Pid, BindFails(p) PROVE Basics'
  BY <1>8 DEF BindFails, Gone, At, Return, Awaits, Basics, Serves, Detached
<1>9. ASSUME NEW p \in Pid, FirstFork(p) PROVE Basics'
  BY <1>9 DEF FirstFork, Detach, Takes, Return, Awaits, Basics, Serves, Detached
<1>10. ASSUME NEW p \in Pid, FirstForkFails(p) PROVE Basics'
  BY <1>10 DEF FirstForkFails, Gone, At, Return, Awaits, Basics, Serves, Detached
<1>11. ASSUME NEW p \in Pid, SecondFork(p) PROVE Basics'
  BY <1>11 DEF SecondFork, Detach, Takes, Basics, Serves, Detached
<1>12. ASSUME NEW p \in Pid, SecondForkFails(p) PROVE Basics'
  BY <1>12 DEF SecondForkFails, Gone, At, Basics, Serves, Detached
<1>13. ASSUME NEW p \in Pid, OpenPidFile(p) PROVE Basics'
  BY <1>13 DEF OpenPidFile, At, Basics, Serves, Detached
<1>14. ASSUME NEW p \in Pid, OpenPidFileFails(p) PROVE Basics'
  BY <1>14 DEF OpenPidFileFails, At, Basics, Serves, Detached
<1>15. ASSUME NEW p \in Pid, WritePidFile(p) PROVE Basics'
  BY <1>15 DEF WritePidFile, At, Basics, Serves, Detached
<1>16. ASSUME NEW p \in Pid, CloseServer(p) PROVE Basics'
  BY <1>16 DEF CloseServer, At, Basics, Serves, Detached
<1>17. ASSUME NEW p \in Pid, TermUnlink(p) PROVE Basics'
  BY <1>17 DEF TermUnlink, At, Unlink, Alive, Basics, Serves, Detached
<1>18. ASSUME NEW p \in Pid, TermExit(p) PROVE Basics'
  BY <1>18 DEF TermExit, Gone, At, Return, Awaits, Basics, Serves, Detached
<1>19. ASSUME NEW p \in Pid, TermOther(p) PROVE Basics'
  BY <1>19 DEF TermOther, Gone, At, Basics, Serves, Detached
<1>20. ASSUME NEW p \in Pid, Accept(p) PROVE Basics'
  BY <1>20 DEF Accept, Takes, At, Basics, Serves, Detached
<1>21. ASSUME NEW p \in Pid, ChildDone(p) PROVE Basics'
  BY <1>21 DEF ChildDone, Gone, At, Basics, Serves, Detached
<1>22. ASSUME NEW p \in Pid, Shutdown(p) PROVE Basics'
  BY <1>22 DEF Shutdown, At, Unlink, Basics, Serves, Detached
<1>23. ASSUME NEW p \in Pid, HaltWorks(p) PROVE Basics'
  BY <1>23 DEF HaltWorks, Basics, Serves, Detached
<1>24. ASSUME NEW p \in Pid, HaltFails(p) PROVE Basics'
  BY <1>24 DEF HaltFails, Gone, At, Basics, Serves, Detached
<1>25. ASSUME NEW p \in Pid, SignalChild(p) PROVE Basics'
  BY <1>25 DEF SignalChild, Basics, Serves, Detached
<1>26. ASSUME NEW p \in Pid, Crash(p) PROVE Basics'
  BY <1>26 DEF Crash, Gone, At, Basics, Serves, Detached
<1>27. ASSUME NEW p \in Pid, Stranger(p) PROVE Basics'
  BY <1>27 DEF Stranger, Takes, At, Basics, Serves, Detached
<1>28. ASSUME NEW p \in Pid, StrangerLeaves(p) PROVE Basics'
  BY <1>28 DEF StrangerLeaves, Gone, At, Basics, Serves, Detached
<1>. QED  BY <1>1, <1>2, <1>3, <1>4, <1>5, <1>6, <1>7, <1>8, <1>9, <1>10, <1>11, <1>12, <1>13,
          <1>14, <1>15, <1>16, <1>17, <1>18, <1>19, <1>20, <1>21, <1>22, <1>23, <1>24, <1>25,
          <1>26, <1>27, <1>28 DEF Next, Own, Served, World, ScriptStep

\* The daemon that the pidfile names leaves through termHandler() or is killed.
LEMMA StaleStep == ASSUME Inv, Next PROVE NoStalePid'
<1>. USE NameAssumption, BoundAssumption, FaultAssumption
         DEF Inv, TypeOK, procVars, fileVars, scriptVars, world
<1>1. ASSUME NEW s \in Script, NEW c \in {"start", "stop", "restart"}, Invoke(s, c)
       PROVE  NoStalePid'
  BY <1>1 DEF Invoke, Disturbed, NoStalePid, Basics, Serves, Hit, Detached
<1>2. ASSUME NEW s \in Script, StopTest(s) PROVE NoStalePid'
  BY <1>2 DEF StopTest, AfterStop, NoStalePid, Basics, Serves, Hit, Detached
<1>3. ASSUME NEW s \in Script, StopCat(s) PROVE NoStalePid'
  BY <1>3 DEF StopCat, NoStalePid, Basics, Serves, Hit, Detached
<1>4. ASSUME NEW s \in Script, StopKill(s) PROVE NoStalePid'
  BY <1>4 DEF StopKill, AfterStop, NoStalePid, Basics, Serves, Hit, Detached
<1>5. ASSUME NEW s \in Script, Sleep(s) PROVE NoStalePid'
  BY <1>5 DEF Sleep, Disturbed, NoStalePid, Basics, Serves, Hit, Detached
<1>6. ASSUME NEW s \in Script, Launch(s) PROVE NoStalePid'
  BY <1>6 DEF Launch, Takes, At, NoStalePid, Basics, Serves, Hit, Detached
<1>7. ASSUME NEW p \in Pid, Bind(p) PROVE NoStalePid'
  BY <1>7 DEF Bind, At, NoStalePid, Basics, Serves, Hit, Detached
<1>8. ASSUME NEW p \in Pid, BindFails(p) PROVE NoStalePid'
  BY <1>8 DEF BindFails, Gone, At, Return, Awaits, NoStalePid, Basics, Serves, Hit, Detached
<1>9. ASSUME NEW p \in Pid, FirstFork(p) PROVE NoStalePid'
  BY <1>9 DEF FirstFork, Detach, Takes, Return, Awaits, NoStalePid, Basics, Serves, Hit,
     Detached
<1>10. ASSUME NEW p \in Pid, FirstForkFails(p) PROVE NoStalePid'
  BY <1>10 DEF FirstForkFails, Gone, At, Return, Awaits, NoStalePid, Basics, Serves, Hit,
     Detached
<1>11. ASSUME NEW p \in Pid, SecondFork(p) PROVE NoStalePid'
  BY <1>11 DEF SecondFork, Detach, Takes, NoStalePid, Basics, Serves, Hit, Detached
<1>12. ASSUME NEW p \in Pid, SecondForkFails(p) PROVE NoStalePid'
  BY <1>12 DEF SecondForkFails, Gone, At, NoStalePid, Basics, Serves, Hit, Detached
<1>13. ASSUME NEW p \in Pid, OpenPidFile(p) PROVE NoStalePid'
  BY <1>13 DEF OpenPidFile, At, NoStalePid, Basics, Serves, Hit, Detached
<1>14. ASSUME NEW p \in Pid, OpenPidFileFails(p) PROVE NoStalePid'
  BY <1>14 DEF OpenPidFileFails, At, NoStalePid, Basics, Serves, Hit, Detached
<1>15. ASSUME NEW p \in Pid, WritePidFile(p) PROVE NoStalePid'
  BY <1>15 DEF WritePidFile, At, NoStalePid, Basics, Serves, Hit, Detached
<1>16. ASSUME NEW p \in Pid, CloseServer(p) PROVE NoStalePid'
  BY <1>16 DEF CloseServer, At, NoStalePid, Basics, Serves, Hit, Detached
<1>17. ASSUME NEW p \in Pid, TermUnlink(p) PROVE NoStalePid'
  BY <1>17 DEF TermUnlink, At, Unlink, Alive, NoStalePid, Basics, Serves, Hit, Detached
<1>18. ASSUME NEW p \in Pid, TermExit(p) PROVE NoStalePid'
  BY <1>18 DEF TermExit, Gone, At, Return, Awaits, NoStalePid, Basics, Serves, Hit, Detached
<1>19. ASSUME NEW p \in Pid, TermOther(p) PROVE NoStalePid'
  BY <1>19 DEF TermOther, Gone, At, NoStalePid, Basics, Serves, Hit, Detached
<1>20. ASSUME NEW p \in Pid, Accept(p) PROVE NoStalePid'
  BY <1>20 DEF Accept, Takes, At, NoStalePid, Basics, Serves, Hit, Detached
<1>21. ASSUME NEW p \in Pid, ChildDone(p) PROVE NoStalePid'
  BY <1>21 DEF ChildDone, Gone, At, NoStalePid, Basics, Serves, Hit, Detached
<1>22. ASSUME NEW p \in Pid, Shutdown(p) PROVE NoStalePid'
  BY <1>22 DEF Shutdown, At, Unlink, NoStalePid, Basics, Serves, Hit, Detached
<1>23. ASSUME NEW p \in Pid, HaltWorks(p) PROVE NoStalePid'
  BY <1>23 DEF HaltWorks, NoStalePid, Basics, Serves, Hit, Detached
<1>24. ASSUME NEW p \in Pid, HaltFails(p) PROVE NoStalePid'
  BY <1>24 DEF HaltFails, Gone, At, NoStalePid, Basics, Serves, Hit, Detached
<1>25. ASSUME NEW p \in Pid, SignalChild(p) PROVE NoStalePid'
  BY <1>25 DEF SignalChild, NoStalePid, Basics, Serves, Hit, Detached
<1>26. ASSUME NEW p \in Pid, Crash(p) PROVE NoStalePid'
  BY <1>26 DEF Crash, Gone, At, NoStalePid, Basics, Serves, Hit, Detached
<1>27. ASSUME NEW p \in Pid, Stranger(p) PROVE NoStalePid'
  BY <1>27 DEF Stranger, Takes, At, NoStalePid, Basics, Serves, Hit, Detached
<1>28. ASSUME NEW p \in Pid, StrangerLeaves(p) PROVE NoStalePid'
  BY <1>28 DEF StrangerLeaves, Gone, At, NoStalePid, Basics, Serves, Hit, Detached
<1>. QED  BY <1>1, <1>2, <1>3, <1>4, <1>5, <1>6, <1>7, <1>8, <1>9, <1>10, <1>11, <1>12, <1>13,
          <1>14, <1>15, <1>16, <1>17, <1>18, <1>19, <1>20, <1>21, <1>22, <1>23, <1>24, <1>25,
          <1>26, <1>27, <1>28 DEF Next, Own, Served, World, ScriptStep

\* What removes the pidfile of a daemon: a shutdown, or its own end.
LEMMA RecordedStep == ASSUME Inv, Next PROVE Recorded'
<1>. USE NameAssumption, BoundAssumption, FaultAssumption
         DEF Inv, TypeOK, procVars, fileVars, scriptVars, world
<1>1. ASSUME NEW s \in Script, NEW c \in {"start", "stop", "restart"}, Invoke(s, c)
       PROVE  Recorded'
  BY <1>1 DEF Invoke, Disturbed, Recorded, Untouched, Basics, Serves, OneDaemon, Detached,
     Halting, Hit
<1>2. ASSUME NEW s \in Script, StopTest(s) PROVE Recorded'
  BY <1>2 DEF StopTest, AfterStop, Recorded, Untouched, Basics, Serves, OneDaemon, Detached,
     Halting, Hit
<1>3. ASSUME NEW s \in Script, StopCat(s) PROVE Recorded'
  BY <1>3 DEF StopCat, Recorded, Untouched, Basics, Serves, OneDaemon, Detached, Halting, Hit
<1>4. ASSUME NEW s \in Script, StopKill(s) PROVE Recorded'
  BY <1>4 DEF StopKill, AfterStop, Recorded, Untouched, Basics, Serves, OneDaemon, Detached,
     Halting, Hit
<1>5. ASSUME NEW s \in Script, Sleep(s) PROVE Recorded'
  BY <1>5 DEF Sleep, Disturbed, Recorded, Untouched, Basics, Serves, OneDaemon, Detached,
     Halting, Hit
<1>6. ASSUME NEW s \in Script, Launch(s) PROVE Recorded'
  BY <1>6 DEF Launch, Takes, At, Recorded, Untouched, Basics, Serves, OneDaemon, Detached,
     Halting, Hit
<1>7. ASSUME NEW p \in Pid, Bind(p) PROVE Recorded'
  BY <1>7 DEF Bind, At, Recorded, Untouched, Basics, Serves, OneDaemon, Detached, Halting, Hit
<1>8. ASSUME NEW p \in Pid, BindFails(p) PROVE Recorded'
  BY <1>8 DEF BindFails, Gone, At, Return, Awaits, Recorded, Untouched, Basics, Serves,
     OneDaemon, Detached, Halting, Hit
<1>9. ASSUME NEW p \in Pid, FirstFork(p) PROVE Recorded'
  BY <1>9 DEF FirstFork, Detach, Takes, Return, Awaits, Recorded, Untouched, Basics, Serves,
     OneDaemon, Detached, Halting, Hit
<1>10. ASSUME NEW p \in Pid, FirstForkFails(p) PROVE Recorded'
  BY <1>10 DEF FirstForkFails, Gone, At, Return, Awaits, Recorded, Untouched, Basics, Serves,
     OneDaemon, Detached, Halting, Hit
<1>11. ASSUME NEW p \in Pid, SecondFork(p) PROVE Recorded'
  BY <1>11 DEF SecondFork, Detach, Takes, Recorded, Untouched, Basics, Serves, OneDaemon,
     Detached, Halting, Hit
<1>12. ASSUME NEW p \in Pid, SecondForkFails(p) PROVE Recorded'
  BY <1>12 DEF SecondForkFails, Gone, At, Recorded, Untouched, Basics, Serves, OneDaemon,
     Detached, Halting, Hit
<1>13. ASSUME NEW p \in Pid, OpenPidFile(p) PROVE Recorded'
  BY <1>13 DEF OpenPidFile, At, Recorded, Untouched, Basics, Serves, OneDaemon, Detached,
     Halting, Hit
<1>14. ASSUME NEW p \in Pid, OpenPidFileFails(p) PROVE Recorded'
  BY <1>14 DEF OpenPidFileFails, At, Recorded, Untouched, Basics, Serves, OneDaemon, Detached,
     Halting, Hit
<1>15. ASSUME NEW p \in Pid, WritePidFile(p) PROVE Recorded'
  BY <1>15 DEF WritePidFile, At, Recorded, Untouched, Basics, Serves, OneDaemon, Detached,
     Halting, Hit
<1>16. ASSUME NEW p \in Pid, CloseServer(p) PROVE Recorded'
  BY <1>16 DEF CloseServer, At, Recorded, Untouched, Basics, Serves, OneDaemon, Detached,
     Halting, Hit
<1>17. ASSUME NEW p \in Pid, TermUnlink(p) PROVE Recorded'
  BY <1>17 DEF TermUnlink, At, Unlink, Alive, Recorded, Untouched, Basics, Serves, OneDaemon,
     Detached, Halting, Hit
<1>18. ASSUME NEW p \in Pid, TermExit(p) PROVE Recorded'
  BY <1>18 DEF TermExit, Gone, At, Return, Awaits, Recorded, Untouched, Basics, Serves,
     OneDaemon, Detached, Halting, Hit
<1>19. ASSUME NEW p \in Pid, TermOther(p) PROVE Recorded'
  BY <1>19 DEF TermOther, Gone, At, Recorded, Untouched, Basics, Serves, OneDaemon, Detached,
     Halting, Hit
<1>20. ASSUME NEW p \in Pid, Accept(p) PROVE Recorded'
  BY <1>20 DEF Accept, Takes, At, Recorded, Untouched, Basics, Serves, OneDaemon, Detached,
     Halting, Hit
<1>21. ASSUME NEW p \in Pid, ChildDone(p) PROVE Recorded'
  BY <1>21 DEF ChildDone, Gone, At, Recorded, Untouched, Basics, Serves, OneDaemon, Detached,
     Halting, Hit
<1>22. ASSUME NEW p \in Pid, Shutdown(p) PROVE Recorded'
  BY <1>22 DEF Shutdown, At, Unlink, Recorded, Untouched, Basics, Serves, OneDaemon, Detached,
     Halting, Hit
<1>23. ASSUME NEW p \in Pid, HaltWorks(p) PROVE Recorded'
  BY <1>23 DEF HaltWorks, Recorded, Untouched, Basics, Serves, OneDaemon, Detached, Halting,
     Hit
<1>24. ASSUME NEW p \in Pid, HaltFails(p) PROVE Recorded'
  BY <1>24 DEF HaltFails, Gone, At, Recorded, Untouched, Basics, Serves, OneDaemon, Detached,
     Halting, Hit
<1>25. ASSUME NEW p \in Pid, SignalChild(p) PROVE Recorded'
  BY <1>25 DEF SignalChild, Recorded, Untouched, Basics, Serves, OneDaemon, Detached, Halting,
     Hit
<1>26. ASSUME NEW p \in Pid, Crash(p) PROVE Recorded'
  BY <1>26 DEF Crash, Gone, At, Recorded, Untouched, Basics, Serves, OneDaemon, Detached,
     Halting, Hit
<1>27. ASSUME NEW p \in Pid, Stranger(p) PROVE Recorded'
  BY <1>27 DEF Stranger, Takes, At, Recorded, Untouched, Basics, Serves, OneDaemon, Detached,
     Halting, Hit
<1>28. ASSUME NEW p \in Pid, StrangerLeaves(p) PROVE Recorded'
  BY <1>28 DEF StrangerLeaves, Gone, At, Recorded, Untouched, Basics, Serves, OneDaemon,
     Detached, Halting, Hit
<1>. QED  BY <1>1, <1>2, <1>3, <1>4, <1>5, <1>6, <1>7, <1>8, <1>9, <1>10, <1>11, <1>12, <1>13,
          <1>14, <1>15, <1>16, <1>17, <1>18, <1>19, <1>20, <1>21, <1>22, <1>23, <1>24, <1>25,
          <1>26, <1>27, <1>28 DEF Next, Own, Served, World, ScriptStep

\* A script begins when all signals have been handled and nobody else is at it.
LEMMA TurnsStep == ASSUME Inv, Next PROVE Turns'
<1>. USE NameAssumption, BoundAssumption, FaultAssumption
         DEF Inv, TypeOK, procVars, fileVars, scriptVars, world
<1>1. ASSUME NEW s \in Script, NEW c \in {"start", "stop", "restart"}, Invoke(s, c) PROVE Turns'
  BY <1>1 DEF Invoke, Disturbed, Turns, InTurn, NoStalePid, Basics, Serves, Settled, Hit,
     Detached
<1>2. ASSUME NEW s \in Script, StopTest(s) PROVE Turns'
  BY <1>2 DEF StopTest, AfterStop, Turns, InTurn, NoStalePid, Basics, Serves, Settled, Hit,
     Detached
<1>3. ASSUME NEW s \in Script, StopCat(s) PROVE Turns'
  BY <1>3 DEF StopCat, Turns, InTurn, NoStalePid, Basics, Serves, Settled, Hit, Detached
<1>4. ASSUME NEW s \in Script, StopKill(s) PROVE Turns'
  BY <1>4 DEF StopKill, AfterStop, Turns, InTurn, NoStalePid, Basics, Serves, Settled, Hit,
     Detached
<1>5. ASSUME NEW s \in Script, Sleep(s) PROVE Turns'
  BY <1>5 DEF Sleep, Disturbed, Turns, InTurn, NoStalePid, Basics, Serves, Settled, Hit,
     Detached
<1>6. ASSUME NEW s \in Script, Launch(s) PROVE Turns'
  BY <1>6 DEF Launch, Takes, At, Turns, InTurn, NoStalePid, Basics, Serves, Settled, Hit,
     Detached
<1>7. ASSUME NEW p \in Pid, Bind(p) PROVE Turns'
  BY <1>7 DEF Bind, At, Turns, InTurn, NoStalePid, Basics, Serves, Settled, Hit, Detached
<1>8. ASSUME NEW p \in Pid, BindFails(p) PROVE Turns'
  BY <1>8 DEF BindFails, Gone, At, Return, Awaits, Turns, InTurn, NoStalePid, Basics, Serves,
     Settled, Hit, Detached
<1>9. ASSUME NEW p \in Pid, FirstFork(p) PROVE Turns'
  BY <1>9 DEF FirstFork, Detach, Takes, Return, Awaits, Turns, InTurn, NoStalePid, Basics,
     Serves, Settled, Hit, Detached
<1>10. ASSUME NEW p \in Pid, FirstForkFails(p) PROVE Turns'
  BY <1>10 DEF FirstForkFails, Gone, At, Return, Awaits, Turns, InTurn, NoStalePid, Basics,
     Serves, Settled, Hit, Detached
<1>11. ASSUME NEW p \in Pid, SecondFork(p) PROVE Turns'
  BY <1>11 DEF SecondFork, Detach, Takes, Turns, InTurn, NoStalePid, Basics, Serves, Settled,
     Hit, Detached
<1>12. ASSUME NEW p \in Pid, SecondForkFails(p) PROVE Turns'
  BY <1>12 DEF SecondForkFails, Gone, At, Turns, InTurn, NoStalePid, Basics, Serves, Settled,
     Hit, Detached
<1>13. ASSUME NEW p \in Pid, OpenPidFile(p) PROVE Turns'
  BY <1>13 DEF OpenPidFile, At, Turns, InTurn, NoStalePid, Basics, Serves, Settled, Hit,
     Detached
<1>14. ASSUME NEW p \in Pid, OpenPidFileFails(p) PROVE Turns'
  BY <1>14 DEF OpenPidFileFails, At, Turns, InTurn, NoStalePid, Basics, Serves, Settled, Hit,
     Detached
<1>15. ASSUME NEW p \in Pid, WritePidFile(p) PROVE Turns'
  BY <1>15 DEF WritePidFile, At, Turns, InTurn, NoStalePid, Basics, Serves, Settled, Hit,
     Detached
<1>16. ASSUME NEW p \in Pid, CloseServer(p) PROVE Turns'
  BY <1>16 DEF CloseServer, At, Turns, InTurn, NoStalePid, Basics, Serves, Settled, Hit,
     Detached
<1>17. ASSUME NEW p \in Pid, TermUnlink(p) PROVE Turns'
  BY <1>17 DEF TermUnlink, At, Unlink, Alive, Turns, InTurn, NoStalePid, Basics, Serves,
     Settled, Hit, Detached
<1>18. ASSUME NEW p \in Pid, TermExit(p) PROVE Turns'
  BY <1>18 DEF TermExit, Gone, At, Return, Awaits, Turns, InTurn, NoStalePid, Basics, Serves,
     Settled, Hit, Detached
<1>19. ASSUME NEW p \in Pid, TermOther(p) PROVE Turns'
  BY <1>19 DEF TermOther, Gone, At, Turns, InTurn, NoStalePid, Basics, Serves, Settled, Hit,
     Detached
<1>20. ASSUME NEW p \in Pid, Accept(p) PROVE Turns'
  BY <1>20 DEF Accept, Takes, At, Turns, InTurn, NoStalePid, Basics, Serves, Settled, Hit,
     Detached
<1>21. ASSUME NEW p \in Pid, ChildDone(p) PROVE Turns'
  BY <1>21 DEF ChildDone, Gone, At, Turns, InTurn, NoStalePid, Basics, Serves, Settled, Hit,
     Detached
<1>22. ASSUME NEW p \in Pid, Shutdown(p) PROVE Turns'
  BY <1>22 DEF Shutdown, At, Unlink, Turns, InTurn, NoStalePid, Basics, Serves, Settled, Hit,
     Detached
<1>23. ASSUME NEW p \in Pid, HaltWorks(p) PROVE Turns'
  BY <1>23 DEF HaltWorks, Turns, InTurn, NoStalePid, Basics, Serves, Settled, Hit, Detached
<1>24. ASSUME NEW p \in Pid, HaltFails(p) PROVE Turns'
  BY <1>24 DEF HaltFails, Gone, At, Turns, InTurn, NoStalePid, Basics, Serves, Settled, Hit,
     Detached
<1>25. ASSUME NEW p \in Pid, SignalChild(p) PROVE Turns'
  BY <1>25 DEF SignalChild, Turns, InTurn, NoStalePid, Basics, Serves, Settled, Hit, Detached
<1>26. ASSUME NEW p \in Pid, Crash(p) PROVE Turns'
  BY <1>26 DEF Crash, Gone, At, Turns, InTurn, NoStalePid, Basics, Serves, Settled, Hit,
     Detached
<1>27. ASSUME NEW p \in Pid, Stranger(p) PROVE Turns'
  BY <1>27 DEF Stranger, Takes, At, Turns, InTurn, NoStalePid, Basics, Serves, Settled, Hit,
     Detached
<1>28. ASSUME NEW p \in Pid, StrangerLeaves(p) PROVE Turns'
  BY <1>28 DEF StrangerLeaves, Gone, At, Turns, InTurn, NoStalePid, Basics, Serves, Settled,
     Hit, Detached
<1>. QED  BY <1>1, <1>2, <1>3, <1>4, <1>5, <1>6, <1>7, <1>8, <1>9, <1>10, <1>11, <1>12, <1>13,
          <1>14, <1>15, <1>16, <1>17, <1>18, <1>19, <1>20, <1>21, <1>22, <1>23, <1>24, <1>25,
          <1>26, <1>27, <1>28 DEF Next, Own, Served, World, ScriptStep

LEMMA StutterInv == ASSUME Inv, UNCHANGED vars PROVE Inv'
BY DEF vars, procVars, fileVars, scriptVars, world, Inv, TypeOK, OneDaemon, Basics,
   NoStalePid, Recorded, Untouched, Halting, Turns, InTurn

\* The invariant is inductive.
THEOREM Invariance == Spec => []Inv
<1>1. Inv /\ [Next]_vars => Inv'
  <2>1. Inv /\ Next => Inv'
    BY TypeStep, DaemonStep, BasicsStep, StaleStep, RecordedStep, TurnsStep DEF Inv
  <2>. QED  BY <2>1, StutterInv
<1>. QED  BY InitInv, <1>1, PTL DEF Spec

\* bind() in main(), daemonize(): one daemon at a time, which has the socket.
THEOREM OneDaemonAtATime == Spec => []OneDaemon
<1>1. Inv => OneDaemon
  BY DEF Inv
<1>. QED  BY <1>1, Invariance, PTL

\* writePidFile(), termHandler(): without a crash, the pid in the pidfile is
\* that of a daemon that serves.
THEOREM PidIsFresh == Spec => []NoStalePid
<1>1. Inv => NoStalePid
  BY DEF Inv
<1>. QED  BY <1>1, Invariance, PTL

\* writePidFile(), performShutdown(): a daemon that serves can be found, but for
\* the faults that Findable names.
THEOREM DaemonIsFound == Spec => []Findable
<1>1. Inv => Findable
  BY DEF Inv, Recorded, Untouched, Findable, Serving
<1>. QED  BY <1>1, Invariance, PTL

\* The init script's stop: it signals a daemon that serves, or nobody, when it
\* is used by one at a time, signals are handled in time and nobody is killed.
THEOREM StopSignalsADaemon == Spec => SignalsADaemon
<1>1. Inv /\ [Next]_vars =>
        [\A s \in Script, p \in Pid :
            (/\ hit \cap {"late", "overlap", "crash"} = {}
             /\ p \in term' \ term /\ step[s] = "kill" /\ step'[s] # "kill") =>
                pc[p] = "serving"]_vars
  <2>. SUFFICES ASSUME Inv, Next, NEW s \in Script, NEW p \in Pid, InTurn,
                       p \in term' \ term, step[s] = "kill", step'[s] # "kill"
                PROVE  pc[p] = "serving"
    BY DEF InTurn
  <2>1. \E t \in Script : StopKill(t)
    <3>1. CASE \E t \in Script, c \in {"start", "stop", "restart"} : Invoke(t, c)
      BY <3>1 DEF Invoke, procVars
    <3>2. CASE \E t \in Script : ScriptStep(t)
      BY <3>2 DEF ScriptStep, StopTest, StopCat, Sleep, Launch, procVars
    <3>3. CASE \E q \in Pid : Own(q)
      BY <3>3 DEF Own, Bind, BindFails, FirstFork, FirstForkFails, SecondFork,
         SecondForkFails, OpenPidFile, OpenPidFileFails, WritePidFile, CloseServer,
         TermUnlink, TermExit, TermOther, Gone, Detach
    <3>4. CASE \E q \in Pid : Served(q)
      BY <3>4 DEF Served, Accept, ChildDone, Shutdown, HaltWorks, HaltFails, Gone, procVars
    <3>5. CASE \E q \in Pid : World(q)
      BY <3>5 DEF World, SignalChild, Crash, Stranger, StrangerLeaves, Gone, scriptVars
    <3>. QED  BY <3>1, <3>2, <3>3, <3>4, <3>5 DEF Next
  <2>2. PICK t \in Script : StopKill(t)
    BY <2>1
  <2>3. t = s
    BY <2>2 DEF StopKill, Inv, TypeOK
  <2>4. p = target[s] /\ p \in Pid
    BY <2>2, <2>3 DEF StopKill
  <2>. QED  BY <2>4 DEF Inv, Turns
<1>. QED  BY <1>1, Invariance, PTL DEF Spec, SignalsADaemon

(***************************************************************************)
(* What is behind StartedServes, which itself is about fairness and is     *)
(* left to TLC: what the script says of a start is true, and stays true.   *)
(***************************************************************************)

\* There is a daemon, or it is about to be one, and nobody has told it to leave.
DaemonStays == \E p \in Pid : pc[p] \in Detached /\ p \notin term

\* With one user of the script, s, who has said "started" only when the first fork()
\* has worked and not because a process it awaited was told to leave.
Launched(s) ==
    (Script = {s} /\ hit \cap {"fork", "crash"} = {}) =>
        /\ s \in started => step[s] = "idle" /\ (DaemonStays \/ down)
        /\ step[s] = "wait" =>
            target[s] \in Pid /\ pc[target[s]] \in {"main", "bound"} /\ target[s] \notin term

LEMMA LaunchedStep == ASSUME Inv, NEW s \in Script, Launched(s), Next PROVE Launched(s)'
<1>. SUFFICES ASSUME Script = {s}, hit' \cap {"fork", "crash"} = {} PROVE Launched(s)'
  BY DEF Launched
<1>. USE DEF Inv, TypeOK, Basics, procVars, fileVars, scriptVars, world, Launched, DaemonStays,
             Detached
<1>1. ASSUME NEW c \in {"start", "stop", "restart"}, Invoke(s, c) PROVE Launched(s)'
  BY <1>1 DEF Invoke, Hit
<1>2. ASSUME StopTest(s) PROVE Launched(s)'
  BY <1>2 DEF StopTest, AfterStop
<1>3. ASSUME StopCat(s) PROVE Launched(s)'
  BY <1>3 DEF StopCat
<1>4. ASSUME StopKill(s) PROVE Launched(s)'
  BY <1>4 DEF StopKill, AfterStop
<1>5. ASSUME Sleep(s) PROVE Launched(s)'
  BY <1>5 DEF Sleep, Hit
<1>6. ASSUME Launch(s) PROVE Launched(s)'
  BY <1>6 DEF Launch, Takes, At, Hit
<1>7. ASSUME NEW p \in Pid, BindFails(p) PROVE Launched(s)'
  BY <1>7 DEF BindFails, Gone, At, Return, Awaits
<1>8. ASSUME NEW p \in Pid, FirstFork(p) PROVE Launched(s)'
  BY <1>8 DEF FirstFork, Detach, Takes, Return, Awaits, Hit
<1>9. ASSUME NEW p \in Pid, FirstForkFails(p) PROVE Launched(s)'
  BY <1>9 DEF FirstForkFails, Hit
<1>10. ASSUME NEW p \in Pid, SecondFork(p) PROVE Launched(s)'
  BY <1>10 DEF SecondFork, Detach, Takes, Hit
<1>11. ASSUME NEW p \in Pid, SecondForkFails(p) PROVE Launched(s)'
  BY <1>11 DEF SecondForkFails, Hit
<1>12. ASSUME NEW p \in Pid, Bind(p) PROVE Launched(s)'
  BY <1>12 DEF Bind, At
<1>13. ASSUME NEW p \in Pid, OpenPidFile(p) PROVE Launched(s)'
  BY <1>13 DEF OpenPidFile, At
<1>14. ASSUME NEW p \in Pid, OpenPidFileFails(p) PROVE Launched(s)'
  BY <1>14 DEF OpenPidFileFails, At, Hit
<1>15. ASSUME NEW p \in Pid, WritePidFile(p) PROVE Launched(s)'
  BY <1>15 DEF WritePidFile, At
<1>16. ASSUME NEW p \in Pid, CloseServer(p) PROVE Launched(s)'
  BY <1>16 DEF CloseServer, At
<1>17. ASSUME NEW p \in Pid, TermUnlink(p) PROVE Launched(s)'
  BY <1>17 DEF TermUnlink, At, Alive
<1>18. ASSUME NEW p \in Pid, TermExit(p) PROVE Launched(s)'
  BY <1>18 DEF TermExit, Gone, At, Return, Awaits
<1>19. ASSUME NEW p \in Pid, TermOther(p) PROVE Launched(s)'
  BY <1>19 DEF TermOther, Gone, At
<1>20. ASSUME NEW p \in Pid, Accept(p) PROVE Launched(s)'
  BY <1>20 DEF Accept, Takes, At, Hit
<1>21. ASSUME NEW p \in Pid, ChildDone(p) PROVE Launched(s)'
  BY <1>21 DEF ChildDone, Gone, At
<1>22. ASSUME NEW p \in Pid, Shutdown(p) PROVE Launched(s)'
  BY <1>22 DEF Shutdown, At
<1>23. ASSUME NEW p \in Pid, HaltWorks(p) PROVE Launched(s)'
  BY <1>23 DEF HaltWorks
<1>24. ASSUME NEW p \in Pid, HaltFails(p) PROVE Launched(s)'
  BY <1>24 DEF HaltFails, Gone, At, Hit
<1>25. ASSUME NEW p \in Pid, SignalChild(p) PROVE Launched(s)'
  BY <1>25 DEF SignalChild, Hit
<1>26. ASSUME NEW p \in Pid, Crash(p) PROVE Launched(s)'
  BY <1>26 DEF Crash, Hit
<1>27. ASSUME NEW p \in Pid, Stranger(p) PROVE Launched(s)'
  BY <1>27 DEF Stranger, Takes, At, Hit
<1>28. ASSUME NEW p \in Pid, StrangerLeaves(p) PROVE Launched(s)'
  BY <1>28 DEF StrangerLeaves, Gone, At
<1>. HIDE DEF Inv, TypeOK, Basics, Launched, DaemonStays
<1>. QED  BY <1>1, <1>2, <1>3, <1>4, <1>5, <1>6, <1>7, <1>8, <1>9, <1>10, <1>11, <1>12, <1>13, <1>14,
          <1>15, <1>16, <1>17, <1>18, <1>19, <1>20, <1>21, <1>22, <1>23, <1>24, <1>25,
          <1>26, <1>27, <1>28 DEF Next, Own, Served, World, ScriptStep

\* daemonize(), start and restart of the init script: when the script has said
\* "heliosAgent started" there is a daemon, and until the script is used again there
\* will be, or the machine has gone down, unless a fork() fails or a process is
\* killed; whatever else goes wrong, pids that are used again at once included.
THEOREM StartedIsTrue ==
    Spec => [](\A s \in Script :
                (Script = {s} /\ s \in started /\ hit \cap {"fork", "crash"} = {}) =>
                    DaemonStays \/ down)
<1>1. Init => \A s \in Script : Launched(s)
  BY DEF Init, Launched
<1>2. Inv /\ (\A s \in Script : Launched(s)) /\ [Next]_vars => (\A s \in Script : Launched(s))'
  <2>1. UNCHANGED vars /\ (\A s \in Script : Launched(s)) => (\A s \in Script : Launched(s))'
    BY DEF vars, procVars, fileVars, scriptVars, world, Launched, DaemonStays
  <2>. QED  BY <2>1, LaunchedStep
<1>3. (\A s \in Script : Launched(s)) => \A s \in Script :
        (Script = {s} /\ s \in started /\ hit \cap {"fork", "crash"} = {}) =>
            DaemonStays \/ down
  BY DEF Launched
<1>. QED  BY <1>1, <1>2, <1>3, Invariance, PTL DEF Spec
=============================================================================
