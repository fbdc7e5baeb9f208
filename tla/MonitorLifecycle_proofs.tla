---------------------- MODULE MonitorLifecycle_proofs ----------------------
(***************************************************************************)
(* Proofs about the life of the monitor of one profile, for any number of  *)
(* daemons and of controllers.                                             *)
(***************************************************************************)
EXTENDS MonitorLifecycle, TLAPS

(* The place of an actor decides whether it is a process that runs.        *)
Places ==
  /\ at \in [Actors -> DaemonAt \cup ControllerAt]
  /\ \A d \in Daemons : at[d] \in DaemonAt
  /\ \A c \in Controllers : at[c] \in ControllerAt
  /\ alive \subseteq Daemons /\ reused \subseteq Daemons
  /\ lock \in Lock \cup {NoLock}
  /\ \A d \in Daemons : d \in alive <=> at[d] \notin Unborn
  /\ \A d \in reused : at[d] = "dead"
  /\ lock # NoLock => at[lock.by] # "unborn"

(* Moving an actor that goes on running keeps Places.                      *)
LEMMA Moved ==
  ASSUME Places, NEW a \in Actors, NEW place, Goto(a, place),
         a \in Daemons => /\ at[a] \notin Unborn
                         /\ place \in DaemonAt \ Unborn,
         a \in Controllers => place \in ControllerAt,
         UNCHANGED <<alive, reused>>,
         \/ lock' \in {lock, NoLock}
         \/ lock' \in Lock /\ lock'.by = a
  PROVE  Places'
BY ConstantsAssumption DEF Places, Goto, Actors, Unborn, Lock, DaemonAt

(* So does ending a process.                                               *)
LEMMA Exited ==
  ASSUME Places, NEW d \in Daemons, Exit(d), at[d] # "unborn", UNCHANGED <<reused, lock>>
  PROVE  Places'
BY ConstantsAssumption DEF Places, Goto, Actors, Unborn, Exit, Lock, DaemonAt

(* Every action keeps Places.                                              *)
LEMMA PlacesStep == Places /\ [Next]_vars => Places'
<1> SUFFICES ASSUME Places, [Next]_vars PROVE Places'
  OBVIOUS
<1> USE ConstantsAssumption
<1>1. ASSUME NEW a \in Actors, CleanRead(a) PROVE Places'
  BY <1>1, Moved DEF CleanRead, AfterClean, Actors,
          DaemonAt, ControllerAt, Unborn, Taking, Owning, Handled
<1>2. ASSUME NEW a \in Actors, CleanMove(a) PROVE Places'
  BY <1>2, Moved DEF CleanMove, AfterClean, Actors,
          DaemonAt, ControllerAt, Unborn, Taking, Owning, Handled
<1>3. ASSUME NEW d \in Daemons, CheckLock(d) PROVE Places'
  BY <1>3, Moved, Exited DEF CheckLock, Actors,
          DaemonAt, ControllerAt, Unborn, Taking, Owning, Handled
<1>4. ASSUME NEW d \in Daemons, CreateLock(d) PROVE Places'
  <2>1. CASE lock = NoLock
    <3>1. lock' = [by |-> d, written |-> FALSE]
      BY <1>4, <2>1 DEF CreateLock
    <3>2. lock' \in Lock /\ lock'.by = d
      BY <3>1 DEF Lock
    <3> QED
      BY <1>4, <2>1, <3>2, Moved DEF CreateLock, Actors, DaemonAt, Unborn,
             Taking, Owning
  <2>2. CASE lock # NoLock
    BY <1>4, <2>2, Exited DEF CreateLock
  <2> QED
    BY <2>1, <2>2
<1>5. ASSUME NEW d \in Daemons, FillLock(d) PROVE Places'
  BY <1>5, Moved DEF FillLock, Actors, Lock,
          DaemonAt, ControllerAt, Unborn, Taking, Owning, Handled
<1>6. ASSUME NEW d \in Daemons, ClearFlag(d) PROVE Places'
  BY <1>6, Moved DEF ClearFlag, Actors, Lock,
          DaemonAt, ControllerAt, Unborn, Taking, Owning, Handled
<1>7. ASSUME NEW d \in Daemons, Announce(d) PROVE Places'
  BY <1>7, Moved DEF Announce, Actors, Lock,
          DaemonAt, ControllerAt, Unborn, Taking, Owning, Handled
<1>8. ASSUME NEW d \in Daemons, Scan(d) PROVE Places'
  BY <1>8, Moved DEF Scan, Actors, Lock,
          DaemonAt, ControllerAt, Unborn, Taking, Owning, Handled
<1>9. ASSUME NEW d \in Daemons, SyncRaises(d) PROVE Places'
  BY <1>9, Moved DEF SyncRaises, Actors, Lock,
          DaemonAt, ControllerAt, Unborn, Taking, Owning, Handled
<1>10. ASSUME NEW d \in Daemons, MarkReady(d) PROVE Places'
  BY <1>10, Moved DEF MarkReady, Actors, Lock,
          DaemonAt, ControllerAt, Unborn, Taking, Owning, Handled
<1>11. ASSUME NEW d \in Daemons, LeaveLoop(d) PROVE Places'
  BY <1>11, Moved DEF LeaveLoop, Actors, Lock,
          DaemonAt, ControllerAt, Unborn, Taking, Owning, Handled
<1>12. ASSUME NEW d \in Daemons, MarkStopped(d) PROVE Places'
  BY <1>12, Moved DEF MarkStopped, Actors, Lock,
          DaemonAt, ControllerAt, Unborn, Taking, Owning, Handled
<1>13. ASSUME NEW d \in Daemons, ReleaseLock(d) PROVE Places'
  BY <1>13, Moved DEF ReleaseLock, Actors, Lock,
          DaemonAt, ControllerAt, Unborn, Taking, Owning, Handled
<1>14. ASSUME NEW d \in Daemons, LastClear(d) PROVE Places'
  BY <1>14, Exited DEF LastClear, Places, Unborn
<1>15. ASSUME NEW d \in Daemons, Die(d) PROVE Places'
  BY <1>15, Exited DEF Die, Places, Unborn
<1>16. ASSUME NEW d \in Daemons, HandleTerm(d) PROVE Places'
  BY <1>16 DEF HandleTerm, Places
<1>17. ASSUME NEW d \in Daemons, ReusePid(d) PROVE Places'
  BY <1>17 DEF ReusePid, Places
<1>18. ASSUME NEW c \in Controllers, StartCall(c) PROVE Places'
  BY <1>18, Moved DEF StartCall, Call, ReadLock, Actors, ControllerAt
<1>19. ASSUME NEW c \in Controllers, StopCall(c) PROVE Places'
  BY <1>19, Moved DEF StopCall, Call, ReadLock, Actors, ControllerAt
<1>20. ASSUME NEW c \in Controllers, StartClear(c) PROVE Places'
  BY <1>20, Moved DEF StartClear, Actors, ControllerAt
<1>21. ASSUME NEW c \in Controllers,
              \/ StartAlive(c) \/ SpawnFails(c) \/ WaitLock(c) \/ WaitAlive(c)
              \/ WaitStatus(c) \/ GiveUp(c) \/ WaitAgain(c) \/ StopAlive(c)
       PROVE Places'
  <2>1. PICK place \in {"waitLock", "cleanRead", "answer", "waitAlive",
                        "waitStatus", "waitTurn", "request", "idleClear",
                        "idleClean"} : Goto(c, place)
    BY <1>21 DEF StartAlive, SpawnFails, WaitLock, ReadLock, WaitAlive,
           WaitStatus, GiveUp, WaitAgain, StopAlive
  <2>2. UNCHANGED <<lock, alive, reused>>
    BY <1>21 DEF StartAlive, SpawnFails, WaitLock, ReadLock, WaitAlive,
           WaitStatus, GiveUp, WaitAgain, StopAlive
  <2> QED
    BY <2>1, <2>2, Moved DEF Actors, ControllerAt
<1>22. ASSUME NEW c \in Controllers, IdleClear(c) PROVE Places'
  BY <1>22, Moved DEF IdleClear, Actors, ControllerAt
<1>23. ASSUME NEW c \in Controllers, RequestStop(c) PROVE Places'
  BY <1>23, Moved DEF RequestStop, Actors, ControllerAt
<1>24. ASSUME NEW c \in Controllers, StopWait(c) PROVE Places'
  BY <1>24, Moved DEF StopWait, Actors, ControllerAt
<1>25. ASSUME NEW c \in Controllers, StopClear(c) PROVE Places'
  BY <1>25, Moved DEF StopClear, Actors, ControllerAt
<1>26. ASSUME NEW c \in Controllers, Answer(c) PROVE Places'
  BY <1>26, Moved DEF Answer, Actors, ControllerAt
<1>27. ASSUME NEW c \in Controllers, NEW d \in Daemons, Spawn(c, d)
      PROVE Places'
  <2>1. \A a \in Actors :
          at'[a] = IF a = d THEN "cleanRead"
                   ELSE IF a = c THEN "waitLock" ELSE at[a]
    BY <1>27 DEF Spawn, Places, Actors
  <2>2. /\ at' \in [Actors -> DaemonAt \cup ControllerAt]
        /\ \A e \in Daemons : at'[e] \in DaemonAt
        /\ \A e \in Controllers : at'[e] \in ControllerAt
    BY <1>27, <2>1 DEF Spawn, Places, Actors, DaemonAt, ControllerAt, Taking
  <2>3. \A e \in Daemons : e \in alive' <=> at'[e] \notin Unborn
    BY <1>27, <2>1 DEF Spawn, Places, Actors, Unborn
  <2>4. /\ \A e \in reused : at'[e] = "dead"
        /\ lock # NoLock => at'[lock.by] # "unborn"
    BY <1>27, <2>1 DEF Spawn, Places, Actors, Lock
  <2> QED
    BY <1>27, <2>2, <2>3, <2>4 DEF Spawn, Places
<1>28. ASSUME NEW c \in Controllers, KillPid(c) PROVE Places'
  <2> DEFINE d == target[c]
             kills == d \in alive /\ (~Posix \/ at[d] \notin Handled)
  <2>1. CASE kills
    <3>1. d \in Daemons /\ at[d] \notin Unborn
      BY <2>1 DEF Places
    <3>2. \A a \in Actors :
            at'[a] = IF a = d THEN "dead"
                     ELSE IF a = c THEN "stopClear" ELSE at[a]
      BY <1>28, <2>1, <3>1 DEF KillPid, Places, Actors
    <3>3. /\ at' \in [Actors -> DaemonAt \cup ControllerAt]
          /\ \A e \in Daemons : at'[e] \in DaemonAt
          /\ \A e \in Controllers : at'[e] \in ControllerAt
      BY <1>28, <2>1, <3>1, <3>2 DEF KillPid, Places, Actors, DaemonAt,
             ControllerAt, Unborn
    <3>4. \A e \in Daemons : e \in alive' <=> at'[e] \notin Unborn
      BY <1>28, <2>1, <3>1, <3>2 DEF KillPid, Places, Actors, Unborn
    <3>5. /\ \A e \in reused : at'[e] = "dead"
          /\ lock # NoLock => at'[lock.by] # "unborn"
      BY <1>28, <3>1, <3>2 DEF KillPid, Places, Actors, Lock
    <3> QED
      BY <1>28, <2>1, <3>3, <3>4, <3>5 DEF KillPid, Places
  <2>2. CASE ~kills
    BY <1>28, <2>2, Moved DEF KillPid, Actors, ControllerAt
  <2> QED
    BY <2>1, <2>2
<1>29. CASE UNCHANGED vars
  BY <1>29 DEF vars, Places
<1> QED
  BY <1>1, <1>2, <1>3, <1>4, <1>5, <1>6, <1>7, <1>8, <1>9, <1>10, <1>11,
     <1>12, <1>13, <1>14, <1>15, <1>16, <1>17, <1>18, <1>19, <1>20, <1>21,
     <1>22, <1>23, <1>24, <1>25, <1>26, <1>27, <1>28, <1>29
  DEF Next, DaemonStep, ControllerStep, Actors

(* The type of what Places does not speak of.                              *)
Rest ==
  /\ flag \in BOOLEAN
  /\ status \in [pid : Daemons \cup {Nobody}, ready : BOOLEAN]
  /\ term \in [Daemons -> {"no", "sent", "handled"}]
  /\ seen \in [Actors -> Lock \cup {NoLock}]
  /\ op \in [Controllers -> {"none", "start", "stop"}]
  /\ target \in [Controllers -> Daemons \cup {Nobody}]
  /\ reply \in [Controllers -> {"none", "started", "failed"}]
  /\ last \subseteq Controllers
  /\ wasReady \in [Controllers -> SUBSET Daemons]

LEMMA TypeParts == Places /\ Rest <=> TypeOK /\ Places
BY DEF Places, Rest, TypeOK, Unborn

LEMMA LockPidType == Places => LockPid \in Daemons \cup {Nobody}
BY DEF Places, LockPid, PidOf, Lock

LEMMA SeenPidType ==
  ASSUME Rest, NEW a \in Actors
  PROVE  PidOf(seen[a]) \in Daemons \cup {Nobody}
<1>1. seen[a] \in Lock \cup {NoLock}
  BY DEF Rest
<1> QED
  BY <1>1 DEF PidOf, Lock

(* Every action keeps the types of Rest.                                   *)
LEMMA RestStep == Places /\ Rest /\ [Next]_vars => Rest'
<1> SUFFICES ASSUME Places, Rest, [Next]_vars PROVE Rest'
  OBVIOUS
<1>1. ASSUME NEW a \in Actors, CleanRead(a) \/ CleanMove(a) PROVE Rest'
  BY <1>1 DEF Rest, CleanRead, CleanMove, Places
<1>2. ASSUME NEW d \in Daemons, Announce(d) \/ MarkReady(d) \/ MarkStopped(d)
      PROVE Rest'
  <2>1. status.pid \in Daemons \cup {Nobody}
    BY DEF Rest
  <2>2. \E pid \in Daemons \cup {Nobody}, ready \in BOOLEAN :
          status' = [pid |-> pid, ready |-> ready]
    BY <1>2, <2>1, LockPidType DEF Announce, MarkReady, MarkStopped
  <2>3. status' \in [pid : Daemons \cup {Nobody}, ready : BOOLEAN]
    BY <2>2
  <2>4. wasReady' \in [Controllers -> SUBSET Daemons]
    BY <1>2 DEF Rest, Announce, MarkReady, MarkStopped
  <2> QED
    BY <1>2, <2>3, <2>4 DEF Rest, Announce, MarkReady, MarkStopped
<1>3. ASSUME NEW d \in Daemons,
             \/ CheckLock(d) \/ CreateLock(d) \/ FillLock(d) \/ ClearFlag(d)
             \/ Scan(d) \/ SyncRaises(d) \/ LeaveLoop(d) \/ ReleaseLock(d)
             \/ LastClear(d) \/ Die(d) \/ ReusePid(d)
      PROVE Rest'
  BY <1>3 DEF Rest, CheckLock, CreateLock, FillLock, ClearFlag, Scan,
              SyncRaises, LeaveLoop, ReleaseLock, LastClear, Die, ReusePid
<1>4. ASSUME NEW d \in Daemons, HandleTerm(d) PROVE Rest'
  BY <1>4 DEF Rest, HandleTerm
<1>5. ASSUME NEW c \in Controllers, StartCall(c) PROVE Rest'
  <2>1. {d \in Daemons : at[d] \in Scanned} \in SUBSET Daemons
    OBVIOUS
  <2> QED
    BY <1>5, <2>1 DEF Rest, StartCall, Call, ReadLock, Places
<1>6. ASSUME NEW c \in Controllers, StopCall(c) PROVE Rest'
  BY <1>6 DEF Rest, StopCall, Call, ReadLock, Places
<1>7. ASSUME NEW c \in Controllers,
             \/ StartClear(c) \/ IdleClear(c) \/ RequestStop(c)
             \/ StopWait(c) \/ StopClear(c)
      PROVE Rest'
  BY <1>7 DEF Rest, StartClear, IdleClear, RequestStop, StopWait, StopClear
<1>8. ASSUME NEW c \in Controllers, NEW d \in Daemons, Spawn(c, d)
      PROVE Rest'
  BY <1>8 DEF Rest, Spawn
<1>9. ASSUME NEW c \in Controllers,
             \/ StartAlive(c) \/ SpawnFails(c) \/ WaitLock(c) \/ WaitAlive(c)
             \/ GiveUp(c) \/ WaitAgain(c)
      PROVE Rest'
  BY <1>9 DEF Rest, Places, StartAlive, SpawnFails, WaitLock, ReadLock,
     WaitAlive, GiveUp, WaitAgain
<1>13. ASSUME NEW c \in Controllers, WaitStatus(c) \/ StopAlive(c) PROVE Rest'
  <2>1. PidOf(seen[c]) \in Daemons \cup {Nobody}
    BY SeenPidType DEF Actors
  <2> QED
    BY <1>13, <2>1 DEF Rest, WaitStatus, StopAlive
<1>10. ASSUME NEW c \in Controllers, KillPid(c) PROVE Rest'
  BY <1>10 DEF Rest, KillPid
<1>11. ASSUME NEW c \in Controllers, Answer(c) PROVE Rest'
  BY <1>11 DEF Rest, Answer
<1>12. CASE UNCHANGED vars
  BY <1>12 DEF vars, Rest
<1> QED
  BY <1>1, <1>2, <1>3, <1>4, <1>5, <1>6, <1>7, <1>8, <1>9, <1>10, <1>11,
     <1>12, <1>13
  DEF Next, DaemonStep, ControllerStep, Actors

Base == Places /\ Rest

LEMMA BaseInit == Init => Base
BY ConstantsAssumption DEF Init, Base, Places, Rest, Actors, DaemonAt,
   ControllerAt, Unborn, Taking, Owning, Handled

LEMMA BaseStep == Base /\ [Next]_vars => Base'
BY PlacesStep, RestStep DEF Base

(* Type correctness of every variable of MonitorLifecycle.                 *)
THEOREM TypeCorrect == Spec => []TypeOK
<1>1. Base => TypeOK
  BY TypeParts DEF Base
<1> QED
  BY <1>1, BaseInit, BaseStep, PTL DEF Spec

-----------------------------------------------------------------------------
(* A daemon past CreateLock owns the file that is there, and has filled it *)
(* once it goes on; nobody is about to move the file of a running daemon.  *)
Own ==
  /\ \A d \in Daemons : at[d] \in Owning => lock # NoLock /\ lock.by = d
  /\ \A d \in Daemons : at[d] \in Owning \ {"write"} => lock.written
  /\ \A a \in Actors : at[a] = "cleanMove" => ~Held

(* Steps that leave the lock file alone and bring nobody to a place where  *)
(* Own asks for more.                                                      *)
LEMMA SameLock ==
  ASSUME Own, lock' = lock,
         lock # NoLock /\ lock.by \in alive' => lock.by \in alive,
         \A a \in Actors : at'[a] = "cleanMove" => at[a] = "cleanMove",
         \A d \in Daemons : at'[d] \in Owning => at[d] \in Owning,
         \A d \in Daemons :
           at'[d] \in Owning \ {"write"} => at[d] \in Owning \ {"write"}
  PROVE  Own'
BY DEF Own, Held

(* A move of one actor within the same demands is such a step.             *)
LEMMA MovedOwn ==
  ASSUME Base, Own, lock' = lock, alive' \subseteq alive,
         NEW a \in Actors, NEW place, Goto(a, place), place # "cleanMove",
         place \in Owning => at[a] \in Owning \ {"write"}
  PROVE  Own'
<1>1. \A b \in Actors : at'[b] = IF b = a THEN place ELSE at[b]
  BY DEF Base, Places, Goto
<1> QED
  BY <1>1, SameLock DEF Base, Places, Actors

LEMMA OwnStep ==
  ASSUME "emptylock" \notin Allowed, "stalelock" \notin Allowed,
         Base, Own, [Next]_vars
  PROVE  Own'
<1> USE ConstantsAssumption
<1>1. ASSUME NEW a \in Actors, CleanRead(a) PROVE Own'
  <2>1. CASE at'[a] = "cleanMove"
    <3>1. ~Held /\ lock' = lock /\ alive' = alive
      BY <1>1, <2>1 DEF CleanRead, AfterClean, Goto, Base, Places, BeingFilled,
             Held, IsPidAlive, LockPid, PidOf
    <3>2. \A d \in Daemons : at'[d] \in Owning => at[d] = at'[d]
      BY <1>1, <2>1 DEF CleanRead, Goto, Base, Places, Actors, Owning, Handled
    <3> QED
      BY <3>1, <3>2 DEF Own, Held
  <2>2. CASE at'[a] # "cleanMove"
    BY <1>1, <2>2, MovedOwn
    DEF CleanRead, AfterClean, Goto, Base, Places, Owning, Handled
  <2> QED
    BY <2>1, <2>2
<1>2. ASSUME NEW a \in Actors, CleanMove(a) PROVE Own'
  <2>1. ~Held
    BY <1>2 DEF CleanMove, Own
  <2>2. \A d \in Daemons : at[d] \notin Owning
    BY <2>1 DEF Own, Held, Base, Places, Unborn, Owning, Handled
  <2>3. \A b \in Actors : at'[b] = IF b = a THEN AfterClean(a) ELSE at[b]
    BY <1>2 DEF CleanMove, Goto, Base, Places
  <2>4. \A d \in Daemons : at'[d] \notin Owning
    BY <2>2, <2>3 DEF AfterClean, Owning, Handled, Actors
  <2>5. lock' = NoLock
    BY <1>2, <2>1 DEF CleanMove, BeingFilled
  <2> QED
    BY <2>4, <2>5 DEF Own, Held
<1>3. ASSUME NEW d \in Daemons, CreateLock(d) PROVE Own'
  <2>1. CASE lock = NoLock
    <3>1. /\ lock' = [by |-> d, written |-> FALSE]
          /\ \A b \in Actors : at'[b] = IF b = d THEN "write" ELSE at[b]
      BY <1>3, <2>1 DEF CreateLock, Goto, Base, Places
    <3>2. /\ \A a \in Actors : at'[a] # "cleanMove"
          /\ \A e \in Daemons \ {d} : at'[e] \notin Owning
      BY <1>3, <2>1, <3>1 DEF CreateLock, Own, Actors
    <3>3. lock' \in Lock
      BY <3>1 DEF Lock
    <3>4. lock' # NoLock
      BY <3>3
    <3> QED
      BY <3>1, <3>2, <3>4 DEF Own, Actors
  <2>2. CASE lock # NoLock
    BY <1>3, <2>2, MovedOwn DEF CreateLock, Exit, Actors, Owning, Handled
  <2> QED
    BY <2>1, <2>2
<1>4. ASSUME NEW d \in Daemons, FillLock(d) PROVE Own'
  <2>1. lock # NoLock /\ lock.by = d
    BY <1>4 DEF FillLock, Own, Owning
  <2>2. lock' = [by |-> d, written |-> TRUE] /\ alive' = alive
    BY <1>4, <2>1 DEF FillLock
  <2>3. \A b \in Actors : at'[b] = IF b = d THEN "clear" ELSE at[b]
    BY <1>4 DEF FillLock, Goto, Base, Places
  <2>4. \A e \in Daemons \ {d} : at'[e] \notin Owning
    BY <2>1, <2>3 DEF Own, Actors
  <2>5. lock' \in Lock
    BY <2>2 DEF Lock
  <2>6. \A a \in Actors : at'[a] = "cleanMove" => ~Held'
    BY <2>1, <2>2, <2>3 DEF Own, Held
  <2>7. lock' # NoLock
    BY <2>5
  <2> QED
    BY <2>2, <2>4, <2>6, <2>7 DEF Own
<1>5. ASSUME NEW d \in Daemons, ReleaseLock(d) PROVE Own'
  <2>1. lock' = NoLock
    BY <1>5 DEF ReleaseLock
  <2>2. \A b \in Actors : at'[b] = IF b = d THEN "clear2" ELSE at[b]
    BY <1>5 DEF ReleaseLock, Goto, Base, Places
  <2>3. \A e \in Daemons : at'[e] \notin Owning
    BY <1>5, <2>2 DEF ReleaseLock, Own, Actors, Owning, Handled
  <2> QED
    BY <2>1, <2>3 DEF Own, Held
<1>6. ASSUME NEW d \in Daemons,
             \/ ClearFlag(d) \/ Announce(d) \/ Scan(d) \/ SyncRaises(d)
             \/ MarkReady(d) \/ LeaveLoop(d) \/ MarkStopped(d)
      PROVE Own'
  BY <1>6, MovedOwn DEF ClearFlag, Announce, Scan, SyncRaises, MarkReady,
     LeaveLoop, MarkStopped, Actors, Owning, Handled
<1>7. ASSUME NEW d \in Daemons, CheckLock(d) \/ LastClear(d) \/ Die(d)
      PROVE Own'
  BY <1>7, MovedOwn DEF CheckLock, LastClear, Die, Exit, Actors, Owning,
     Handled
<1>8. ASSUME NEW d \in Daemons, HandleTerm(d) \/ ReusePid(d)
      PROVE Own'
  BY <1>8 DEF HandleTerm, ReusePid, Own, Held
<1>9. ASSUME NEW c \in Controllers,
             \/ StartCall(c) \/ StopCall(c) \/ StartClear(c) \/ IdleClear(c)
             \/ RequestStop(c) \/ StopWait(c) \/ StopClear(c) \/ Answer(c)
      PROVE Own'
  BY <1>9, MovedOwn DEF StartCall, StopCall, Call, ReadLock, StartClear,
     IdleClear, RequestStop, StopWait, StopClear, Answer, Actors, Owning,
     Handled
<1>13. ASSUME NEW c \in Controllers,
              \/ StartAlive(c) \/ SpawnFails(c) \/ WaitLock(c) \/ WaitAlive(c)
              \/ WaitStatus(c) \/ GiveUp(c) \/ WaitAgain(c) \/ StopAlive(c)
       PROVE Own'
  BY <1>13, MovedOwn DEF StartAlive, SpawnFails, WaitLock, ReadLock, WaitAlive,
     WaitStatus, GiveUp, WaitAgain, StopAlive, Actors, Owning, Handled
<1>10. ASSUME NEW c \in Controllers, NEW d \in Daemons, Spawn(c, d)
      PROVE Own'
  <2>1. \A a \in Actors :
          at'[a] = IF a = d THEN "cleanRead"
                   ELSE IF a = c THEN "waitLock" ELSE at[a]
    BY <1>10 DEF Spawn, Base, Places, Actors
  <2>2. lock # NoLock /\ lock.by \in alive' => lock.by \in alive
    BY <1>10 DEF Spawn, Base, Places
  <2>3. /\ \A a \in Actors : at'[a] = "cleanMove" => at[a] = "cleanMove"
        /\ \A e \in Daemons : at'[e] \in Owning => at[e] = at'[e]
    BY <2>1 DEF Actors, Owning, Handled
  <2>4. lock' = lock
    BY <1>10 DEF Spawn
  <2> QED
    BY <2>2, <2>3, <2>4, SameLock
<1>11. ASSUME NEW c \in Controllers, KillPid(c)
      PROVE Own'
  <2>1. /\ lock' = lock /\ alive' \subseteq alive
        /\ \A a \in Actors :
             at'[a] # at[a] => at'[a] \in {"dead", "stopClear"}
    BY <1>11 DEF KillPid, Goto, Base, Places, Actors
  <2>2. /\ \A a \in Actors : at'[a] = "cleanMove" => at[a] = "cleanMove"
        /\ \A d \in Daemons : at'[d] \in Owning => at[d] = at'[d]
    BY <2>1 DEF Actors, Owning, Handled
  <2> QED
    BY <2>1, <2>2, SameLock
<1>12. CASE UNCHANGED vars
  BY <1>12 DEF vars, Own, Held
<1> QED
  BY <1>1, <1>2, <1>3, <1>4, <1>5, <1>6, <1>7, <1>8, <1>9, <1>10, <1>11,
     <1>12, <1>13
  DEF Next, DaemonStep, ControllerStep, Actors

(* One profile has one monitor, however starts, stops, kills, failed syncs *)
(* and the cleanups of stale locks interleave, if no cleanup reads a lock  *)
(* that is being filled and none moves a lock made after it read one.      *)
THEOREM MonitorIsAlone ==
  ASSUME "emptylock" \notin Allowed, "stalelock" \notin Allowed
  PROVE  Spec => []OneMonitor
<1>1. Init => Own
  BY ConstantsAssumption DEF Init, Own, Actors, Owning, Handled
<1>2. Base /\ Own /\ [Next]_vars => Own'
  BY OwnStep
<1>3. Own => OneMonitor
  BY DEF Own, OneMonitor, Working, Owning
<1> QED
  BY <1>1, <1>2, <1>3, BaseInit, BaseStep, PTL DEF Spec

(* The lock of a monitor that works names it, so that a stop, or a start,  *)
(* that asks for the status finds it.                                      *)
THEOREM LockIsKept ==
  ASSUME "emptylock" \notin Allowed, "stalelock" \notin Allowed
  PROVE  Spec => []MonitorIsFound
<1>1. Init => Own
  BY ConstantsAssumption DEF Init, Own, Actors, Owning, Handled
<1>2. Base /\ Own /\ [Next]_vars => Own'
  BY OwnStep
<1>3. ASSUME Base, Own, NEW d \in Daemons, at[d] \in Working
      PROVE  lock = [by |-> d, written |-> TRUE]
  <2>1. lock # NoLock /\ lock.by = d /\ lock.written
    BY <1>3 DEF Own, Working, Owning, Handled
  <2>2. lock \in Lock
    BY <1>3, <2>1 DEF Base, Places
  <2> QED
    BY <2>1, <2>2 DEF Lock
<1>4. Base /\ Own => MonitorIsFound
  BY <1>3 DEF MonitorIsFound
<1> QED
  BY <1>1, <1>2, <1>4, BaseInit, BaseStep, PTL DEF Spec

-----------------------------------------------------------------------------
(* monitor_status.json speaks of the daemon that works, and says ready     *)
(* only once that daemon has come to its loop.                             *)
Writing == Working \ {"announce"}
Past    == {"loop", "stopping", "dead"}
Report ==
  /\ \A d \in Daemons : at[d] \in Writing => status.pid = d
  /\ \A d \in Daemons : status.ready /\ status.pid = d => at[d] \in Past

(* Steps that leave the status file alone.                                 *)
LEMMA SameReport ==
  ASSUME Report, status' = status,
         \A d \in Daemons : at'[d] \in Writing => at[d] \in Writing,
         \A d \in Daemons : at[d] \in Past => at'[d] \in Past
  PROVE  Report'
BY DEF Report

LEMMA MovedReport ==
  ASSUME Base, Report, status' = status,
         NEW a \in Actors, NEW place, Goto(a, place),
         place \in Writing => at[a] \in Writing,
         at[a] \in Past => place \in Past
  PROVE  Report'
<1>1. \A d \in Daemons : at'[d] = IF d = a THEN place ELSE at[d]
  BY DEF Base, Places, Goto, Actors
<1> QED
  BY <1>1, SameReport

LEMMA ReportStep ==
  ASSUME Base, Own, Report, [Next]_vars
  PROVE  Report'
<1> USE ConstantsAssumption
<1> USE DEF Writing, Past, Working, Handled
<1>1. ASSUME NEW a \in Actors, CleanRead(a) \/ CleanMove(a) PROVE Report'
  BY <1>1, MovedReport DEF CleanRead, CleanMove, AfterClean
<1>2. ASSUME NEW d \in Daemons, CreateLock(d) PROVE Report'
  BY <1>2, MovedReport DEF CreateLock, Exit, Actors
<1>3. ASSUME NEW d \in Daemons, Announce(d) PROVE Report'
  <2>1. status' = [pid |-> d, ready |-> FALSE]
    BY <1>3 DEF Announce, Own, Owning, LockPid, PidOf
  <2>2. \A e \in Daemons \ {d} : at'[e] = at[e] /\ at[e] \notin Owning
    BY <1>3 DEF Announce, Own, Owning, Base, Places, Goto, Actors
  <2> QED
    BY <2>1, <2>2 DEF Report, Owning
<1>4. ASSUME NEW d \in Daemons, MarkReady(d) PROVE Report'
  <2>1. status' = [pid |-> d, ready |-> TRUE]
    BY <1>4 DEF MarkReady, Report
  <2>2. \A e \in Daemons : at'[e] = IF e = d THEN "loop" ELSE at[e]
    BY <1>4 DEF MarkReady, Base, Places, Goto, Actors
  <2>3. \A e \in Daemons \ {d} : at[e] \notin Owning
    BY <1>4 DEF MarkReady, Own, Owning
  <2> QED
    BY <2>1, <2>2, <2>3 DEF Report, Owning
<1>5. ASSUME NEW d \in Daemons, MarkStopped(d) PROVE Report'
  <2>1. status' = [pid |-> d, ready |-> FALSE]
    BY <1>5 DEF MarkStopped, Report
  <2>2. \A e \in Daemons : at'[e] = IF e = d THEN "release" ELSE at[e]
    BY <1>5 DEF MarkStopped, Base, Places, Goto, Actors
  <2>3. \A e \in Daemons \ {d} : at[e] \notin Owning
    BY <1>5 DEF MarkStopped, Own, Owning
  <2> QED
    BY <2>1, <2>2, <2>3 DEF Report, Owning
<1>6. ASSUME NEW d \in Daemons,
             \/ CheckLock(d) \/ FillLock(d) \/ ClearFlag(d) \/ Scan(d)
             \/ LeaveLoop(d) \/ LastClear(d) \/ Die(d) \/ ReleaseLock(d)
      PROVE Report'
  BY <1>6, MovedReport DEF CheckLock, FillLock, ClearFlag, Scan, LeaveLoop,
     LastClear, Die, ReleaseLock, Exit, Actors
<1>7. ASSUME NEW d \in Daemons, SyncRaises(d) PROVE Report'
  BY <1>7, MovedReport DEF SyncRaises, Actors
<1>8. ASSUME NEW d \in Daemons, HandleTerm(d) \/ ReusePid(d) PROVE Report'
  BY <1>8 DEF HandleTerm, ReusePid, Report
<1>9. ASSUME NEW c \in Controllers,
             \/ StartCall(c) \/ StopCall(c) \/ StartClear(c) \/ IdleClear(c)
             \/ RequestStop(c) \/ StopWait(c) \/ StopClear(c) \/ Answer(c)
      PROVE Report'
  BY <1>9, MovedReport DEF StartCall, StopCall, Call, ReadLock, StartClear,
     IdleClear, RequestStop, StopWait, StopClear, Answer, Actors
<1>13. ASSUME NEW c \in Controllers,
              \/ StartAlive(c) \/ SpawnFails(c) \/ WaitLock(c) \/ WaitAlive(c)
              \/ WaitStatus(c) \/ GiveUp(c) \/ WaitAgain(c) \/ StopAlive(c)
       PROVE Report'
  BY <1>13, MovedReport DEF StartAlive, SpawnFails, WaitLock, ReadLock, WaitAlive,
     WaitStatus, GiveUp, WaitAgain, StopAlive, Actors
<1>10. ASSUME NEW c \in Controllers, NEW d \in Daemons, Spawn(c, d)
       PROVE Report'
  <2>1. \A e \in Daemons : at'[e] = IF e = d THEN "cleanRead" ELSE at[e]
    BY <1>10 DEF Spawn, Base, Places, Actors
  <2>2. status' = status /\ at[d] = "unborn"
    BY <1>10 DEF Spawn
  <2> QED
    BY <2>1, <2>2, SameReport
<1>11. ASSUME NEW c \in Controllers, KillPid(c) PROVE Report'
  <2>1. status' = status /\ \A d \in Daemons : at'[d] \in {at[d], "dead"}
    BY <1>11 DEF KillPid, Goto, Base, Places, Actors
  <2> QED
    BY <2>1, SameReport
<1>12. CASE UNCHANGED vars
  BY <1>12 DEF vars, Report
<1> QED
  BY <1>1, <1>2, <1>3, <1>4, <1>5, <1>6, <1>7, <1>8, <1>9, <1>10, <1>11,
     <1>12, <1>13
  DEF Next, DaemonStep, ControllerStep, Actors

(* No pid names a process again, where the system does not do that.        *)
Unreused == reused = {}

LEMMA NoReuse ==
  ASSUME "reuse" \notin Allowed PROVE Spec => []Unreused
<1>1. Init => Unreused
  BY DEF Init, Unreused
<1>2. Unreused /\ [Next]_vars => Unreused'
  BY DEF Unreused, Next, DaemonStep, ControllerStep, CleanRead, CleanMove, CheckLock,
     CreateLock, FillLock, ClearFlag, Announce, Scan, SyncRaises, MarkReady,
     LeaveLoop, MarkStopped, ReleaseLock, LastClear, HandleTerm, Die, ReusePid,
     StartCall, StopCall, Call, StartAlive, StartClear, Spawn, SpawnFails,
     WaitLock, WaitAlive, WaitStatus, GiveUp, WaitAgain, StopAlive, IdleClear,
     RequestStop, StopWait, KillPid, StopClear, Answer, vars
<1> QED
  BY <1>1, <1>2, PTL DEF Spec

(* What the bridge reports as ready has made both startup scans, if in     *)
(* addition no pid of a dead daemon names a process again.                 *)
THEOREM ReadyIsTrue ==
  ASSUME "emptylock" \notin Allowed, "stalelock" \notin Allowed,
         "reuse" \notin Allowed
  PROVE  Spec => []ReadyTruth
<1>1. Init => Own /\ Report
  BY ConstantsAssumption
  DEF Init, Own, Report, Actors, Owning, Handled, Writing, Working
<1>2. Base /\ Own /\ Report /\ [Next]_vars => Own' /\ Report'
  BY OwnStep, ReportStep
<1>3. Base /\ Report /\ Unreused => ReadyTruth
  BY ConstantsAssumption DEF Unreused, Base, Places, Report, ReadyTruth, Ready, Running,
     IsPidAlive, Unborn, Past, Scanned
<1> QED
  BY <1>1, <1>2, <1>3, NoReuse, BaseInit, BaseStep, PTL DEF Spec

-----------------------------------------------------------------------------
(* What a start has seen, and will answer for: every daemon that is past   *)
(* its scans is one the start may speak of, and a pid it saw alive whose   *)
(* status is ready is among them.                                          *)
Asking == {"startAlive", "startClear", "spawn", "waitLock", "waitAlive",
           "waitStatus", "waitTurn"}
Credit ==
  /\ \A c \in Controllers : at[c] \in Asking => op[c] = "start"
  /\ \A c \in Controllers, d \in Daemons :
       op[c] = "start" /\ at[d] \in Scanned => d \in wasReady[c]
  /\ \A c \in Controllers : at[c] = "waitStatus" =>
       /\ PidOf(seen[c]) \in Daemons
       /\ SaysReady(c) => PidOf(seen[c]) \in wasReady[c]
  /\ \A c \in Controllers : reply[c] = "started" =>
       at[c] = "answer" /\ target[c] \in wasReady[c]

(* A daemon's step that marks nobody ready and brings none past its scans. *)
LEMMA DaemonCredit ==
  ASSUME Base, Credit, UNCHANGED <<op, seen, target, reply, wasReady>>,
         \/ status'.pid = status.pid /\ status'.ready = status.ready
         \/ ~status'.ready,
         \A c \in Controllers : at'[c] = at[c],
         \A d \in Daemons : at'[d] \in Scanned => at[d] \in Scanned
  PROVE  Credit'
BY DEF Credit, SaysReady, PidOf

(* A daemon's move leaves the controllers where they are.                  *)
LEMMA DaemonMoves ==
  ASSUME Base, NEW d \in Daemons, NEW place, Goto(d, place)
  PROVE  /\ \A c \in Controllers : at'[c] = at[c]
         /\ \A e \in Daemons : at'[e] = IF e = d THEN place ELSE at[e]
BY ConstantsAssumption DEF Base, Places, Goto, Actors

LEMMA ControllerMoves ==
  ASSUME Base, NEW c \in Controllers, NEW place, Goto(c, place)
  PROVE  /\ \A e \in Controllers : at'[e] = IF e = c THEN place ELSE at[e]
         /\ \A e \in Daemons : at'[e] = at[e]
BY ConstantsAssumption DEF Base, Places, Goto, Actors

(* A controller's step that reads nothing and answers nothing.             *)
LEMMA ControllerCredit ==
  ASSUME Base, Credit, UNCHANGED <<status, op, target, reply, wasReady>>,
         NEW c \in Controllers, NEW place, Goto(c, place),
         at[c] # "answer", place # "waitStatus",
         place \in Asking => op[c] = "start",
         \A e \in Controllers \ {c} : seen'[e] = seen[e]
  PROVE  Credit'
BY ControllerMoves DEF Credit, SaysReady

LEMMA CreditStep ==
  ASSUME Base, Report, Unreused, Credit, [Next]_vars
  PROVE  Credit'
<1> USE ConstantsAssumption
<1>1. ASSUME NEW d \in Daemons, CleanRead(d) \/ CleanMove(d) PROVE Credit'
  <2>1. PICK place \in {"cleanMove", "check"} : Goto(d, place)
    BY <1>1 DEF CleanRead, CleanMove, AfterClean
  <2>2. /\ \A c \in Controllers : at'[c] = at[c] /\ seen'[c] = seen[c]
        /\ \A e \in Daemons : at'[e] \in Scanned => at[e] \in Scanned
    BY <1>1, <2>1, DaemonMoves
    DEF CleanRead, CleanMove, Base, Rest, Actors, Scanned
  <2>3. UNCHANGED <<status, op, target, reply, wasReady>>
    BY <1>1 DEF CleanRead, CleanMove
  <2> QED
    BY <2>2, <2>3 DEF Credit, SaysReady
<1>2. ASSUME NEW d \in Daemons,
             \/ CheckLock(d) \/ CreateLock(d) \/ FillLock(d) \/ ClearFlag(d)
             \/ Scan(d) \/ SyncRaises(d) \/ LeaveLoop(d) \/ ReleaseLock(d)
             \/ LastClear(d) \/ Die(d)
      PROVE Credit'
  <2>1. PICK place : /\ Goto(d, place)
                     /\ place \in Scanned => at[d] \in Scanned
    BY <1>2 DEF CheckLock, CreateLock, FillLock, ClearFlag, Scan, SyncRaises,
       LeaveLoop, ReleaseLock, LastClear, Die, Exit, Scanned
  <2>2. UNCHANGED <<status, op, seen, target, reply, wasReady>>
    BY <1>2 DEF CheckLock, CreateLock, FillLock, ClearFlag, Scan, SyncRaises,
       LeaveLoop, ReleaseLock, LastClear, Die
  <2> QED
    BY <2>1, <2>2, DaemonMoves, DaemonCredit
<1>3. ASSUME NEW d \in Daemons, Announce(d) \/ MarkStopped(d) PROVE Credit'
  <2>1. PICK place \in {"scan1", "release"} : Goto(d, place)
    BY <1>3 DEF Announce, MarkStopped
  <2>2. ~status'.ready /\ UNCHANGED <<op, seen, target, reply, wasReady>>
    BY <1>3 DEF Announce, MarkStopped
  <2> QED
    BY <2>1, <2>2, DaemonMoves, DaemonCredit DEF Scanned
<1>4. ASSUME NEW d \in Daemons, MarkReady(d) PROVE Credit'
  <2>1. status' = [pid |-> d, ready |-> TRUE]
    BY <1>4 DEF MarkReady, Report, Writing, Working, Handled
  <2>2. /\ \A c \in Controllers : at'[c] = at[c]
        /\ \A e \in Daemons : at'[e] = IF e = d THEN "loop" ELSE at[e]
    BY <1>4, DaemonMoves DEF MarkReady
  <2>3. \A c \in Controllers :
          wasReady'[c] = IF op[c] = "start" THEN wasReady[c] \cup {d}
                                           ELSE wasReady[c]
    BY <1>4 DEF MarkReady
  <2>4. UNCHANGED <<op, seen, target, reply>>
    BY <1>4 DEF MarkReady
  <2>5. \A c \in Controllers : at[c] = "waitStatus" => op[c] = "start"
    BY DEF Credit, Asking
  <2> QED
    BY <2>1, <2>2, <2>3, <2>4, <2>5 DEF Credit, SaysReady
<1>5. ASSUME NEW d \in Daemons, HandleTerm(d) \/ ReusePid(d) PROVE Credit'
  BY <1>5 DEF HandleTerm, ReusePid, Credit, SaysReady
<1>6. ASSUME NEW c \in Controllers, CleanRead(c) \/ CleanMove(c) PROVE Credit'
  <2>1. PICK place \in {"cleanMove", AfterClean(c)} : Goto(c, place)
    BY <1>6 DEF CleanRead, CleanMove
  <2>2. place # "waitStatus" /\ (place \in Asking => op[c] = "start")
    BY <2>1 DEF AfterClean, Asking
  <2>3. /\ UNCHANGED <<status, op, target, reply, wasReady>>
        /\ at[c] # "answer"
        /\ \A e \in Controllers \ {c} : seen'[e] = seen[e]
    BY <1>6 DEF CleanRead, CleanMove, Base, Rest, Actors
  <2> QED
    BY <2>1, <2>2, <2>3, ControllerCredit
<1>7. ASSUME NEW c \in Controllers,
             \/ StartAlive(c) \/ StartClear(c) \/ WaitLock(c) \/ WaitAgain(c)
      PROVE Credit'
  <2>1. PICK place \in {"waitLock", "cleanRead", "spawn", "waitAlive"} :
          Goto(c, place)
    BY <1>7 DEF StartAlive, StartClear, WaitLock, ReadLock, WaitAgain
  <2>2. op[c] = "start" /\ at[c] # "answer"
    BY <1>7 DEF StartAlive, StartClear, WaitLock, WaitAgain, Credit, Asking
  <2>3. UNCHANGED <<status, op, target, reply, wasReady>>
    BY <1>7 DEF StartAlive, StartClear, WaitLock, WaitAgain
  <2>4. \A e \in Controllers \ {c} : seen'[e] = seen[e]
    BY <1>7 DEF StartAlive, StartClear, WaitLock, ReadLock, WaitAgain, Base,
       Rest, Actors
  <2> QED
    BY <2>1, <2>2, <2>3, <2>4, ControllerCredit
<1>8. ASSUME NEW c \in Controllers,
             \/ IdleClear(c) \/ RequestStop(c) \/ StopWait(c) \/ StopClear(c)
      PROVE Credit'
  <2>1. PICK place \in {"answer", "cleanRead", "stopWait", "stopClear",
                        "killPid"} : Goto(c, place)
    BY <1>8 DEF IdleClear, RequestStop, StopWait, StopClear
  <2>2. /\ UNCHANGED <<status, op, target, reply, wasReady, seen>>
        /\ at[c] # "answer"
    BY <1>8 DEF IdleClear, RequestStop, StopWait, StopClear
  <2> QED
    BY <2>1, <2>2, ControllerCredit DEF Asking
<1>9. ASSUME NEW c \in Controllers, WaitAlive(c) PROVE Credit'
  <2>1. CASE at'[c] = "waitStatus"
    <3>1. /\ Goto(c, "waitStatus") /\ MayRun(c)
          /\ UNCHANGED <<seen, status, op, target, reply, wasReady>>
      BY <1>9, <2>1, ControllerMoves DEF WaitAlive
    <3>2. op[c] = "start" /\ at[c] = "waitAlive"
      BY <1>9 DEF WaitAlive, Credit, Asking
    <3>3. PidOf(seen[c]) \in alive
      BY <3>1 DEF MayRun, IsPidAlive, Unreused
    <3>4. PidOf(seen[c]) \in Daemons /\ at[PidOf(seen[c])] # "dead"
      BY <3>3 DEF Base, Places, Unborn
    <3>5. SaysReady(c) => PidOf(seen[c]) \in wasReady[c]
      BY <3>2, <3>4 DEF SaysReady, Report, Past, Credit, Scanned
    <3> QED
      BY <3>1, <3>2, <3>4, <3>5, ControllerMoves DEF Credit, SaysReady, Asking
  <2>2. CASE at'[c] # "waitStatus"
    <3>1. Goto(c, "waitTurn") /\ op[c] = "start" /\ at[c] # "answer"
      BY <1>9, <2>2, ControllerMoves DEF WaitAlive, Credit, Asking
    <3>2. /\ UNCHANGED <<status, op, target, reply, wasReady>>
          /\ \A e \in Controllers \ {c} : seen'[e] = seen[e]
      BY <1>9 DEF WaitAlive, Base, Rest, Actors
    <3> QED
      BY <3>1, <3>2, ControllerCredit
  <2> QED
    BY <2>1, <2>2
<1>10. ASSUME NEW c \in Controllers, WaitStatus(c) PROVE Credit'
  <2>1. /\ UNCHANGED <<status, op, wasReady>>
        /\ \A e \in Controllers \ {c} : seen'[e] = seen[e]
        /\ op[c] = "start" /\ at[c] = "waitStatus"
    BY <1>10 DEF WaitStatus, Base, Rest, Actors, Credit, Asking
  <2>2. CASE SaysReady(c)
    <3>1. /\ Goto(c, "answer")
          /\ \A e \in Controllers :
               /\ reply'[e] = IF e = c THEN "started" ELSE reply[e]
               /\ target'[e] = IF e = c THEN PidOf(seen[c]) ELSE target[e]
      BY <1>10, <2>2 DEF WaitStatus, Base, Rest
    <3>2. PidOf(seen[c]) \in wasReady[c]
      BY <2>1, <2>2 DEF Credit
    <3> QED
      BY <2>1, <3>1, <3>2, ControllerMoves DEF Credit, SaysReady, Asking
  <2>3. CASE ~SaysReady(c)
    BY <1>10, <2>1, <2>3, ControllerCredit DEF WaitStatus
  <2> QED
    BY <2>2, <2>3
<1>11. ASSUME NEW c \in Controllers, StartCall(c) PROVE Credit'
  <2>1. /\ Goto(c, "startAlive") /\ at[c] = "idle"
        /\ UNCHANGED <<status, target, reply>>
        /\ \A e \in Controllers \ {c} :
             op'[e] = op[e] /\ seen'[e] = seen[e] /\ wasReady'[e] = wasReady[e]
        /\ op'[c] = "start"
        /\ wasReady'[c] = {d \in Daemons : at[d] \in Scanned}
    BY <1>11 DEF StartCall, Call, ReadLock, Base, Rest, Actors
  <2> QED
    BY <2>1, ControllerMoves DEF Credit, SaysReady, Asking
<1>12. ASSUME NEW c \in Controllers, StopCall(c) PROVE Credit'
  <2>1. /\ Goto(c, "stopAlive") /\ at[c] = "idle"
        /\ UNCHANGED <<status, target, reply, wasReady>>
        /\ \A e \in Controllers \ {c} : op'[e] = op[e] /\ seen'[e] = seen[e]
        /\ op'[c] = "stop"
    BY <1>12 DEF StopCall, Call, ReadLock, Base, Rest, Actors
  <2> QED
    BY <2>1, ControllerMoves DEF Credit, SaysReady, Asking
<1>13. ASSUME NEW c \in Controllers,
              SpawnFails(c) \/ GiveUp(c) \/ StopAlive(c)
       PROVE Credit'
  <2>1. PICK place \in {"answer", "request", "idleClear", "idleClean"} :
          Goto(c, place)
    BY <1>13 DEF SpawnFails, GiveUp, StopAlive
  <2>2. /\ UNCHANGED <<status, op, wasReady>>
        /\ at[c] \notin {"answer", "waitStatus"}
        /\ \A e \in Controllers \ {c} :
             /\ seen'[e] = seen[e] /\ target'[e] = target[e]
             /\ reply'[e] = reply[e]
        /\ reply'[c] = "failed" \/ reply' = reply
    BY <1>13 DEF SpawnFails, GiveUp, StopAlive, Base, Rest, Actors
  <2> QED
    BY <2>1, <2>2, ControllerMoves DEF Credit, SaysReady, Asking
<1>14. ASSUME NEW c \in Controllers, NEW d \in Daemons, Spawn(c, d)
       PROVE Credit'
  <2>1. /\ \A e \in Controllers : at'[e] = IF e = c THEN "waitLock" ELSE at[e]
        /\ \A e \in Daemons : at'[e] = IF e = d THEN "cleanRead" ELSE at[e]
        /\ \A e \in Controllers \ {c} : target'[e] = target[e]
    BY <1>14 DEF Spawn, Base, Places, Rest, Actors
  <2>2. /\ UNCHANGED <<status, op, seen, reply, wasReady>>
        /\ op[c] = "start" /\ at[c] = "spawn"
    BY <1>14 DEF Spawn, Credit, Asking
  <2> QED
    BY <2>1, <2>2 DEF Credit, SaysReady, Asking, Scanned
<1>15. ASSUME NEW c \in Controllers, KillPid(c) PROVE Credit'
  <2>1. /\ \A e \in Controllers : at'[e] = IF e = c THEN "stopClear" ELSE at[e]
        /\ \A e \in Daemons : at'[e] \in {at[e], "dead"}
        /\ at[c] = "killPid"
    BY <1>15 DEF KillPid, Goto, Base, Places, Unborn, Actors
  <2>2. UNCHANGED <<status, op, seen, target, reply, wasReady>>
    BY <1>15 DEF KillPid
  <2> QED
    BY <2>1, <2>2 DEF Credit, SaysReady, Asking, Scanned
<1>16. ASSUME NEW c \in Controllers, Answer(c) PROVE Credit'
  <2>1. /\ Goto(c, "idle") /\ UNCHANGED <<status, seen>>
        /\ \A e \in Controllers \ {c} :
             /\ op'[e] = op[e] /\ target'[e] = target[e]
             /\ reply'[e] = reply[e] /\ wasReady'[e] = wasReady[e]
        /\ op'[c] = "none" /\ reply'[c] = "none"
    BY <1>16 DEF Answer, Base, Rest
  <2> QED
    BY <2>1, ControllerMoves DEF Credit, SaysReady, Asking
<1>17. CASE UNCHANGED vars
  BY <1>17 DEF vars, Credit, SaysReady
<1> QED
  BY <1>1, <1>2, <1>3, <1>4, <1>5, <1>6, <1>7, <1>8, <1>9, <1>10, <1>11,
     <1>12, <1>13, <1>14, <1>15, <1>16, <1>17
  DEF Next, DaemonStep, ControllerStep

(* When start answers that a monitor runs, that monitor worked, past both  *)
(* scans, at some moment of the call, also where deadlines pass and        *)
(* monitors are killed, if no pid of a dead daemon names a process again.  *)
THEOREM StartSaysTrue ==
  ASSUME "emptylock" \notin Allowed, "stalelock" \notin Allowed,
         "reuse" \notin Allowed
  PROVE  Spec => []StartedIsTrue
<1>1. Init => Own /\ Report /\ Credit
  BY ConstantsAssumption
  DEF Init, Own, Report, Credit, Actors, Owning, Handled, Writing, Working,
      Asking, Scanned
<1>2. Base /\ Own /\ Report /\ [Next]_vars => Own' /\ Report'
  BY OwnStep, ReportStep
<1>3. Base /\ Report /\ Unreused /\ Credit /\ [Next]_vars => Credit'
  BY CreditStep
<1>4. Credit => StartedIsTrue
  BY DEF Credit, StartedIsTrue
<1> QED
  BY <1>1, <1>2, <1>3, <1>4, NoReuse, BaseInit, BaseStep, PTL DEF Spec
=============================================================================
