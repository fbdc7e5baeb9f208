-------------------------- MODULE MonitorLifecycle --------------------------
(***************************************************************************)
(* The life of the monitor of one profile: daemon processes (run_monitor)  *)
(* that take .invoice_monitor.lock, scan, report ready and stop when asked *)
(* to, and the controllers (MonitorBridge.start and stop, called by the    *)
(* server's threads and by monitoring.control) that start and stop them.   *)
(*                                                                         *)
(* A daemon is its pid and runs once.  They share nothing but files: the   *)
(* lock, created with O_EXCL and filled afterwards, the stop flag and      *)
(* monitor_status.json.  Every access that another process can interleave  *)
(* with is a step of its own; at[a] is the place of actor a.               *)
(***************************************************************************)
EXTENDS Naturals, FiniteSets

CONSTANTS
  Daemons,      \* pids of the daemon processes that may be started
  Controllers,  \* callers of MonitorBridge.start and stop
  Nobody,       \* pid 0
  NoLock,       \* the lock file is not there
  Posix,        \* os.name # "nt": how a pid is killed, what can be renamed
  Allowed       \* what may happen beyond calls and steps, of Hazards

(***************************************************************************)
(*   emptylock   a cleanup reads the lock between its creation and its     *)
(*               filling                                                   *)
(*   stalelock   a lock is created between a cleanup's reading of a stale  *)
(*               one and its moving of the file                            *)
(*   kill        a daemon dies without running its finally block           *)
(*   reuse       the system gives the pid of a dead daemon to a process    *)
(*   syncfails   run_sync raises                                           *)
(*   slowstart   start's deadline passes while the daemon still starts     *)
(*   slowstop    stop's deadline passes while the daemon still finishes a  *)
(*               sync                                                      *)
(***************************************************************************)
Hazards == {"emptylock", "stalelock", "kill", "reuse", "syncfails",
            "slowstart", "slowstop"}

Actors == Daemons \cup Controllers
Lock   == [by : Daemons, written : BOOLEAN]

ASSUME ConstantsAssumption ==
  /\ Allowed \subseteq Hazards /\ Posix \in BOOLEAN
  /\ Daemons \cap Controllers = {} /\ Nobody \notin Actors
  /\ NoLock \notin Lock

VARIABLES
  at,       \* the place of each actor
  lock,     \* the lock file: who created it, and whether it is filled
  flag,     \* the stop flag file exists
  status,   \* pid and ready of monitor_status.json
  alive,    \* the daemon processes that run
  reused,   \* dead pids that name a process again
  term,     \* SIGTERM: "no", "sent", "handled" by request_stop
  seen,     \* the lock an actor read before acting on it
  op,       \* the call a controller executes
  target,   \* the daemon a call is about
  reply,    \* what a start answers
  last,     \* starts whose child is gone: the next status is the answer
  wasReady  \* history: the daemons that worked, past their startup scans, at
            \* some moment of the start a controller executes

vars == <<at, lock, flag, status, alive, reused, term, seen, op, target, reply,
          last, wasReady>>

Unborn  == {"unborn", "dead"}
Taking  == {"cleanRead", "cleanMove", "check", "create"}
Handled == {"announce", "scan1", "scan2", "ready", "loop", "stopping",
            "aborting", "release", "clear2"}  \* request_stop is installed
Owning  == {"write", "clear"} \cup (Handled \ {"clear2"})
Working == Handled \ {"clear2"}             \* past acquire_lock, not released
Scanned == {"loop", "stopping"}             \* past both scans and ready
DaemonAt     == Unborn \cup Taking \cup Owning \cup {"clear2"}
ControllerAt == {"idle", "cleanRead", "cleanMove", "startAlive", "startClear",
                 "spawn", "waitLock", "waitAlive", "waitStatus", "waitTurn",
                 "stopAlive", "idleClear", "idleClean", "request", "stopWait",
                 "killPid", "stopClear", "answer"}

TypeOK ==
  /\ at \in [Actors -> DaemonAt \cup ControllerAt]
  /\ \A d \in Daemons : at[d] \in DaemonAt
  /\ \A c \in Controllers : at[c] \in ControllerAt
  /\ lock \in Lock \cup {NoLock}
  /\ flag \in BOOLEAN
  /\ status \in [pid : Daemons \cup {Nobody}, ready : BOOLEAN]
  /\ alive \subseteq Daemons /\ reused \subseteq Daemons \ alive
  /\ term \in [Daemons -> {"no", "sent", "handled"}]
  /\ seen \in [Actors -> Lock \cup {NoLock}]
  /\ op \in [Controllers -> {"none", "start", "stop"}]
  /\ target \in [Controllers -> Daemons \cup {Nobody}]
  /\ reply \in [Controllers -> {"none", "started", "failed"}]
  /\ last \subseteq Controllers
  /\ wasReady \in [Controllers -> SUBSET Daemons]

Init ==
  /\ at = [a \in Actors |-> IF a \in Daemons THEN "unborn" ELSE "idle"]
  /\ lock = NoLock /\ flag \in BOOLEAN
  /\ status = [pid |-> Nobody, ready |-> FALSE]
  /\ alive = {} /\ reused = {}
  /\ term = [d \in Daemons |-> "no"]
  /\ seen = [a \in Actors |-> NoLock]
  /\ op = [c \in Controllers |-> "none"]
  /\ target = [c \in Controllers |-> Nobody]
  /\ reply = [c \in Controllers |-> "none"]
  /\ last = {}
  /\ wasReady = [c \in Controllers |-> {}]

(* lock_pid: 0 when the file is missing or not filled yet.                 *)
PidOf(l) == IF l # NoLock /\ l.written THEN l.by ELSE Nobody
LockPid  == PidOf(lock)

IsPidAlive(p) == p \in alive \cup reused

(* What MonitorBridge.status would say if it read everything at once.      *)
Running == IsPidAlive(LockPid)
Ready   == Running /\ status.pid = LockPid /\ status.ready

Goto(a, place) == at' = [at EXCEPT ![a] = place]

-----------------------------------------------------------------------------
(* cleanup_stale_lock: by a daemon that starts and by both controller      *)
(* calls.  It reads the pid, then moves the file away.                     *)

AfterClean(a) == IF a \in Daemons THEN "check"
                 ELSE IF op[a] = "start" THEN "startClear"
                 ELSE "answer"

(* The lock file is that of a live daemon, which may not have filled it.   *)
Held        == lock # NoLock /\ lock.by \in alive
BeingFilled == Held /\ ~lock.written

(* Mutant: the cleanup moves a lock away whoever holds it.                 *)
CleanRead_AnyLock(a) ==
  /\ at[a] = "cleanRead"
  /\ BeingFilled => "emptylock" \in Allowed
  /\ IF lock = NoLock
     THEN Goto(a, AfterClean(a)) /\ seen' = [seen EXCEPT ![a] = NoLock]
     ELSE Goto(a, "cleanMove") /\ seen' = [seen EXCEPT ![a] = lock]
  /\ UNCHANGED <<lock, flag, status, alive, reused, term, op, target, reply,
                 last, wasReady>>

CleanRead(a) ==
  /\ at[a] = "cleanRead"
  /\ BeingFilled => "emptylock" \in Allowed
  /\ IF lock = NoLock \/ IsPidAlive(LockPid)
     THEN Goto(a, AfterClean(a)) /\ seen' = [seen EXCEPT ![a] = NoLock]
     ELSE Goto(a, "cleanMove") /\ seen' = [seen EXCEPT ![a] = lock]
  /\ UNCHANGED <<lock, flag, status, alive, reused, term, op, target, reply,
                 last, wasReady>>

(* The file that is there now is moved; Windows refuses an open file.      *)
CleanMove(a) ==
  /\ at[a] = "cleanMove"
  /\ lock' = IF BeingFilled /\ ~Posix THEN lock ELSE NoLock
  /\ Goto(a, AfterClean(a))
  /\ seen' = [seen EXCEPT ![a] = NoLock]
  /\ UNCHANGED <<flag, status, alive, reused, term, op, target, reply,
                 last, wasReady>>

-----------------------------------------------------------------------------
(* A daemon: acquire_lock, the two startup scans, the loop, the finally.   *)

Exit(d) == Goto(d, "dead") /\ alive' = alive \ {d}

CheckLock(d) ==
  /\ at[d] = "check"
  /\ IF IsPidAlive(LockPid) THEN Exit(d)
                            ELSE Goto(d, "create") /\ alive' = alive
  /\ UNCHANGED <<lock, flag, status, reused, term, seen, op, target, reply,
                 last, wasReady>>

(* Mutant: the lock file is opened without O_EXCL.                         *)
CreateLock_NotExclusive(d) ==
  /\ at[d] = "create"
  /\ lock' = [by |-> d, written |-> FALSE]
  /\ Goto(d, "write")
  /\ UNCHANGED <<flag, status, alive, reused, term, seen, op, target, reply,
                 last, wasReady>>

(* O_CREAT | O_EXCL.                                                       *)
CreateLock(d) ==
  /\ at[d] = "create"
  /\ (\E a \in Actors : at[a] = "cleanMove") => "stalelock" \in Allowed
  /\ IF lock = NoLock
     THEN /\ lock' = [by |-> d, written |-> FALSE]
          /\ Goto(d, "write") /\ alive' = alive
     ELSE Exit(d) /\ lock' = lock
  /\ UNCHANGED <<flag, status, reused, term, seen, op, target, reply,
                 last, wasReady>>

(* The handle names the file that was created, wherever it was moved.      *)
FillLock(d) ==
  /\ at[d] = "write"
  /\ lock' = IF lock # NoLock /\ lock.by = d
             THEN [by |-> d, written |-> TRUE] ELSE lock
  /\ Goto(d, "clear")
  /\ UNCHANGED <<flag, status, alive, reused, term, seen, op, target, reply,
                 last, wasReady>>

ClearFlag(d) ==
  /\ at[d] = "clear"
  /\ flag' = FALSE
  /\ Goto(d, "announce")
  /\ UNCHANGED <<lock, status, alive, reused, term, seen, op, target, reply,
                 last, wasReady>>

(* Mutant: the ready mark of the daemon before is left standing.           *)
Announce_KeepsReady(d) ==
  /\ at[d] = "announce"
  /\ status' = [pid |-> LockPid, ready |-> status.ready]
  /\ Goto(d, "scan1")
  /\ UNCHANGED <<lock, flag, alive, reused, term, seen, op, target, reply,
                 last, wasReady>>

Announce(d) ==
  /\ at[d] = "announce"
  /\ status' = [pid |-> LockPid, ready |-> FALSE]
  /\ Goto(d, "scan1")
  /\ UNCHANGED <<lock, flag, alive, reused, term, seen, op, target, reply,
                 last, wasReady>>

(* run_sync before and after the observer starts.                          *)
Scan(d) ==
  /\ at[d] \in {"scan1", "scan2"}
  /\ Goto(d, IF at[d] = "scan1" THEN "scan2" ELSE "ready")
  /\ UNCHANGED <<lock, flag, status, alive, reused, term, seen, op, target,
                 reply, last, wasReady>>

SyncRaises(d) ==
  /\ "syncfails" \in Allowed /\ at[d] \in {"scan1", "scan2", "loop"}
  /\ Goto(d, IF at[d] = "loop" THEN "stopping" ELSE "aborting")
  /\ UNCHANGED <<lock, flag, status, alive, reused, term, seen, op, target,
                 reply, last, wasReady>>

MarkReady(d) ==
  /\ at[d] = "ready"
  /\ status' = [pid |-> status.pid, ready |-> TRUE]
  /\ Goto(d, "loop")
  /\ wasReady' = [c \in Controllers |-> IF op[c] = "start" THEN wasReady[c] \cup {d}
                                                        ELSE wasReady[c]]
  /\ UNCHANGED <<lock, flag, alive, reused, term, seen, op, target, reply,
                 last>>

(* Mutant: the loop asks for the file only, not for the signal.            *)
LeaveLoop_FlagOnly(d) ==
  /\ at[d] = "loop" /\ flag
  /\ Goto(d, "stopping")
  /\ UNCHANGED <<lock, flag, status, alive, reused, term, seen, op, target,
                 reply, last, wasReady>>

LeaveLoop(d) ==
  /\ at[d] = "loop" /\ (flag \/ term[d] = "handled")
  /\ Goto(d, "stopping")
  /\ UNCHANGED <<lock, flag, status, alive, reused, term, seen, op, target,
                 reply, last, wasReady>>

MarkStopped(d) ==
  /\ at[d] \in {"stopping", "aborting"}
  /\ status' = [pid |-> status.pid, ready |-> FALSE]
  /\ Goto(d, "release")
  /\ UNCHANGED <<lock, flag, alive, reused, term, seen, op, target, reply,
                 last, wasReady>>

(* release_lock unlinks whatever file has the name.                        *)
ReleaseLock(d) ==
  /\ at[d] = "release"
  /\ lock' = NoLock
  /\ Goto(d, "clear2")
  /\ UNCHANGED <<flag, status, alive, reused, term, seen, op, target, reply,
                 last, wasReady>>

LastClear(d) ==
  /\ at[d] = "clear2"
  /\ flag' = FALSE
  /\ Exit(d)
  /\ UNCHANGED <<lock, status, reused, term, seen, op, target, reply,
                 last, wasReady>>

(* request_stop, when the interpreter gets to run the handler.             *)
HandleTerm(d) ==
  /\ term[d] = "sent" /\ at[d] \in Handled
  /\ term' = [term EXCEPT ![d] = "handled"]
  /\ flag' = TRUE
  /\ UNCHANGED <<at, lock, status, alive, reused, seen, op, target, reply,
                 last, wasReady>>

DaemonStep(d) ==
  \/ CleanRead(d) \/ CleanMove(d) \/ CheckLock(d) \/ CreateLock(d)
  \/ FillLock(d) \/ ClearFlag(d) \/ Announce(d) \/ Scan(d) \/ MarkReady(d)
  \/ LeaveLoop(d) \/ MarkStopped(d) \/ ReleaseLock(d) \/ LastClear(d)
  \/ HandleTerm(d)

-----------------------------------------------------------------------------
(* MonitorBridge.status reads the lock, asks whether its pid runs, and     *)
(* then reads the status file: three steps of the call that asks for it.   *)

ReadLock(c, place) == Goto(c, place) /\ seen' = [seen EXCEPT ![c] = lock]

(* The pid may run, and may not: also when the file it was read from was   *)
(* gone for a moment, for status looks again whether there is one.         *)
Replaced(c)  == ~(seen[c] # NoLock /\ lock # NoLock /\ lock.by = seen[c].by)
MayRun(c)    == IsPidAlive(PidOf(seen[c]))
MayNotRun(c) == ~MayRun(c) \/ Replaced(c)

(* Mutant: the status is taken for the monitor's whoever wrote it.         *)
SaysReady_OfAnybody(c) == status.ready

SaysReady(c) == status.pid = PidOf(seen[c]) /\ status.ready

-----------------------------------------------------------------------------
(* MonitorBridge.start                                                     *)

Call(c, what, place) ==
  /\ at[c] = "idle"
  /\ op' = [op EXCEPT ![c] = what]
  /\ ReadLock(c, place)
  /\ UNCHANGED <<lock, flag, status, alive, reused, term, target, reply, last>>

(* Bound: a start that is likely to spawn a daemon finds a pid left.       *)
PidLeft == Cardinality({d \in Daemons : at[d] = "unborn"})
             > Cardinality({c \in Controllers : op[c] = "start"})

StartCall(c) ==
  /\ Running \/ PidLeft
  /\ Call(c, "start", "startAlive")
  /\ wasReady' = [wasReady EXCEPT ![c] = {d \in Daemons : at[d] \in Scanned}]

StartAlive(c) ==
  /\ at[c] = "startAlive"
  /\ \/ MayRun(c) /\ Goto(c, "waitLock")
     \/ MayNotRun(c) /\ Goto(c, "cleanRead")
  /\ seen' = [seen EXCEPT ![c] = NoLock]
  /\ UNCHANGED <<lock, flag, status, alive, reused, term, op, target, reply,
                 last, wasReady>>

StartClear(c) ==
  /\ at[c] = "startClear"
  /\ flag' = FALSE
  /\ Goto(c, "spawn")
  /\ UNCHANGED <<lock, status, alive, reused, term, seen, op, target, reply,
                 last, wasReady>>

Spawn(c, d) ==
  /\ at[c] = "spawn" /\ at[d] = "unborn"
  /\ at' = [at EXCEPT ![c] = "waitLock", ![d] = "cleanRead"]
  /\ alive' = alive \cup {d}
  /\ target' = [target EXCEPT ![c] = d]
  /\ UNCHANGED <<lock, flag, status, reused, term, seen, op, reply,
                 last, wasReady>>

(* Popen raises: the system has no pid left.                               *)
SpawnFails(c) ==
  /\ at[c] = "spawn" /\ \A d \in Daemons : at[d] # "unborn"
  /\ reply' = [reply EXCEPT ![c] = "failed"]
  /\ Goto(c, "answer")
  /\ UNCHANGED <<lock, flag, status, alive, reused, term, seen, op, target,
                 last, wasReady>>

(* _wait_for_ready asks for the status until it is ready, ...              *)
WaitLock(c) ==
  /\ at[c] = "waitLock"
  /\ ReadLock(c, "waitAlive")
  /\ UNCHANGED <<lock, flag, status, alive, reused, term, op, target, reply,
                 last, wasReady>>

WaitAlive(c) ==
  /\ at[c] = "waitAlive"
  /\ \/ MayRun(c) /\ Goto(c, "waitStatus") /\ seen' = seen
     \/ MayNotRun(c) /\ Goto(c, "waitTurn") /\ seen' = [seen EXCEPT ![c] = NoLock]
  /\ UNCHANGED <<lock, flag, status, alive, reused, term, op, target, reply,
                 last, wasReady>>

WaitStatus(c) ==
  /\ at[c] = "waitStatus"
  /\ IF SaysReady(c)
     THEN /\ reply' = [reply EXCEPT ![c] = "started"]
          /\ target' = [target EXCEPT ![c] = PidOf(seen[c])]
          /\ Goto(c, "answer")
     ELSE Goto(c, "waitTurn") /\ UNCHANGED <<reply, target>>
  /\ seen' = [seen EXCEPT ![c] = NoLock]
  /\ UNCHANGED <<lock, flag, status, alive, reused, term, op, last, wasReady>>

(* ... the child is gone, which asks once more, or the time is over.       *)
ChildGone(c) == target[c] # Nobody /\ target[c] \notin alive

GiveUp(c) ==
  /\ at[c] = "waitTurn"
  /\ \/ c \in last \/ "slowstart" \in Allowed
     \/ target[c] = Nobody /\ LockPid \notin alive
  /\ reply' = [reply EXCEPT ![c] = "failed"]
  /\ target' = [target EXCEPT ![c] = Nobody]
  /\ Goto(c, "answer")
  /\ UNCHANGED <<lock, flag, status, alive, reused, term, seen, op, last,
                 wasReady>>

WaitAgain(c) ==
  /\ at[c] = "waitTurn" /\ c \notin last
  /\ last' = IF ChildGone(c) THEN last \cup {c} ELSE last
  /\ Goto(c, "waitLock")
  /\ UNCHANGED <<lock, flag, status, alive, reused, term, seen, op, target,
                 reply, wasReady>>

-----------------------------------------------------------------------------
(* MonitorBridge.stop                                                      *)

StopCall(c) == Call(c, "stop", "stopAlive") /\ UNCHANGED wasReady

StopAlive(c) ==
  /\ at[c] = "stopAlive"
  /\ \/ /\ MayRun(c) /\ Goto(c, "request")
        /\ target' = [target EXCEPT ![c] = PidOf(seen[c])]
     \/ /\ MayNotRun(c) /\ target' = target
        /\ \/ Goto(c, "idleClean")
           \/ Replaced(c) /\ Goto(c, "idleClear")
  /\ seen' = [seen EXCEPT ![c] = NoLock]
  /\ UNCHANGED <<lock, flag, status, alive, reused, term, op, reply, last,
                 wasReady>>

(* Nothing runs: clear the flag, and the lock if one was seen.             *)
IdleClear(c) ==
  /\ at[c] \in {"idleClear", "idleClean"}
  /\ flag' = FALSE
  /\ Goto(c, IF at[c] = "idleClear" THEN "answer" ELSE "cleanRead")
  /\ UNCHANGED <<lock, status, alive, reused, term, seen, op, target, reply,
                 last, wasReady>>

RequestStop(c) ==
  /\ at[c] = "request"
  /\ flag' = TRUE
  /\ Goto(c, "stopWait")
  /\ UNCHANGED <<lock, status, alive, reused, term, seen, op, target, reply,
                 last, wasReady>>

StopWait(c) ==
  /\ at[c] = "stopWait"
  /\ \/ ~IsPidAlive(target[c]) /\ Goto(c, "stopClear")
     \/ IsPidAlive(target[c]) /\ "slowstop" \in Allowed /\ Goto(c, "killPid")
  /\ UNCHANGED <<lock, flag, status, alive, reused, term, seen, op, target,
                 reply, last, wasReady>>

(* _kill_pid: taskkill /F, or a SIGTERM: it kills a daemon that has no     *)
(* handler yet, and waits for the interpreter in one that has.             *)
KillPid(c) ==
  LET d == target[c] IN
  /\ at[c] = "killPid"
  /\ IF d \in alive /\ (~Posix \/ at[d] \notin Handled)
     THEN /\ at' = [at EXCEPT ![c] = "stopClear", ![d] = "dead"]
          /\ alive' = alive \ {d} /\ term' = term
     ELSE /\ Goto(c, "stopClear") /\ alive' = alive
          /\ term' = IF d \in alive /\ term[d] = "no"
                     THEN [term EXCEPT ![d] = "sent"] ELSE term
  /\ UNCHANGED <<lock, flag, status, reused, seen, op, target, reply,
                 last, wasReady>>

StopClear(c) ==
  /\ at[c] = "stopClear"
  /\ flag' = FALSE
  /\ Goto(c, "cleanRead")
  /\ UNCHANGED <<lock, status, alive, reused, term, seen, op, target, reply,
                 last, wasReady>>

(* The call has returned; what a stop says is "running": False.            *)
Answer(c) ==
  /\ at[c] = "answer"
  /\ op' = [op EXCEPT ![c] = "none"]
  /\ target' = [target EXCEPT ![c] = Nobody]
  /\ reply' = [reply EXCEPT ![c] = "none"]
  /\ last' = last \ {c}
  /\ wasReady' = [wasReady EXCEPT ![c] = {}]
  /\ Goto(c, "idle")
  /\ UNCHANGED <<lock, flag, status, alive, reused, term, seen>>

ControllerStep(c) ==
  \/ CleanRead(c) \/ CleanMove(c)
  \/ StartAlive(c) \/ StartClear(c)
  \/ (\E d \in Daemons : Spawn(c, d)) \/ SpawnFails(c)
  \/ WaitLock(c) \/ WaitAlive(c) \/ WaitStatus(c) \/ GiveUp(c) \/ WaitAgain(c)
  \/ StopAlive(c) \/ IdleClear(c) \/ RequestStop(c) \/ StopWait(c) \/ KillPid(c)
  \/ StopClear(c) \/ Answer(c)

-----------------------------------------------------------------------------
(* The system kills a daemon, or gives its pid to another process.         *)
Die(d) ==
  /\ "kill" \in Allowed /\ d \in alive
  /\ Exit(d)
  /\ UNCHANGED <<lock, flag, status, reused, term, seen, op, target, reply,
                 last, wasReady>>

ReusePid(d) ==
  /\ "reuse" \in Allowed /\ at[d] = "dead" /\ d \notin reused
  /\ reused' = reused \cup {d}
  /\ UNCHANGED <<at, lock, flag, status, alive, term, seen, op, target,
                 reply, last, wasReady>>

Next ==
  \/ \E d \in Daemons : DaemonStep(d) \/ SyncRaises(d) \/ Die(d) \/ ReusePid(d)
  \/ \E c \in Controllers : StartCall(c) \/ StopCall(c) \/ ControllerStep(c)

Spec == Init /\ [][Next]_vars

(* Processes and threads run; nothing makes anybody call start or stop.    *)
FairSpec ==
  /\ Spec
  /\ \A d \in Daemons : WF_vars(DaemonStep(d))
  /\ \A c \in Controllers : WF_vars(ControllerStep(c))

-----------------------------------------------------------------------------
(* Properties.                                                             *)

(* acquire_lock is there so that one profile has one monitor: no two       *)
(* daemons are past it and have not released, however starts, stops, kills *)
(* and the cleanups of all of them interleave.                             *)
OneMonitor ==
  \A d, e \in Daemons : at[d] \in Working /\ at[e] \in Working => d = e

(* The lock of a monitor that works is there and names it, whatever the    *)
(* other daemons' releases and everybody's cleanups move away, also after  *)
(* a stop whose deadline passed has gone on to clean up: who asks for the  *)
(* status finds the monitor.                                               *)
MonitorIsFound ==
  \A d \in Daemons : at[d] \in Working => lock = [by |-> d, written |-> TRUE]

(* What the files call ready, at any moment, is a daemon that has made its *)
(* second startup scan, so that no change before the observer came is      *)
(* missed.                                                                 *)
ReadyTruth == Ready => at[LockPid] \in Scanned

(* When start answers that a monitor runs, that very monitor worked, past  *)
(* both scans, at some moment of the call, although the lock, the pid and  *)
(* the status are looked at one after the other and monitors end, are      *)
(* killed and are replaced in between.  (It may be gone by the answer.)    *)
StartedIsTrue ==
  \A c \in Controllers : reply[c] = "started" => target[c] \in wasReady[c]

(* A monitor that a stop found running ends, even when a start or another  *)
(* stop clears the flag before the monitor looks.                          *)
StopWorks ==
  \A d \in Daemons :
    (\E c \in Controllers : op[c] = "stop" /\ target[c] = d) ~> d \notin alive
=============================================================================
