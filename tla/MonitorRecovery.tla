--------------------------- MODULE MonitorRecovery ---------------------------
(***************************************************************************)
(* The desktop host (src-tauri) around an update: it stops the monitor of  *)
(* its backend, installs, and has itself started again.  A marker on disk  *)
(* says that a monitor is owed; the next activation, or the failed update  *)
(* itself, starts the monitor and clears the marker.                       *)
(*                                                                         *)
(* Every call goes to a backend the host must still own, a call may fail   *)
(* before or after its effect, and the application may be killed anywhere. *)
(***************************************************************************)
EXTENDS Naturals

CONSTANTS Systems,     \* of "macos" (asks to be started again), "windows" (the installer does)
          MaxUpdates,  \* bound: updates asked for
          MaxUser,     \* bound: monitor buttons
          MaxFaults    \* bound: calls that fail, processes that die

VARIABLES system,
          host,     \* "gone", "idle", or the step of the activation or the update
          gate,     \* UpdaterRuntimeState
          backend,  \* "none", "owned", or "revoked": told to end
          monitor,  \* "off", "starting", "ready", or "dying": signalled, in its last sync
          marker,   \* the file
          paused,   \* PauseOutcome of the update under way
          owed,     \* ghost: an update took the monitor, nobody gave it back or wants it off
          missed,   \* ghost: the marker was cleared for a monitor that is dying
          exits,    \* the backend's end has asked the application to exit
          budget    \* updates, buttons and faults so far

vars == <<system, host, gate, backend, monitor, marker, paused, owed, missed, exits, budget>>
outside == <<system, backend, exits>>

Init ==
    /\ system \in Systems
    /\ host = "gone" /\ gate = "inactive" /\ backend = "none"
    /\ monitor \in {"off", "ready"} /\ marker = FALSE
    /\ paused = FALSE /\ owed = FALSE /\ missed = FALSE /\ exits = FALSE
    /\ budget = [updates |-> 0, user |-> 0, faults |-> 0]

Bounds == [updates |-> MaxUpdates, user |-> MaxUser, faults |-> MaxFaults]
Spend(kind) == budget[kind] < Bounds[kind] /\ budget' = [budget EXCEPT ![kind] = @ + 1]

Restoring == {"load", "look", "start", "recheck", "clear"}
Pausing == {"pload", "plook", "publish", "stop", "pcheck"}
Owned == backend = "owned"
Running == monitor # "off"
Ready == monitor \in {"ready", "dying"}    \* a dying monitor still reports its last status

-----------------------------------------------------------------------------
(* restore_owned_monitor, for the activation and after a failed update.    *)

Goto(step) == host' = step /\ UNCHANGED gate

\* The activation makes the updater ready or failed, an update that must restore has failed.
RestoreEnds(ok) ==
    /\ host' = "idle"
    /\ gate' = IF gate = "activating" /\ ok THEN "ready" ELSE "failed"

LoadMarker ==
    /\ host = "load" /\ Owned
    /\ IF marker THEN Goto("look") ELSE RestoreEnds(TRUE)
    /\ UNCHANGED <<outside, monitor, marker, paused, owed, missed, budget>>

\* Mutant: with no monitor running there is nothing to restore.
Look_OnlyRunning ==
    /\ host = "look" /\ Owned
    /\ IF Running /\ Ready THEN Goto("clear") ELSE RestoreEnds(~Running)
    /\ UNCHANGED <<outside, monitor, marker, paused, owed, missed, budget>>

Look ==
    /\ host = "look" /\ Owned
    /\ IF ~Running THEN Goto("start") ELSE IF Ready THEN Goto("clear") ELSE RestoreEnds(FALSE)
    /\ UNCHANGED <<outside, monitor, marker, paused, owed, missed, budget>>

\* The bridge's start: one that runs is waited for, another spawned.
StartMonitor ==
    /\ host = "start" /\ Owned /\ Goto("recheck")
    /\ monitor' = IF monitor = "dying" THEN "dying" ELSE "ready"
    /\ owed' = (owed /\ monitor = "dying")
    /\ UNCHANGED <<outside, marker, paused, missed, budget>>

Recheck ==
    /\ host = "recheck" /\ Owned
    /\ IF Ready THEN Goto("clear") ELSE RestoreEnds(FALSE)
    /\ UNCHANGED <<outside, monitor, marker, paused, owed, missed, budget>>

ClearMarker ==
    /\ host = "clear" /\ Owned
    /\ marker' = FALSE /\ missed' = (missed \/ owed) /\ RestoreEnds(TRUE)
    /\ UNCHANGED <<outside, monitor, paused, owed, budget>>

\* Each step revalidates the lease before and after its call.
RestoreLosesBackend ==
    /\ host \in Restoring /\ ~Owned /\ RestoreEnds(FALSE)
    /\ UNCHANGED <<outside, monitor, marker, paused, owed, missed, budget>>

\* A call fails: the start with a monitor that is not ready yet, the clear when the
\* entry is gone but not yet durable.
RestoreFails ==
    /\ host \in Restoring /\ Owned /\ Spend("faults") /\ RestoreEnds(FALSE)
    /\ IF host = "start" /\ monitor = "off" THEN monitor' \in {"off", "starting"}
       ELSE UNCHANGED monitor
    /\ IF host = "clear" THEN marker' \in {marker, FALSE} ELSE UNCHANGED marker
    /\ missed' = (missed \/ (owed /\ ~marker' /\ marker))
    /\ UNCHANGED <<outside, paused, owed>>

-----------------------------------------------------------------------------
(* UpdateCoordinator.execute.                                              *)

\* The reply is written before the work begins; when it cannot be, nothing is done.
Reserve ==
    /\ host = "idle" /\ gate = "ready" /\ Owned /\ Spend("updates")
    /\ gate' = "reserved"
    /\ UNCHANGED <<outside, host, monitor, marker, paused, owed, missed>>

Commit ==
    /\ gate = "reserved" /\ gate' = "executing" /\ host' = "verify"
    /\ UNCHANGED <<outside, monitor, marker, paused, owed, missed, budget>>

LoseCommit ==
    /\ gate = "reserved" /\ Spend("faults") /\ gate' = "lost"
    /\ UNCHANGED <<outside, host, monitor, marker, paused, owed, missed>>

EndUpdate == host' = "idle" /\ gate' = "failed"

Verify ==
    /\ host = "verify"
    /\ \/ Goto("pload") /\ UNCHANGED budget
       \/ EndUpdate /\ Spend("faults")
    /\ UNCHANGED <<outside, monitor, marker, paused, owed, missed>>

\* pause_owned_monitor; whatever fails in it is followed by a restore.
PauseLoad ==
    /\ host = "pload" /\ Owned
    /\ Goto(IF marker THEN "load" ELSE "plook")
    /\ UNCHANGED <<outside, monitor, marker, paused, owed, missed, budget>>

PauseLook ==
    /\ host = "plook" /\ Owned
    /\ Goto(IF ~Running THEN "install" ELSE IF Ready THEN "publish" ELSE "load")
    /\ paused' = FALSE
    /\ UNCHANGED <<outside, monitor, marker, owed, missed, budget>>

Publish ==
    /\ host = "publish" /\ Owned
    /\ marker' = TRUE /\ Goto("stop")
    /\ UNCHANGED <<outside, monitor, paused, owed, missed, budget>>

StopMonitor ==
    /\ host = "stop" /\ Owned
    /\ monitor' = "off" /\ owed' = (owed \/ monitor = "ready") /\ Goto("pcheck")
    /\ UNCHANGED <<outside, marker, paused, missed, budget>>

\* A person may have pressed start meanwhile.
PauseCheck ==
    /\ host = "pcheck" /\ Owned
    /\ Goto(IF Running THEN "load" ELSE "install")
    /\ paused' = ~Running
    /\ UNCHANGED <<outside, monitor, marker, owed, missed, budget>>

PauseLosesBackend ==
    /\ host \in Pausing /\ ~Owned /\ Goto("load")
    /\ UNCHANGED <<outside, monitor, marker, paused, owed, missed, budget>>

\* A marker that is linked but not durable is an error too.  A stop that is answered
\* for a monitor that still runs, in a long sync, is refused by the host.
PauseFails ==
    /\ host \in Pausing /\ Owned /\ Spend("faults") /\ Goto("load")
    /\ IF host = "publish" THEN marker' \in BOOLEAN ELSE UNCHANGED marker
    /\ IF host = "stop" THEN monitor' \in {monitor, "off"} \union {IF Running THEN "dying" ELSE "off"}
       ELSE UNCHANGED monitor
    /\ owed' = (owed \/ (monitor = "ready" /\ monitor' # "ready"))
    /\ UNCHANGED <<outside, paused, missed>>

\* On Windows the installer ends the application, once the backend has ended.
Install ==
    /\ host = "install"
    /\ \/ system = "macos" /\ Goto("relaunch") /\ UNCHANGED <<backend, exits>>
       \/ /\ system = "windows"
          /\ host' = "gone" /\ gate' = "inactive" /\ backend' = "none" /\ exits' = FALSE
    /\ UNCHANGED <<system, monitor, marker, paused, owed, missed, budget>>

\* shutdown_keep_monitor_or_terminate: the monitor is left as it is.
Relaunch ==
    /\ host = "relaunch"
    /\ backend' = "none" /\ host' = "idle" /\ gate' = "prepared"
    /\ UNCHANGED <<system, exits, monitor, marker, paused, owed, missed, budget>>

InstallFails ==
    /\ host \in {"install", "relaunch"} /\ Spend("faults")
    /\ backend' = IF host = "relaunch" /\ backend = "owned" THEN "revoked" ELSE backend
    /\ IF paused THEN Goto("load") ELSE EndUpdate
    /\ UNCHANGED <<system, exits, monitor, marker, paused, owed, missed>>

-----------------------------------------------------------------------------
(* The application, its backend, the monitor and the person.               *)

\* The port must be free; the startup gate is released, then the recovery is activated.
Launch ==
    /\ host = "gone" /\ backend = "none"
    /\ backend' = "owned" /\ gate' = "activating" /\ host' = "load"
    /\ UNCHANGED <<system, exits, monitor, marker, paused, owed, missed, budget>>

\* prepare_backend_exit: refused while a commit is reserved or executing.
Leave ==
    /\ host' = "gone" /\ gate' = "inactive" /\ backend' = "none" /\ exits' = FALSE
    /\ UNCHANGED <<system, monitor, marker, paused, owed, missed, budget>>

MayLeave == host = "idle" /\ gate \notin {"reserved", "executing"}
Quit == MayLeave /\ gate # "prepared" /\ Leave
Restart == host = "idle" /\ gate = "prepared" /\ Leave

\* The watcher of the backend asks for the exit once; a refusal is the end of it.
\* Nothing listens before the activation is over.
WatcherExits ==
    /\ exits /\ gate # "activating"
    /\ \/ MayLeave /\ Leave
       \/ /\ ~MayLeave /\ exits' = FALSE
          /\ UNCHANGED <<system, host, gate, backend, monitor, marker, paused, owed, missed, budget>>

BackendDies ==
    /\ backend # "none" /\ Spend("faults")
    /\ backend' = "none" /\ exits' = (host # "gone" /\ Owned)
    /\ UNCHANGED <<system, host, gate, monitor, marker, paused, owed, missed>>

\* Killed; its backend ends later.
Crash ==
    /\ host # "gone" /\ Spend("faults")
    /\ host' = "gone" /\ gate' = "inactive" /\ exits' = FALSE
    /\ backend' = IF Owned THEN "revoked" ELSE backend
    /\ UNCHANGED <<system, monitor, marker, paused, owed, missed>>

OrphanEnds ==
    /\ host = "gone" /\ backend # "none" /\ backend' = "none"
    /\ UNCHANGED <<system, exits, host, gate, monitor, marker, paused, owed, missed, budget>>

MonitorGetsReady ==
    /\ monitor = "starting" /\ monitor' = "ready" /\ owed' = FALSE
    /\ UNCHANGED <<outside, host, gate, marker, paused, missed, budget>>

DyingEnds ==
    /\ monitor = "dying" /\ monitor' = "off"
    /\ UNCHANGED <<outside, host, gate, marker, paused, owed, missed, budget>>

MonitorDies ==
    /\ Running /\ Spend("faults") /\ monitor' = "off"
    /\ UNCHANGED <<outside, host, gate, marker, paused, owed, missed>>

\* The buttons of the page: what a person does with the monitor is not owed any more.
PressStart ==
    /\ host # "gone" /\ backend # "none" /\ monitor = "off" /\ Spend("user")
    /\ monitor' = "ready" /\ owed' = FALSE /\ missed' = FALSE
    /\ UNCHANGED <<outside, host, gate, marker, paused>>

PressStop ==
    /\ host # "gone" /\ backend # "none" /\ Spend("user")
    /\ monitor' = "off" /\ owed' = FALSE /\ missed' = FALSE
    /\ UNCHANGED <<outside, host, gate, marker, paused>>

-----------------------------------------------------------------------------
HostStep ==
    \/ LoadMarker \/ Look \/ StartMonitor \/ Recheck \/ ClearMarker \/ RestoreLosesBackend
    \/ Commit \/ Verify \/ PauseLoad \/ PauseLook \/ Publish \/ StopMonitor \/ PauseCheck
    \/ PauseLosesBackend \/ Install \/ Relaunch \/ Restart \/ WatcherExits

Environment ==
    \/ RestoreFails \/ Reserve \/ LoseCommit \/ PauseFails \/ InstallFails
    \/ Launch \/ Quit \/ BackendDies \/ Crash \/ OrphanEnds
    \/ MonitorGetsReady \/ DyingEnds \/ MonitorDies \/ PressStart \/ PressStop

Next == HostStep \/ Environment

\* Threads run and processes get ready or end; whoever finds the application gone or its
\* updates failed ends what is left of it and starts it again.
Fair(step) ==
    \/ step = 1 /\ HostStep
    \/ step = 2 /\ MonitorGetsReady
    \/ step = 3 /\ DyingEnds
    \/ step = 4 /\ gate \in {"failed", "lost"} /\ Quit
    \/ step = 5 /\ OrphanEnds
    \/ step = 6 /\ Launch

Spec == Init /\ [][Next]_vars /\ \A step \in 1..6 : WF_vars(Fair(step))

\* What the host and the processes do by themselves.
HostSpec == Init /\ [][Next]_vars /\ WF_vars(HostStep)

-----------------------------------------------------------------------------
TypeOK ==
    /\ host \in Restoring \union Pausing \union {"gone", "idle", "verify", "install", "relaunch"}
    /\ gate \in {"inactive", "activating", "ready", "reserved", "executing", "prepared",
                 "failed", "lost"}
    /\ backend \in {"none", "owned", "revoked"}
    /\ monitor \in {"off", "starting", "ready", "dying"}
    /\ {marker, paused, owed, missed, exits} \subseteq BOOLEAN
    /\ \A k \in DOMAIN Bounds : budget[k] \in 0..Bounds[k]

\* A monitor that an update took is marked on disk until it runs again, whatever fails
\* and whoever dies; except for one that was found in its last sync (monitor_recovery.rs
\* 303-369).
PausedIsMarked == [](owed => marker \/ missed)

\* ... and it does run again, or a person takes it over.
OwedReturns == owed ~> (~owed \/ missed)

\* A host whose backend has ended ends too (backend.rs 1248-1255).
HostFollowsBackend == (host # "gone" /\ backend = "none") ~> (host = "gone" \/ backend # "none")
=============================================================================
