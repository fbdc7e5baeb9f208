--------------------------- MODULE ServerShutdown ---------------------------
(***************************************************************************)
(* The local server as its owner sees it (services/app_state.py,           *)
(* api/app.py): the folder it serves, the monitor of each folder, the      *)
(* buttons that switch, start and stop, the request to shut down and the   *)
(* end of the process, with the event streams that must let it go and the  *)
(* pid file a successor may already have written.                          *)
(*                                                                         *)
(* Settings and shutdown requests run one at a time on the event loop; the *)
(* monitor buttons run in threads of their own.                            *)
(***************************************************************************)
EXTENDS Naturals, FiniteSets

CONSTANTS Folders, None,
          MaxCalls,   \* bound: starts and stops by the page
          MaxAsks,    \* bound: shutdown requests and switches
          Streams,    \* pages that follow the events
          Faults      \* of "stop" (a monitor stays), "write" (of the state), "event" (of the log)

VARIABLES folder, monitored,
          call, calls,    \* a start or stop by a thread
          left,           \* folders whose monitor a failed stop or a late start left
          asks,
          flag, behavior, snap, recorded,   \* what a shutdown request sets
          step,           \* of the request and of the end
          states,         \* [status, stale] of the state file
          pidFile, seen, late,   \* the pid file, what the end read of it, written since
          streams

request == <<flag, behavior, snap, recorded, step>>
buttons == <<call, calls>>
pid == <<pidFile, seen, late>>
vars == <<folder, monitored, buttons, left, asks, request, states, pid, streams>>

Init ==
    /\ folder \in Folders /\ monitored = {}
    /\ call = None /\ calls = 0 /\ left = {} /\ asks = 0
    /\ flag = FALSE /\ behavior = None /\ snap = None /\ recorded = FALSE
    /\ step = "serving"
    /\ states = [status |-> "ready", stale |-> FALSE]
    /\ pidFile \in {"mine", None} /\ seen = None /\ late = FALSE
    /\ streams = {}

Up == step # "gone"
Answering == step \in {"serving", "accepted"}

-----------------------------------------------------------------------------
(* The monitor buttons: the folder is read first, without a lock.          *)

Call(op) ==
    /\ Up /\ call = None /\ calls < MaxCalls
    /\ call' = [op |-> op, folder |-> folder]
    /\ calls' = calls + 1
    /\ UNCHANGED <<folder, monitored, left, asks, request, states, pid, streams>>

\* Late, when the folder was left or a shutdown has found no monitor meanwhile.
BridgeStart ==
    /\ Up /\ call # None /\ call.op = "start"
    /\ monitored' = monitored \union {call.folder}
    /\ left' = IF call.folder = folder /\ ~flag THEN left ELSE left \union {call.folder}
    /\ call' = None
    /\ UNCHANGED <<folder, calls, asks, request, states, pid, streams>>

BridgeStop ==
    /\ Up /\ call # None /\ call.op = "stop"
    /\ \/ monitored' = monitored \ {call.folder}
       \/ "stop" \in Faults /\ UNCHANGED monitored
    /\ call' = None
    /\ UNCHANGED <<folder, left, calls, asks, request, states, pid, streams>>

\* update_settings: the answer of the old monitor's stop is ignored.
UpdateSettings(f) ==
    /\ Answering /\ asks < MaxAsks
    /\ folder' = f
    /\ \/ monitored' = monitored \ {folder} /\ left' = left \ {folder}
       \/ /\ "stop" \in Faults /\ folder \in monitored
          /\ left' = left \union {folder} /\ UNCHANGED monitored
    /\ asks' = asks + 1
    /\ UNCHANGED <<buttons, request, states, pid, streams>>

-----------------------------------------------------------------------------
(* request_server_shutdown.                                                *)

StateWritten(how) == states' = [status |-> how, stale |-> FALSE]

\* A request while one is accepted changes nothing.
Request(b) ==
    /\ step = "serving" /\ asks < MaxAsks
    /\ asks' = asks + 1
    /\ flag' = TRUE /\ behavior' = b /\ snap' = pidFile
    /\ step' = "asked"
    /\ UNCHANGED <<folder, monitored, buttons, left, recorded, states, pid, streams>>

Reset ==
    /\ flag' = FALSE /\ behavior' = None /\ snap' = None /\ recorded' = FALSE
    /\ step' = "serving"

\* Mutant: a stop that failed is taken for one that worked.
StopMonitor_Unchecked ==
    /\ step = "asked"
    /\ \/ monitored' = IF behavior = "stop" THEN monitored \ {folder} ELSE monitored
       \/ "stop" \in Faults /\ behavior = "stop" /\ UNCHANGED monitored
    /\ recorded' = (folder \in monitored')
    /\ left' = left \ (monitored \ monitored')
    /\ step' = "checked"
    /\ UNCHANGED <<folder, buttons, asks, flag, behavior, snap, states, pid, streams>>

\* With stop_monitor the monitor must be seen to have stopped.
StopMonitor ==
    /\ step = "asked"
    /\ \/ /\ monitored' = IF behavior = "stop" THEN monitored \ {folder} ELSE monitored
          /\ recorded' = (folder \in monitored')
          /\ left' = left \ (monitored \ monitored')
          /\ step' = "checked"
          /\ UNCHANGED <<flag, behavior, snap>>
       \/ /\ "stop" \in Faults /\ behavior = "stop" /\ folder \in monitored
          /\ Reset
          /\ UNCHANGED <<monitored, left>>
    /\ UNCHANGED <<folder, buttons, asks, states, pid, streams>>

WriteState ==
    /\ step = "checked"
    /\ \/ StateWritten("stopping") /\ step' = "written" /\ UNCHANGED <<flag, behavior, snap, recorded>>
       \/ "write" \in Faults /\ Reset /\ UNCHANGED states
    /\ UNCHANGED <<folder, monitored, buttons, left, asks, pid, streams>>

\* The response goes out and a timer is set; when the log fails the request has failed,
\* and the state file says stopping of a server that goes on.
Respond ==
    /\ step = "written"
    /\ \/ step' = "accepted" /\ UNCHANGED <<flag, behavior, snap, recorded, states>>
       \/ /\ "event" \in Faults
          /\ Reset
          /\ states' = [status |-> states.status, stale |-> TRUE]
    /\ UNCHANGED <<folder, monitored, buttons, left, asks, pid, streams>>

-----------------------------------------------------------------------------
(* finalize_server_shutdown, 0.8 s later, and the end of the process.      *)

Finalize ==
    /\ step = "accepted"
    /\ \/ StateWritten("stopped") /\ step' = "stopped"
       \/ "write" \in Faults /\ step' = "terminating" /\ UNCHANGED states
    /\ UNCHANGED <<folder, monitored, buttons, left, asks, flag, behavior, snap, recorded, pid, streams>>

ReadPid ==
    /\ step = "stopped"
    /\ seen' = pidFile /\ late' = FALSE
    /\ step' = "read"
    /\ UNCHANGED <<folder, monitored, buttons, left, asks, flag, behavior, snap, recorded, states,
                   pidFile, streams>>

\* Mutant: a pid that was there when the shutdown was asked for is taken for the present one.
MayUnlink_Unread == snap # None

MayUnlink == snap # None /\ seen = snap

UnlinkPid ==
    /\ step = "read"
    /\ pidFile' = IF MayUnlink THEN None ELSE pidFile
    /\ step' = "terminating"
    /\ UNCHANGED <<folder, monitored, buttons, left, asks, flag, behavior, snap, recorded, states,
                   seen, late, streams>>

\* The server takes no more connections and waits for those it has.
Exit ==
    /\ step = "terminating" /\ streams = {}
    /\ step' = "gone"
    /\ UNCHANGED <<folder, monitored, buttons, left, asks, flag, behavior, snap, recorded, states,
                   pid, streams>>

-----------------------------------------------------------------------------
(* Pages and a successor.                                                  *)

Follow(s) ==
    /\ Answering /\ s \notin streams
    /\ streams' = streams \union {s}
    /\ UNCHANGED <<folder, monitored, buttons, left, asks, request, states, pid>>

\* Mutant: a stream ends only with the process.
StreamEnds_Gone(s) ==
    /\ s \in streams /\ step = "gone"
    /\ streams' = streams \ {s}
    /\ UNCHANGED <<folder, monitored, buttons, left, asks, request, states, pid>>

\* A stream ends when its page goes away, and when the shutdown is asked for.
StreamEnds(s) ==
    /\ s \in streams /\ flag /\ step \notin {"asked", "checked", "written"}
    /\ streams' = streams \ {s}
    /\ UNCHANGED <<folder, monitored, buttons, left, asks, request, states, pid>>

PageLeaves(s) ==
    /\ s \in streams
    /\ streams' = streams \ {s}
    /\ UNCHANGED <<folder, monitored, buttons, left, asks, request, states, pid>>

\* A launcher writes the pid of a new server while this one is ending.
SuccessorPid ==
    /\ flag /\ pidFile # "new"
    /\ pidFile' = "new" /\ late' = TRUE
    /\ UNCHANGED <<folder, monitored, buttons, left, asks, request, states, seen, streams>>

-----------------------------------------------------------------------------
Ending == StopMonitor \/ WriteState \/ Respond \/ Finalize \/ ReadPid \/ UnlinkPid \/ Exit

Next ==
    \/ \E op \in {"start", "stop"} : Call(op)
    \/ BridgeStart \/ BridgeStop
    \/ \E f \in Folders : UpdateSettings(f)
    \/ \E b \in {"keep", "stop"} : Request(b)
    \/ Ending
    \/ \E s \in Streams : Follow(s) \/ StreamEnds(s) \/ PageLeaves(s)
    \/ SuccessorPid

\* The event loop and the timer run; pages may stay for ever.
Spec ==
    /\ Init /\ [][Next]_vars /\ WF_vars(Ending)
    /\ \A s \in Streams : WF_vars(StreamEnds(s))

-----------------------------------------------------------------------------
(* Properties.                                                             *)

\* Folder, request and files keep their types.
TypeOK ==
    /\ folder \in Folders /\ monitored \subseteq Folders /\ left \subseteq Folders
    /\ step \in {"serving", "asked", "checked", "written", "accepted", "stopped", "read",
                  "terminating", "gone"}
    /\ flag = (step # "serving")
    /\ behavior \in {None, "keep", "stop"} /\ snap \in {None, "mine", "new"}
    /\ pidFile \in {None, "mine", "new"} /\ streams \subseteq Streams

\* A monitor of a folder that is not the active one was left there by a stop that failed,
\* whose answer update_settings ignores, or by a start that had read the folder before.
OnlyOfTheFolder == monitored \ {folder} \subseteq left

\* A server that accepted to stop with its monitor leaves none behind, but for monitors left
\* before and starts that ran after its check.
StopsTheMonitor ==
    (behavior = "stop" /\ step \notin {"serving", "asked"}) => monitored \subseteq left

\* The state file says stopping or stopped only of a server that is, but after a request
\* that failed when the log did.
StateTold ==
    /\ (states.status # "ready" /\ ~states.stale) => flag
    /\ step = "gone" => states.status \in {"stopping", "stopped"}

\* An accepted shutdown ends the process, though pages follow the events for ever.
AcceptedEnds == step = "accepted" ~> step = "gone"

\* The pid file of a server that said it stopped is gone; that of a successor stays, but
\* for one written between the look at the file and its removal, or before this server
\* was asked once more after a request that failed.
PidFileTold ==
    /\ [](step = "gone" /\ states.status = "stopped" => pidFile # "mine")
    /\ [][pidFile = "new" /\ pidFile' # "new" => late \/ snap = "new"]_vars

\* Monitors go with the folder and with a server that ends with its monitor, but for
\* those a failed stop or a late start has left; the state file says so.
MonitorsFollow == TypeOK /\ OnlyOfTheFolder /\ StopsTheMonitor /\ StateTold
=============================================================================
