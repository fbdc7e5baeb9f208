------------------------------ MODULE Application ------------------------------
(***************************************************************************)
(* The life of the application around its work: the end of its server      *)
(* (ServerShutdown), the updates it is told of (Updates) and their         *)
(* installation by the desktop host (MonitorRecovery).  They act at        *)
(* different times on state of their own.                                  *)
(***************************************************************************)
CONSTANTS Absent,                                           \* None of all of them
          Folders, Streams, MaxCalls, MaxAsks, EndFaults,   \* of the end
          Versions, TooNew, Callers, MaxFeeds,              \* of the updates
          Systems, MaxUpdates, MaxUser, MaxFaults           \* of their installation

ASSUME AbsentAssumption == Absent \notin {"mine", "new"}   \* no pid

VARIABLES folder, monitored, call, calls, left, asks, flag, behavior, snap, recorded,
          step, states, pidFile, seen, late, streams,
          hosted, product, served, untagged, cache, shown, gate, lock, hostLock, caller,
          forced, got, odd, approval, candidate, installed, body, checks, feeds,
          system, host, runtime, backend, monitor, marker, paused, owed, missed, exits, spent

endVars == <<folder, monitored, call, calls, left, asks, flag, behavior, snap, recorded,
             step, states, pidFile, seen, late, streams>>
updateVars == <<hosted, product, served, untagged, cache, shown, gate, lock, hostLock, caller,
                forced, got, odd, approval, candidate, installed, body, checks, feeds>>
recoveryVars == <<system, host, runtime, backend, monitor, marker, paused, owed, missed, exits,
                  spent>>

End == INSTANCE ServerShutdown WITH None <- Absent, Faults <- EndFaults

Update == INSTANCE Updates
            WITH None <- Absent, pc <- caller, changes <- feeds, asks <- checks,
                 MaxChanges <- MaxFeeds

Recovery == INSTANCE MonitorRecovery WITH gate <- runtime, budget <- spent

\* Monitors go with the folder and with a server that ends with its monitor, but for
\* those a failed stop or a late start has left; the state file says so (ServerShutdown).
MonitorsFollow == End!MonitorsFollow

\* A monitor an update took is marked until it runs again or a person takes it over, and
\* one of them happens; but for one that was found in its last sync (MonitorRecovery).
OwedReturns == []Recovery!TypeOK /\ Recovery!PausedIsMarked /\ Recovery!OwedReturns

\* An accepted shutdown ends the process, though pages follow the events for ever.
AcceptedEnds == End!AcceptedEnds

\* The pid file of the server that ended is gone and that of a successor stays, but for the
\* window between look and removal and a second request (ServerShutdown).
PidFileTold == End!PidFileTold

\* The host installs what the last check has accepted, and a check that fails keeps
\* the last good feed (Updates).
FeedInstalled == Update!FeedInstalled

\* What a check says is of the feed that was served, and it says so in the end (Updates).
ChecksTold == Update!ChecksTold
=============================================================================
