------------------------- MODULE MCMonitorLifecycle -------------------------
(* Instances of MonitorLifecycle for TLC.                                  *)
EXTENDS MonitorLifecycle, TLC

(* Pids and controllers are interchangeable.  Not for liveness runs.       *)
Symmetry == Permutations(Daemons) \cup Permutations(Controllers)

-----------------------------------------------------------------------------
(***************************************************************************)
(* The smaller instance for liveness, where nothing may be abstracted by   *)
(* symmetry: FairSpec, with three bounds on what nobody is obliged to do.  *)
(* A start is called while no other is and no daemon is still in front of  *)
(* its scans, next to any number of stops; one pid may name another        *)
(* process; and once it does there is one call at a time.  The steps that  *)
(* are fair are all there.                                                 *)
(***************************************************************************)
Quiet ==
  /\ \A c \in Controllers : op[c] # "start"
  /\ \A d \in alive : at[d] \in Handled

Alone(c) == \A e \in Controllers \ {c} : at[e] = "idle"

OneDaemon == CHOOSE d \in Daemons : TRUE

LiveNext ==
  \/ \E d \in Daemons : DaemonStep(d)
  \/ \E d \in {OneDaemon} : ReusePid(d)
  \/ \E c \in Controllers :
       \/ ControllerStep(c)
       \/ Quiet /\ (reused # {} => Alone(c)) /\ StartCall(c)
       \/ (reused # {} => Alone(c)) /\ StopCall(c)

LiveSpec ==
  /\ Init /\ [][LiveNext]_vars
  /\ \A d \in Daemons : WF_vars(DaemonStep(d))
  /\ \A c \in Controllers : WF_vars(ControllerStep(c))
=============================================================================
