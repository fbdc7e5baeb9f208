--------------------------- MODULE BackgroundSync ---------------------------
(***************************************************************************)
(* The first synchronisation of a folder (services/app_state.py): a worker *)
(* thread spawns a child process, waits for its result and publishes it,   *)
(* unless somebody has switched to another folder meanwhile; then the child*)
(* is retired by threads nobody waits for.  What a switch does to the      *)
(* monitor of the old folder is in ServerShutdown.                         *)
(***************************************************************************)
EXTENDS Naturals, FiniteSets

CONSTANTS Profiles,
          None,
          MaxGen,   \* bound: startups and switches
          Faults    \* of "late" (deadlines pass), "stubborn" (a child outlives its kill),
                    \* "spawn" (no child can be started), "crash" (of a child)

Gens == 1..MaxGen

\* Results and exit codes are no "nothing yet".
ASSUME BackgroundAssumption ==
    /\ MaxGen \in Nat
    /\ None \notin {"ok", "failed", "good", "bad"}

VARIABLES active, gen, status,
          current,     \* generation of the child others may retire, 0 for none
          retiring,    \* children that outlived a retirement
          pc, captured, \* of the worker of each generation, and the folder it captured
          result,      \* what it will publish
          abandon,     \* workers whose child outlived its kill
          child, outcome, code, told, \* of the child of each generation
          retirer, failing \* threads that stop a child, that could not

worker == <<pc, captured, result, abandon>>
children == <<child, outcome, code, told>>
threads == <<retirer, failing>>
vars == <<active, gen, status, current, retiring, worker, children, threads>>

Init ==
    /\ active \in Profiles /\ gen = 0 /\ status = "initializing"
    /\ current = 0 /\ retiring = {}
    /\ pc = [g \in Gens |-> "none"] /\ captured = [g \in Gens |-> None]
    /\ result = [g \in Gens |-> None] /\ abandon = {}
    /\ child = [g \in Gens |-> "none"] /\ outcome = [g \in Gens |-> None]
    /\ code = [g \in Gens |-> None] /\ told = {}
    /\ retirer = [g \in Gens |-> 0] /\ failing = [g \in Gens |-> 0]

Alive(g) == child[g] \in {"syncing", "sent"}

-----------------------------------------------------------------------------
(* A new generation.                                                       *)

\* Mutant: a generation is told by its folder alone.
Matches_Profile(g) == captured[g] = active

\* Is the work of generation g still that of the application?
Matches(g) == g = gen /\ captured[g] = active

\* run_background_diagnostics, under the lock: the child of before and those that outlived
\* an earlier retirement each get a thread that stops them.
Superseded == (IF current = 0 THEN {} ELSE {current}) \union retiring

NewGeneration(p) ==
    /\ gen < MaxGen
    /\ active' = p
    /\ gen' = gen + 1
    /\ status' = "running"
    /\ current' = 0
    /\ pc' = [pc EXCEPT ![gen'] = "check"]
    /\ captured' = [captured EXCEPT ![gen'] = p]
    /\ retirer' = [g \in Gens |-> retirer[g] + (IF g \in Superseded THEN 1 ELSE 0)]
    /\ UNCHANGED <<retiring, result, abandon, children, failing>>

Startup == gen = 0 /\ NewGeneration(active)

UpdateSettings(p) == gen > 0 /\ NewGeneration(p)

-----------------------------------------------------------------------------
(* The worker of generation g.                                             *)

Go(g, to) == pc' = [pc EXCEPT ![g] = to]
Fails(g, to) == Go(g, to) /\ result' = [result EXCEPT ![g] = "failed"]

Check(g) ==
    /\ pc[g] = "check"
    /\ IF Matches(g) THEN Go(g, "spawn") /\ UNCHANGED result ELSE Fails(g, "publish")
    /\ UNCHANGED <<active, gen, status, current, retiring, captured, abandon, children, threads>>

Spawn(g) ==
    /\ pc[g] = "spawn"
    /\ \/ Go(g, "register") /\ child' = [child EXCEPT ![g] = "syncing"] /\ UNCHANGED result
       \/ "spawn" \in Faults /\ Fails(g, "publish") /\ UNCHANGED child
    /\ UNCHANGED <<active, gen, status, current, retiring, captured, abandon, outcome, code, told,
                   threads>>

\* A child that is already superseded is retired at once.
Register(g) ==
    /\ pc[g] = "register"
    /\ \/ /\ Matches(g)
          /\ current' = g
          /\ Go(g, "wait")
          /\ UNCHANGED <<result, retirer>>
       \/ /\ ~Matches(g)
          /\ retirer' = [retirer EXCEPT ![g] = @ + 1]
          /\ Fails(g, "settle")
          /\ UNCHANGED current
    /\ UNCHANGED <<active, gen, status, retiring, captured, abandon, children, failing>>

Poll(g) ==
    /\ pc[g] = "wait"
    /\ \/ outcome[g] # None /\ Go(g, "join") /\ result' = [result EXCEPT ![g] = outcome[g]]
       \/ outcome[g] = None /\ ~Alive(g) /\ Fails(g, "settle")
       \/ outcome[g] = None /\ Alive(g) /\ Go(g, "polled") /\ UNCHANGED result
    /\ UNCHANGED <<active, gen, status, current, retiring, captured, abandon, children, threads>>

\* After a poll that found nothing; a result sent since is not looked for again.
CheckAlive(g) ==
    /\ pc[g] = "polled"
    /\ IF Alive(g) THEN Go(g, "wait") /\ UNCHANGED result ELSE Fails(g, "settle")
    /\ UNCHANGED <<active, gen, status, current, retiring, captured, abandon, children, threads>>

Tell(g) == told' = IF Alive(g) THEN told \union {g} ELSE told

Overdue(g) ==
    /\ "late" \in Faults
    /\ pc[g] = "wait"
    /\ Fails(g, "stop") /\ Tell(g)
    /\ UNCHANGED <<active, gen, status, current, retiring, captured, abandon, child, outcome, code,
                   threads>>

\* The result counts only if the child then exits well.
Join(g) ==
    /\ pc[g] = "join"
    /\ \/ /\ ~Alive(g)
          /\ IF code[g] = "bad" THEN Fails(g, "settle") ELSE Go(g, "settle") /\ UNCHANGED result
          /\ UNCHANGED told
       \/ "late" \in Faults /\ Alive(g) /\ Go(g, "stop") /\ Tell(g) /\ UNCHANGED result
    /\ UNCHANGED <<active, gen, status, current, retiring, captured, abandon, child, outcome, code,
                   threads>>

Stopped(g) ==
    /\ pc[g] = "stop"
    /\ \/ /\ ~Alive(g)
          /\ IF code[g] = "bad" THEN Fails(g, "settle") ELSE Go(g, "settle") /\ UNCHANGED result
          /\ UNCHANGED abandon
       \/ "stubborn" \in Faults /\ Alive(g) /\ Fails(g, "settle") /\ abandon' = abandon \union {g}
    /\ UNCHANGED <<active, gen, status, current, retiring, captured, children, threads>>

Settle(g) ==
    /\ pc[g] = "settle"
    /\ current' = IF current = g /\ ~Alive(g) THEN 0 ELSE current
    /\ Go(g, IF g \in abandon THEN "release" ELSE "publish")
    /\ UNCHANGED <<active, gen, status, retiring, captured, result, abandon, children, threads>>

Release(g) ==
    /\ pc[g] = "release"
    /\ current' = IF current = g THEN 0 ELSE current
    /\ Go(g, "remember")
    /\ UNCHANGED <<active, gen, status, retiring, captured, result, abandon, children, threads>>

Remembered(g) == retiring \union {g}

\* The worker leaves the child to a thread, and the status as it is.
Remember(g) ==
    /\ pc[g] = "remember"
    /\ retiring' = Remembered(g)
    /\ retirer' = [retirer EXCEPT ![g] = @ + 1]
    /\ Go(g, "done")
    /\ UNCHANGED <<active, gen, status, current, captured, result, abandon, children, failing>>

\* Mutant: only a worker whose child succeeded publishes.
Publish_OnSuccess(g) ==
    /\ pc[g] = "publish"
    /\ status' = IF Matches(g) /\ result[g] = "ok" THEN "ready" ELSE status
    /\ Go(g, "done")
    /\ UNCHANGED <<active, gen, current, retiring, captured, result, abandon, children, threads>>

Publish(g) ==
    /\ pc[g] = "publish"
    /\ status' = IF ~Matches(g) THEN status ELSE IF result[g] = "ok" THEN "ready" ELSE "failed"
    /\ Go(g, "done")
    /\ UNCHANGED <<active, gen, current, retiring, captured, result, abandon, children, threads>>

-----------------------------------------------------------------------------
(* The threads that retire a child, and the child.                         *)

RetireTells(g) ==
    /\ retirer[g] > 0 /\ Alive(g) /\ g \notin told
    /\ Tell(g)
    /\ UNCHANGED <<active, gen, status, current, retiring, worker, child, outcome, code, threads>>

RetireEnds(g) ==
    /\ retirer[g] > 0 /\ ~Alive(g)
    /\ retirer' = [retirer EXCEPT ![g] = @ - 1]
    /\ retiring' = retiring \ {g}
    /\ UNCHANGED <<active, gen, status, current, worker, children, failing>>

RetireFails(g) ==
    /\ "stubborn" \in Faults
    /\ retirer[g] > 0 /\ Alive(g) /\ g \in told
    /\ retirer' = [retirer EXCEPT ![g] = @ - 1]
    /\ failing' = [failing EXCEPT ![g] = @ + 1]
    /\ UNCHANGED <<active, gen, status, current, retiring, worker, children>>

RetireRemembers(g) ==
    /\ failing[g] > 0
    /\ failing' = [failing EXCEPT ![g] = @ - 1]
    /\ retiring' = Remembered(g)
    /\ UNCHANGED <<active, gen, status, current, worker, children, retirer>>

ChildEnds(g, how) ==
    /\ child' = [child EXCEPT ![g] = "dead"]
    /\ code' = [code EXCEPT ![g] = how]

\* run_sync ends, well or not, and its result goes into the pipe.
ChildSends(g, o) ==
    /\ child[g] = "syncing"
    /\ outcome' = [outcome EXCEPT ![g] = o]
    /\ child' = [child EXCEPT ![g] = "sent"]
    /\ UNCHANGED <<active, gen, status, current, retiring, worker, code, told, threads>>

ChildExits(g) ==
    /\ child[g] = "sent" /\ ChildEnds(g, "good")
    /\ UNCHANGED <<active, gen, status, current, retiring, worker, outcome, told, threads>>

ChildKilled(g) ==
    /\ Alive(g) /\ ChildEnds(g, "bad")
    /\ g \in told \/ "crash" \in Faults
    /\ UNCHANGED <<active, gen, status, current, retiring, worker, outcome, told, threads>>

-----------------------------------------------------------------------------
WorkerStep(g) ==
    Check(g) \/ Spawn(g) \/ Register(g) \/ Poll(g) \/ CheckAlive(g) \/ Overdue(g) \/ Join(g)
    \/ Stopped(g) \/ Settle(g) \/ Release(g) \/ Remember(g) \/ Publish(g)
RetireStep(g) == RetireTells(g) \/ RetireEnds(g) \/ RetireFails(g) \/ RetireRemembers(g)
ChildStep(g) == ChildSends(g, "ok") \/ ChildSends(g, "failed") \/ ChildExits(g) \/ ChildKilled(g)

Next ==
    \/ Startup
    \/ \E p \in Profiles : UpdateSettings(p)
    \/ \E g \in Gens : WorkerStep(g) \/ RetireStep(g) \/ ChildStep(g)

\* The threads run, a deadline that is due is noticed, a child that was told to end ends.
\* Nobody has to press a button, and a child may hang in its synchronisation.
Spec ==
    /\ Init /\ [][Next]_vars
    /\ \A g \in Gens : /\ WF_vars(WorkerStep(g)) /\ SF_vars(Overdue(g))
                       /\ WF_vars(RetireStep(g))
                       /\ WF_vars(g \in told /\ ChildKilled(g)) /\ WF_vars(ChildExits(g))

-----------------------------------------------------------------------------
(* Properties.                                                             *)

Places == {"none", "check", "spawn", "register", "wait", "polled", "join", "stop", "settle",
           "release", "remember", "publish", "done"}

\* Generations, threads and children keep their types; a generation that is to come has
\* neither, and the child others may retire is one somebody spawned.
TypeOK ==
    /\ active \in Profiles /\ gen \in 0..MaxGen
    /\ status \in {"initializing", "running", "ready", "failed"}
    /\ current \in 0..gen /\ retiring \subseteq 1..gen /\ told \subseteq 1..gen
    /\ \A g \in Gens :
          /\ pc[g] \in Places /\ result[g] \in {None, "ok", "failed"}
          /\ child[g] \in {"none", "syncing", "sent", "dead"}
          /\ (child[g] = "dead") = (code[g] \in {"good", "bad"})
          /\ retirer[g] \in 0..(2 * MaxGen) /\ failing[g] \in 0..(2 * MaxGen)
          /\ g > gen => pc[g] = "none" /\ child[g] = "none"

\* The application says ready only when the child of its present generation has
\* synchronised its present folder, whichever workers and children are still about.
ReadyIsTrue == status = "ready" => captured[gen] = active /\ outcome[gen] = "ok"

\* Every living child is in the hands of somebody who will stop it or wait for it: its
\* worker, a thread, the next generation.
NoOrphan ==
    \A g \in Gens :
        Alive(g) => \/ g = current \/ g \in retiring
                    \/ retirer[g] > 0 \/ failing[g] > 0
                    \/ pc[g] \notin {"none", "done"}

\* "Ready" is of the present folder, and no child is left to itself.
ReadyAndHeld == TypeOK /\ ReadyIsTrue /\ NoOrphan

\* Whatever the child does, hanging included, the application comes out of "running", but
\* for a child that outlived its kill: then the worker leaves the status as it is.
Settles == (status = "running") ~> (status # "running" \/ gen \in abandon)

\* The child of an older generation ends.
ObsoleteEnds == \A g \in Gens : (Alive(g) /\ g < gen) ~> ~Alive(g)
=============================================================================
