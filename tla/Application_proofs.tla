-------------------------- MODULE Application_proofs --------------------------
(***************************************************************************)
(* Proofs about the life of the application: its first synchronisation of  *)
(* a folder (BackgroundSync), for any number of generations and any        *)
(* faults, the end of the local server (ServerShutdown), for any folders,  *)
(* pages, calls and failures, the updates it is told of (Updates) and      *)
(* their installation by the desktop host (MonitorRecovery).               *)
(***************************************************************************)
EXTENDS BackgroundSync, Application, TLAPS

-----------------------------------------------------------------------------
(* The first synchronisation (BackgroundSync): whatever child hangs,       *)
(* crashes or outlives its kill, and however often the folder is switched  *)
(* meanwhile.  The inductive invariant comes first.                        *)

Results == {None, "ok", "failed"}

\* The variables and functions have their types.
SyncTyped ==
    /\ active \in Profiles /\ gen \in 0..MaxGen
    /\ status \in {"initializing", "running", "ready", "failed"}
    /\ current \in 0..gen /\ retiring \subseteq 1..gen /\ told \subseteq 1..gen
    /\ abandon \subseteq Gens
    /\ pc \in [Gens -> Places] /\ captured \in [Gens -> Profiles \union {None}]
    /\ result \in [Gens -> Results] /\ outcome \in [Gens -> Results]
    /\ child \in [Gens -> {"none", "syncing", "sent", "dead"}]
    /\ code \in [Gens -> {None, "good", "bad"}]
    /\ retirer \in [Gens -> Nat] /\ failing \in [Gens -> Nat]

\* A generation that is to come has nothing, one whose worker has not spawned no child.
Begun ==
    /\ gen = 0 => status = "initializing"
    /\ \A g \in Gens :
          /\ g > gen => pc[g] = "none" /\ retirer[g] = 0 /\ failing[g] = 0
          /\ pc[g] \in {"none", "check", "spawn"} => child[g] = "none"

\* A child sends one result, and exits once; a worker has no other success than its child's.
Honest ==
    \A g \in Gens :
       /\ child[g] \in {"none", "syncing"} => outcome[g] = None
       /\ (child[g] = "dead") = (code[g] \in {"good", "bad"})
       /\ result[g] = "ok" => outcome[g] = "ok"

\* The handings over of a child to a thread: by its worker when it registers, by its worker
\* when it leaves, and by each generation that follows.
Handed(g) == IF pc[g] \in {"none", "check", "spawn", "register"} THEN 0
             ELSE IF pc[g] # "done" THEN 1 ELSE 2

Followers(g) == IF g < gen THEN gen - g ELSE 0

Counted == \A g \in Gens : retirer[g] + failing[g] <= Followers(g) + Handed(g)

\* The worker has done with its child.
Left(g) == pc[g] \in {"publish", "done"} \/ (pc[g] = "settle" /\ g \notin abandon)

\* Threads, or the list of the next generation, have it.
ChildHeld(g) == g \in retiring \/ retirer[g] > 0 \/ failing[g] > 0

\* A worker leaves no living child but to them, and they only leave a dead one.
HandedOver == \A g \in Gens : Alive(g) /\ Left(g) => ChildHeld(g)

Inv == SyncTyped /\ Begun /\ Honest /\ Counted /\ HandedOver /\ ReadyIsTrue

\* Within a generation, a thread more is a step of the worker.
LEMMA Recount ==
  ASSUME SyncTyped, Counted, NEW g \in Gens, UNCHANGED gen,
         \A a \in Gens \ {g} : UNCHANGED <<pc[a], retirer[a], failing[a]>>,
         retirer'[g] + failing'[g] \in Nat,
         retirer'[g] + failing'[g] + Handed(g) <= retirer[g] + failing[g] + Handed(g)'
  PROVE  Counted'
<1> SUFFICES ASSUME NEW a \in Gens
             PROVE  retirer'[a] + failing'[a] <= Followers(a)' + Handed(a)'
  BY DEF Counted
<1>1. retirer[a] + failing[a] <= Followers(a) + Handed(a)
  BY DEF Counted
<1>2. Followers(a)' = Followers(a) /\ Followers(a) \in Nat
  BY BackgroundAssumption DEF Followers, SyncTyped, Gens
<1>3. Handed(a) \in Nat /\ Handed(a)' \in Nat
  BY DEF Handed
<1>4. retirer[a] \in Nat /\ failing[a] \in Nat
  BY DEF SyncTyped
<1>5. CASE a = g
  BY <1>1, <1>2, <1>3, <1>4, <1>5
<1>6. CASE a # g
  <2>1. Handed(a)' = Handed(a)
    BY <1>6 DEF Handed
  <2> QED
    BY <1>1, <1>2, <1>6, <2>1
<1> QED
  BY <1>5, <1>6

\* The steps there are.
LEMMA NextParts ==
  ASSUME Inv, [Next]_vars
  PROVE  \/ \E g \in Gens : \/ Check(g) \/ Spawn(g) \/ Register(g) \/ Poll(g) \/ CheckAlive(g)
                          \/ Overdue(g) \/ Join(g) \/ Stopped(g) \/ Settle(g) \/ Release(g)
                          \/ Remember(g) \/ Publish(g)
                          \/ RetireTells(g) \/ RetireEnds(g) \/ RetireFails(g)
                          \/ RetireRemembers(g) \/ ChildExits(g) \/ ChildKilled(g)
         \/ \E g \in Gens : \E o \in {"ok", "failed"} : ChildSends(g, o)
         \/ \E p \in Profiles : NewGeneration(p)
         \/ UNCHANGED vars
BY DEF Next, Startup, UpdateSettings, WorkerStep, RetireStep, ChildStep, Inv, SyncTyped

LEMMA InvStep == Inv /\ [Next]_vars => Inv'
<1> SUFFICES ASSUME Inv, [Next]_vars PROVE Inv'
  OBVIOUS
<1> USE BackgroundAssumption DEF Inv
<1>1. ASSUME NEW g \in Gens, Check(g) PROVE Inv'
  <2>1. SyncTyped'
    BY <1>1 DEF Check, Matches, Go, Fails, children, threads, SyncTyped, Begun, Gens, Places, Results, Alive
  <2>2. Begun'
    BY <1>1 DEF Check, Matches, Go, Fails, children, threads, SyncTyped, Begun, Gens, Alive
  <2>3. Honest'
    BY <1>1 DEF Check, Matches, Go, Fails, children, threads, SyncTyped, Begun, Honest, Gens, Results, Alive
  <2>4. Counted'
    <3>1. UNCHANGED gen /\ \A a \in Gens \ {g} : UNCHANGED <<pc[a], retirer[a], failing[a]>>
      BY <1>1 DEF Check, Matches, Go, Fails, children, threads, SyncTyped
    <3>2. /\ retirer'[g] + failing'[g] \in Nat
          /\ retirer'[g] + failing'[g] + Handed(g) <= retirer[g] + failing[g] + Handed(g)'
      BY <1>1 DEF Check, Matches, Go, Fails, children, threads, SyncTyped, Handed
    <3> QED
      BY <3>1, <3>2, Recount
  <2>5. HandedOver'
    BY <1>1 DEF Check, Matches, Go, Fails, children, threads, SyncTyped, Begun, HandedOver, ChildHeld, Left, Gens, Alive
  <2>6. ReadyIsTrue'
    BY <1>1 DEF Check, Matches, Go, Fails, children, threads, SyncTyped, Begun, Honest, ReadyIsTrue, Gens, Alive
  <2> QED
    BY <2>1, <2>2, <2>3, <2>4, <2>5, <2>6
<1>2. ASSUME NEW g \in Gens, Spawn(g) PROVE Inv'
  <2>1. SyncTyped'
    BY <1>2 DEF Spawn, Go, Fails, threads, SyncTyped, Begun, Gens, Places, Results, Alive
  <2>2. Begun'
    BY <1>2 DEF Spawn, Go, Fails, threads, SyncTyped, Begun, Gens, Alive
  <2>3. Honest'
    BY <1>2 DEF Spawn, Go, Fails, threads, SyncTyped, Begun, Honest, Gens, Results, Alive
  <2>4. Counted'
    <3>1. UNCHANGED gen /\ \A a \in Gens \ {g} : UNCHANGED <<pc[a], retirer[a], failing[a]>>
      BY <1>2 DEF Spawn, Go, Fails, threads, SyncTyped
    <3>2. /\ retirer'[g] + failing'[g] \in Nat
          /\ retirer'[g] + failing'[g] + Handed(g) <= retirer[g] + failing[g] + Handed(g)'
      BY <1>2 DEF Spawn, Go, Fails, threads, SyncTyped, Handed
    <3> QED
      BY <3>1, <3>2, Recount
  <2>5. HandedOver'
    BY <1>2 DEF Spawn, Go, Fails, threads, SyncTyped, Begun, HandedOver, ChildHeld, Left, Gens, Alive
  <2>6. ReadyIsTrue'
    BY <1>2 DEF Spawn, Go, Fails, threads, SyncTyped, Begun, Honest, ReadyIsTrue, Gens, Alive
  <2> QED
    BY <2>1, <2>2, <2>3, <2>4, <2>5, <2>6
<1>3. ASSUME NEW g \in Gens, Register(g) PROVE Inv'
  <2>1. SyncTyped'
    <3>1. pc' \in [Gens -> Places] /\ result' \in [Gens -> Results]
      BY <1>3 DEF Register, Go, Fails, SyncTyped, Places, Results
    <3>2. retirer' \in [Gens -> Nat] /\ current' \in 0..gen
      BY <1>3 DEF Register, Matches, SyncTyped, Gens
    <3> QED
      BY <1>3, <3>1, <3>2 DEF Register, children, SyncTyped
  <2>2. Begun'
    BY <1>3 DEF Register, Matches, Go, Fails, children, SyncTyped, Begun, Gens, Alive
  <2>3. Honest'
    BY <1>3 DEF Register, Matches, Go, Fails, children, SyncTyped, Begun, Honest, Gens, Results, Alive
  <2>4. Counted'
    <3>1. UNCHANGED gen /\ \A a \in Gens \ {g} : UNCHANGED <<pc[a], retirer[a], failing[a]>>
      BY <1>3 DEF Register, Matches, Go, Fails, children, SyncTyped
    <3>2. /\ retirer'[g] + failing'[g] \in Nat
          /\ retirer'[g] + failing'[g] + Handed(g) <= retirer[g] + failing[g] + Handed(g)'
      BY <1>3 DEF Register, Matches, Go, Fails, children, SyncTyped, Handed
    <3> QED
      BY <3>1, <3>2, Recount
  <2>5. HandedOver'
    BY <1>3 DEF Register, Matches, Go, Fails, children, SyncTyped, Begun, HandedOver, ChildHeld, Left, Gens, Alive
  <2>6. ReadyIsTrue'
    BY <1>3 DEF Register, Matches, Go, Fails, children, SyncTyped, Begun, Honest, ReadyIsTrue, Gens, Alive
  <2> QED
    BY <2>1, <2>2, <2>3, <2>4, <2>5, <2>6
<1>4. ASSUME NEW g \in Gens, Poll(g) PROVE Inv'
  <2>1. SyncTyped'
    BY <1>4 DEF Poll, Go, Fails, children, threads, SyncTyped, Begun, Gens, Places, Results, Alive
  <2>2. Begun'
    BY <1>4 DEF Poll, Go, Fails, children, threads, SyncTyped, Begun, Gens, Alive
  <2>3. Honest'
    BY <1>4 DEF Poll, Go, Fails, children, threads, SyncTyped, Begun, Honest, Gens, Results, Alive
  <2>4. Counted'
    <3>1. UNCHANGED gen /\ \A a \in Gens \ {g} : UNCHANGED <<pc[a], retirer[a], failing[a]>>
      BY <1>4 DEF Poll, Go, Fails, children, threads, SyncTyped
    <3>2. /\ retirer'[g] + failing'[g] \in Nat
          /\ retirer'[g] + failing'[g] + Handed(g) <= retirer[g] + failing[g] + Handed(g)'
      BY <1>4 DEF Poll, Go, Fails, children, threads, SyncTyped, Handed
    <3> QED
      BY <3>1, <3>2, Recount
  <2>5. HandedOver'
    BY <1>4 DEF Poll, Go, Fails, children, threads, SyncTyped, Begun, HandedOver, ChildHeld, Left, Gens, Alive
  <2>6. ReadyIsTrue'
    BY <1>4 DEF Poll, Go, Fails, children, threads, SyncTyped, Begun, Honest, ReadyIsTrue, Gens, Alive
  <2> QED
    BY <2>1, <2>2, <2>3, <2>4, <2>5, <2>6
<1>5. ASSUME NEW g \in Gens, CheckAlive(g) PROVE Inv'
  <2>1. SyncTyped'
    BY <1>5 DEF CheckAlive, Go, Fails, children, threads, SyncTyped, Begun, Gens, Places, Results, Alive
  <2>2. Begun'
    BY <1>5 DEF CheckAlive, Go, Fails, children, threads, SyncTyped, Begun, Gens, Alive
  <2>3. Honest'
    BY <1>5 DEF CheckAlive, Go, Fails, children, threads, SyncTyped, Begun, Honest, Gens, Results, Alive
  <2>4. Counted'
    <3>1. UNCHANGED gen /\ \A a \in Gens \ {g} : UNCHANGED <<pc[a], retirer[a], failing[a]>>
      BY <1>5 DEF CheckAlive, Go, Fails, children, threads, SyncTyped
    <3>2. /\ retirer'[g] + failing'[g] \in Nat
          /\ retirer'[g] + failing'[g] + Handed(g) <= retirer[g] + failing[g] + Handed(g)'
      BY <1>5 DEF CheckAlive, Go, Fails, children, threads, SyncTyped, Handed
    <3> QED
      BY <3>1, <3>2, Recount
  <2>5. HandedOver'
    BY <1>5 DEF CheckAlive, Go, Fails, children, threads, SyncTyped, Begun, HandedOver, ChildHeld, Left, Gens, Alive
  <2>6. ReadyIsTrue'
    BY <1>5 DEF CheckAlive, Go, Fails, children, threads, SyncTyped, Begun, Honest, ReadyIsTrue, Gens, Alive
  <2> QED
    BY <2>1, <2>2, <2>3, <2>4, <2>5, <2>6
<1>6. ASSUME NEW g \in Gens, Overdue(g) PROVE Inv'
  <2>1. SyncTyped'
    BY <1>6 DEF Overdue, Go, Fails, Tell, threads, SyncTyped, Begun, Gens, Places, Results, Alive
  <2>2. Begun'
    BY <1>6 DEF Overdue, Go, Fails, Tell, threads, SyncTyped, Begun, Gens, Alive
  <2>3. Honest'
    BY <1>6 DEF Overdue, Go, Fails, Tell, threads, SyncTyped, Begun, Honest, Gens, Results, Alive
  <2>4. Counted'
    <3>1. UNCHANGED gen /\ \A a \in Gens \ {g} : UNCHANGED <<pc[a], retirer[a], failing[a]>>
      BY <1>6 DEF Overdue, Go, Fails, Tell, threads, SyncTyped
    <3>2. /\ retirer'[g] + failing'[g] \in Nat
          /\ retirer'[g] + failing'[g] + Handed(g) <= retirer[g] + failing[g] + Handed(g)'
      BY <1>6 DEF Overdue, Go, Fails, Tell, threads, SyncTyped, Handed
    <3> QED
      BY <3>1, <3>2, Recount
  <2>5. HandedOver'
    BY <1>6 DEF Overdue, Go, Fails, Tell, threads, SyncTyped, Begun, HandedOver, ChildHeld, Left, Gens, Alive
  <2>6. ReadyIsTrue'
    BY <1>6 DEF Overdue, Go, Fails, Tell, threads, SyncTyped, Begun, Honest, ReadyIsTrue, Gens, Alive
  <2> QED
    BY <2>1, <2>2, <2>3, <2>4, <2>5, <2>6
<1>7. ASSUME NEW g \in Gens, Join(g) PROVE Inv'
  <2>1. SyncTyped'
    <3>1. pc' \in [Gens -> Places] /\ result' \in [Gens -> Results]
      BY <1>7 DEF Join, Go, Fails, SyncTyped, Places, Results
    <3>2. g \in 1..gen
      BY <1>7 DEF Join, SyncTyped, Begun, Gens
    <3>3. told' \subseteq 1..gen
      BY <1>7, <3>2 DEF Join, Tell, SyncTyped
    <3> QED
      BY <1>7, <3>1, <3>3 DEF Join, threads, SyncTyped
  <2>2. Begun'
    BY <1>7 DEF Join, Go, Fails, Tell, threads, SyncTyped, Begun, Gens, Alive
  <2>3. Honest'
    BY <1>7 DEF Join, Go, Fails, Tell, threads, SyncTyped, Begun, Honest, Gens, Results, Alive
  <2>4. Counted'
    <3>1. UNCHANGED gen /\ \A a \in Gens \ {g} : UNCHANGED <<pc[a], retirer[a], failing[a]>>
      BY <1>7 DEF Join, Go, Fails, Tell, threads, SyncTyped
    <3>2. /\ retirer'[g] + failing'[g] \in Nat
          /\ retirer'[g] + failing'[g] + Handed(g) <= retirer[g] + failing[g] + Handed(g)'
      BY <1>7 DEF Join, Go, Fails, Tell, threads, SyncTyped, Handed
    <3> QED
      BY <3>1, <3>2, Recount
  <2>5. HandedOver'
    BY <1>7 DEF Join, Go, Fails, Tell, threads, SyncTyped, Begun, HandedOver, ChildHeld, Left, Gens, Alive
  <2>6. ReadyIsTrue'
    BY <1>7 DEF Join, Go, Fails, Tell, threads, SyncTyped, Begun, Honest, ReadyIsTrue, Gens, Alive
  <2> QED
    BY <2>1, <2>2, <2>3, <2>4, <2>5, <2>6
<1>8. ASSUME NEW g \in Gens, Stopped(g) PROVE Inv'
  <2>1. SyncTyped'
    BY <1>8 DEF Stopped, Go, Fails, children, threads, SyncTyped, Begun, Gens, Places, Results, Alive
  <2>2. Begun'
    BY <1>8 DEF Stopped, Go, Fails, children, threads, SyncTyped, Begun, Gens, Alive
  <2>3. Honest'
    BY <1>8 DEF Stopped, Go, Fails, children, threads, SyncTyped, Begun, Honest, Gens, Results, Alive
  <2>4. Counted'
    <3>1. UNCHANGED gen /\ \A a \in Gens \ {g} : UNCHANGED <<pc[a], retirer[a], failing[a]>>
      BY <1>8 DEF Stopped, Go, Fails, children, threads, SyncTyped
    <3>2. /\ retirer'[g] + failing'[g] \in Nat
          /\ retirer'[g] + failing'[g] + Handed(g) <= retirer[g] + failing[g] + Handed(g)'
      BY <1>8 DEF Stopped, Go, Fails, children, threads, SyncTyped, Handed
    <3> QED
      BY <3>1, <3>2, Recount
  <2>5. HandedOver'
    BY <1>8 DEF Stopped, Go, Fails, children, threads, SyncTyped, Begun, HandedOver, ChildHeld, Left, Gens, Alive
  <2>6. ReadyIsTrue'
    BY <1>8 DEF Stopped, Go, Fails, children, threads, SyncTyped, Begun, Honest, ReadyIsTrue, Gens, Alive
  <2> QED
    BY <2>1, <2>2, <2>3, <2>4, <2>5, <2>6
<1>9. ASSUME NEW g \in Gens, Settle(g) PROVE Inv'
  <2>1. SyncTyped'
    BY <1>9 DEF Settle, Go, children, threads, SyncTyped, Begun, Gens, Places, Results, Alive
  <2>2. Begun'
    BY <1>9 DEF Settle, Go, children, threads, SyncTyped, Begun, Gens, Alive
  <2>3. Honest'
    BY <1>9 DEF Settle, Go, children, threads, SyncTyped, Begun, Honest, Gens, Results, Alive
  <2>4. Counted'
    <3>1. UNCHANGED gen /\ \A a \in Gens \ {g} : UNCHANGED <<pc[a], retirer[a], failing[a]>>
      BY <1>9 DEF Settle, Go, children, threads, SyncTyped
    <3>2. /\ retirer'[g] + failing'[g] \in Nat
          /\ retirer'[g] + failing'[g] + Handed(g) <= retirer[g] + failing[g] + Handed(g)'
      BY <1>9 DEF Settle, Go, children, threads, SyncTyped, Handed
    <3> QED
      BY <3>1, <3>2, Recount
  <2>5. HandedOver'
    BY <1>9 DEF Settle, Go, children, threads, SyncTyped, Begun, HandedOver, ChildHeld, Left, Gens, Alive
  <2>6. ReadyIsTrue'
    BY <1>9 DEF Settle, Go, children, threads, SyncTyped, Begun, Honest, ReadyIsTrue, Gens, Alive
  <2> QED
    BY <2>1, <2>2, <2>3, <2>4, <2>5, <2>6
<1>10. ASSUME NEW g \in Gens, Release(g) PROVE Inv'
  <2>1. SyncTyped'
    BY <1>10 DEF Release, Go, children, threads, SyncTyped, Begun, Gens, Places, Results, Alive
  <2>2. Begun'
    BY <1>10 DEF Release, Go, children, threads, SyncTyped, Begun, Gens, Alive
  <2>3. Honest'
    BY <1>10 DEF Release, Go, children, threads, SyncTyped, Begun, Honest, Gens, Results, Alive
  <2>4. Counted'
    <3>1. UNCHANGED gen /\ \A a \in Gens \ {g} : UNCHANGED <<pc[a], retirer[a], failing[a]>>
      BY <1>10 DEF Release, Go, children, threads, SyncTyped
    <3>2. /\ retirer'[g] + failing'[g] \in Nat
          /\ retirer'[g] + failing'[g] + Handed(g) <= retirer[g] + failing[g] + Handed(g)'
      BY <1>10 DEF Release, Go, children, threads, SyncTyped, Handed
    <3> QED
      BY <3>1, <3>2, Recount
  <2>5. HandedOver'
    BY <1>10 DEF Release, Go, children, threads, SyncTyped, Begun, HandedOver, ChildHeld, Left, Gens, Alive
  <2>6. ReadyIsTrue'
    BY <1>10 DEF Release, Go, children, threads, SyncTyped, Begun, Honest, ReadyIsTrue, Gens, Alive
  <2> QED
    BY <2>1, <2>2, <2>3, <2>4, <2>5, <2>6
<1>11. ASSUME NEW g \in Gens, Remember(g) PROVE Inv'
  <2>1. SyncTyped'
    BY <1>11 DEF Remember, Go, Remembered, children, SyncTyped, Begun, Gens, Places, Results, Alive
  <2>2. Begun'
    BY <1>11 DEF Remember, Go, Remembered, children, SyncTyped, Begun, Gens, Alive
  <2>3. Honest'
    BY <1>11 DEF Remember, Go, Remembered, children, SyncTyped, Begun, Honest, Gens, Results, Alive
  <2>4. Counted'
    <3>1. UNCHANGED gen /\ \A a \in Gens \ {g} : UNCHANGED <<pc[a], retirer[a], failing[a]>>
      BY <1>11 DEF Remember, Go, Remembered, children, SyncTyped
    <3>2. /\ retirer'[g] + failing'[g] \in Nat
          /\ retirer'[g] + failing'[g] + Handed(g) <= retirer[g] + failing[g] + Handed(g)'
      BY <1>11 DEF Remember, Go, Remembered, children, SyncTyped, Handed
    <3> QED
      BY <3>1, <3>2, Recount
  <2>5. HandedOver'
    BY <1>11 DEF Remember, Go, Remembered, children, SyncTyped, Begun, HandedOver, ChildHeld, Left, Gens, Alive
  <2>6. ReadyIsTrue'
    BY <1>11 DEF Remember, Go, Remembered, children, SyncTyped, Begun, Honest, ReadyIsTrue, Gens, Alive
  <2> QED
    BY <2>1, <2>2, <2>3, <2>4, <2>5, <2>6
<1>12. ASSUME NEW g \in Gens, Publish(g) PROVE Inv'
  <2>1. SyncTyped'
    BY <1>12 DEF Publish, Go, Matches, children, threads, SyncTyped, Begun, Gens, Places, Results, Alive
  <2>2. Begun'
    BY <1>12 DEF Publish, Go, Matches, children, threads, SyncTyped, Begun, Gens, Alive
  <2>3. Honest'
    BY <1>12 DEF Publish, Go, Matches, children, threads, SyncTyped, Begun, Honest, Gens, Results, Alive
  <2>4. Counted'
    <3>1. UNCHANGED gen /\ \A a \in Gens \ {g} : UNCHANGED <<pc[a], retirer[a], failing[a]>>
      BY <1>12 DEF Publish, Go, Matches, children, threads, SyncTyped
    <3>2. /\ retirer'[g] + failing'[g] \in Nat
          /\ retirer'[g] + failing'[g] + Handed(g) <= retirer[g] + failing[g] + Handed(g)'
      BY <1>12 DEF Publish, Go, Matches, children, threads, SyncTyped, Handed
    <3> QED
      BY <3>1, <3>2, Recount
  <2>5. HandedOver'
    BY <1>12 DEF Publish, Go, Matches, children, threads, SyncTyped, Begun, HandedOver, ChildHeld, Left, Gens, Alive
  <2>6. ReadyIsTrue'
    BY <1>12 DEF Publish, Go, Matches, children, threads, SyncTyped, Begun, Honest, ReadyIsTrue, Gens, Alive
  <2> QED
    BY <2>1, <2>2, <2>3, <2>4, <2>5, <2>6
<1>13. ASSUME NEW g \in Gens, RetireTells(g) PROVE Inv'
  <2>1. SyncTyped'
    BY <1>13 DEF RetireTells, Tell, worker, threads, SyncTyped, Begun, Gens, Places, Results, Alive
  <2>2. Begun'
    BY <1>13 DEF RetireTells, Tell, worker, threads, SyncTyped, Begun, Gens, Alive
  <2>3. Honest'
    BY <1>13 DEF RetireTells, Tell, worker, threads, SyncTyped, Begun, Honest, Gens, Results, Alive
  <2>4. Counted'
    <3>1. UNCHANGED gen /\ \A a \in Gens \ {g} : UNCHANGED <<pc[a], retirer[a], failing[a]>>
      BY <1>13 DEF RetireTells, Tell, worker, threads, SyncTyped
    <3>2. /\ retirer'[g] + failing'[g] \in Nat
          /\ retirer'[g] + failing'[g] + Handed(g) <= retirer[g] + failing[g] + Handed(g)'
      BY <1>13 DEF RetireTells, Tell, worker, threads, SyncTyped, Handed
    <3> QED
      BY <3>1, <3>2, Recount
  <2>5. HandedOver'
    BY <1>13 DEF RetireTells, Tell, worker, threads, SyncTyped, Begun, HandedOver, ChildHeld, Left, Gens, Alive
  <2>6. ReadyIsTrue'
    BY <1>13 DEF RetireTells, Tell, worker, threads, SyncTyped, Begun, Honest, ReadyIsTrue, Gens, Alive
  <2> QED
    BY <2>1, <2>2, <2>3, <2>4, <2>5, <2>6
<1>14. ASSUME NEW g \in Gens, RetireEnds(g) PROVE Inv'
  <2>1. SyncTyped'
    BY <1>14 DEF RetireEnds, worker, children, SyncTyped, Begun, Gens, Places, Results, Alive
  <2>2. Begun'
    BY <1>14 DEF RetireEnds, worker, children, SyncTyped, Begun, Gens, Alive
  <2>3. Honest'
    BY <1>14 DEF RetireEnds, worker, children, SyncTyped, Begun, Honest, Gens, Results, Alive
  <2>4. Counted'
    <3>1. UNCHANGED gen /\ \A a \in Gens \ {g} : UNCHANGED <<pc[a], retirer[a], failing[a]>>
      BY <1>14 DEF RetireEnds, worker, children, SyncTyped
    <3>2. /\ retirer'[g] + failing'[g] \in Nat
          /\ retirer'[g] + failing'[g] + Handed(g) <= retirer[g] + failing[g] + Handed(g)'
      BY <1>14 DEF RetireEnds, worker, children, SyncTyped, Handed
    <3> QED
      BY <3>1, <3>2, Recount
  <2>5. HandedOver'
    BY <1>14 DEF RetireEnds, worker, children, SyncTyped, Begun, HandedOver, ChildHeld, Left, Gens, Alive
  <2>6. ReadyIsTrue'
    BY <1>14 DEF RetireEnds, worker, children, SyncTyped, Begun, Honest, ReadyIsTrue, Gens, Alive
  <2> QED
    BY <2>1, <2>2, <2>3, <2>4, <2>5, <2>6
<1>15. ASSUME NEW g \in Gens, RetireFails(g) PROVE Inv'
  <2>1. SyncTyped'
    BY <1>15 DEF RetireFails, worker, children, SyncTyped, Begun, Gens, Places, Results, Alive
  <2>2. Begun'
    BY <1>15 DEF RetireFails, worker, children, SyncTyped, Begun, Gens, Alive
  <2>3. Honest'
    BY <1>15 DEF RetireFails, worker, children, SyncTyped, Begun, Honest, Gens, Results, Alive
  <2>4. Counted'
    <3>1. UNCHANGED gen /\ \A a \in Gens \ {g} : UNCHANGED <<pc[a], retirer[a], failing[a]>>
      BY <1>15 DEF RetireFails, worker, children, SyncTyped
    <3>2. /\ retirer'[g] + failing'[g] \in Nat
          /\ retirer'[g] + failing'[g] + Handed(g) <= retirer[g] + failing[g] + Handed(g)'
      BY <1>15 DEF RetireFails, worker, children, SyncTyped, Handed
    <3> QED
      BY <3>1, <3>2, Recount
  <2>5. HandedOver'
    BY <1>15 DEF RetireFails, worker, children, SyncTyped, Begun, HandedOver, ChildHeld, Left, Gens, Alive
  <2>6. ReadyIsTrue'
    BY <1>15 DEF RetireFails, worker, children, SyncTyped, Begun, Honest, ReadyIsTrue, Gens, Alive
  <2> QED
    BY <2>1, <2>2, <2>3, <2>4, <2>5, <2>6
<1>16. ASSUME NEW g \in Gens, RetireRemembers(g) PROVE Inv'
  <2>1. SyncTyped'
    BY <1>16 DEF RetireRemembers, worker, children, Remembered, SyncTyped, Begun, Gens, Places, Results, Alive
  <2>2. Begun'
    BY <1>16 DEF RetireRemembers, worker, children, Remembered, SyncTyped, Begun, Gens, Alive
  <2>3. Honest'
    BY <1>16 DEF RetireRemembers, worker, children, Remembered, SyncTyped, Begun, Honest, Gens, Results, Alive
  <2>4. Counted'
    <3>1. UNCHANGED gen /\ \A a \in Gens \ {g} : UNCHANGED <<pc[a], retirer[a], failing[a]>>
      BY <1>16 DEF RetireRemembers, worker, children, Remembered, SyncTyped
    <3>2. /\ retirer'[g] + failing'[g] \in Nat
          /\ retirer'[g] + failing'[g] + Handed(g) <= retirer[g] + failing[g] + Handed(g)'
      BY <1>16 DEF RetireRemembers, worker, children, Remembered, SyncTyped, Handed
    <3> QED
      BY <3>1, <3>2, Recount
  <2>5. HandedOver'
    BY <1>16 DEF RetireRemembers, worker, children, Remembered, SyncTyped, Begun, HandedOver, ChildHeld, Left, Gens, Alive
  <2>6. ReadyIsTrue'
    BY <1>16 DEF RetireRemembers, worker, children, Remembered, SyncTyped, Begun, Honest, ReadyIsTrue, Gens, Alive
  <2> QED
    BY <2>1, <2>2, <2>3, <2>4, <2>5, <2>6
<1>17. ASSUME NEW g \in Gens, ChildExits(g) PROVE Inv'
  <2>1. SyncTyped'
    BY <1>17 DEF ChildExits, ChildEnds, worker, threads, SyncTyped, Begun, Gens, Places, Results, Alive
  <2>2. Begun'
    BY <1>17 DEF ChildExits, ChildEnds, worker, threads, SyncTyped, Begun, Gens, Alive
  <2>3. Honest'
    BY <1>17 DEF ChildExits, ChildEnds, worker, threads, SyncTyped, Begun, Honest, Gens, Results, Alive
  <2>4. Counted'
    <3>1. UNCHANGED gen /\ \A a \in Gens \ {g} : UNCHANGED <<pc[a], retirer[a], failing[a]>>
      BY <1>17 DEF ChildExits, ChildEnds, worker, threads, SyncTyped
    <3>2. /\ retirer'[g] + failing'[g] \in Nat
          /\ retirer'[g] + failing'[g] + Handed(g) <= retirer[g] + failing[g] + Handed(g)'
      BY <1>17 DEF ChildExits, ChildEnds, worker, threads, SyncTyped, Handed
    <3> QED
      BY <3>1, <3>2, Recount
  <2>5. HandedOver'
    BY <1>17 DEF ChildExits, ChildEnds, worker, threads, SyncTyped, Begun, HandedOver, ChildHeld, Left, Gens, Alive
  <2>6. ReadyIsTrue'
    BY <1>17 DEF ChildExits, ChildEnds, worker, threads, SyncTyped, Begun, Honest, ReadyIsTrue, Gens, Alive
  <2> QED
    BY <2>1, <2>2, <2>3, <2>4, <2>5, <2>6
<1>18. ASSUME NEW g \in Gens, ChildKilled(g) PROVE Inv'
  <2>1. SyncTyped'
    BY <1>18 DEF ChildKilled, ChildEnds, worker, threads, SyncTyped, Begun, Gens, Places, Results, Alive
  <2>2. Begun'
    BY <1>18 DEF ChildKilled, ChildEnds, worker, threads, SyncTyped, Begun, Gens, Alive
  <2>3. Honest'
    BY <1>18 DEF ChildKilled, ChildEnds, worker, threads, SyncTyped, Begun, Honest, Gens, Results, Alive
  <2>4. Counted'
    <3>1. UNCHANGED gen /\ \A a \in Gens \ {g} : UNCHANGED <<pc[a], retirer[a], failing[a]>>
      BY <1>18 DEF ChildKilled, ChildEnds, worker, threads, SyncTyped
    <3>2. /\ retirer'[g] + failing'[g] \in Nat
          /\ retirer'[g] + failing'[g] + Handed(g) <= retirer[g] + failing[g] + Handed(g)'
      BY <1>18 DEF ChildKilled, ChildEnds, worker, threads, SyncTyped, Handed
    <3> QED
      BY <3>1, <3>2, Recount
  <2>5. HandedOver'
    BY <1>18 DEF ChildKilled, ChildEnds, worker, threads, SyncTyped, Begun, HandedOver, ChildHeld, Left, Gens, Alive
  <2>6. ReadyIsTrue'
    BY <1>18 DEF ChildKilled, ChildEnds, worker, threads, SyncTyped, Begun, Honest, ReadyIsTrue, Gens, Alive
  <2> QED
    BY <2>1, <2>2, <2>3, <2>4, <2>5, <2>6
<1>19. ASSUME NEW g \in Gens, NEW o \in {"ok", "failed"}, ChildSends(g, o) PROVE Inv'
  <2>1. SyncTyped'
    BY <1>19 DEF ChildSends, worker, threads, SyncTyped, Gens, Results
  <2>2. Begun'
    BY <1>19 DEF ChildSends, worker, threads, SyncTyped, Begun, Gens
  <2>3. Honest'
    BY <1>19 DEF ChildSends, worker, threads, SyncTyped, Honest, Gens, Results
  <2>4. Counted'
    BY <1>19 DEF ChildSends, worker, threads, Counted, Handed, Followers
  <2>5. HandedOver'
    BY <1>19 DEF ChildSends, worker, threads, SyncTyped, HandedOver, ChildHeld, Left, Alive
  <2>6. ReadyIsTrue'
    BY <1>19 DEF ChildSends, worker, threads, SyncTyped, Begun, Honest, ReadyIsTrue, Gens
  <2> QED
    BY <2>1, <2>2, <2>3, <2>4, <2>5, <2>6
<1>20. ASSUME NEW p \in Profiles, NewGeneration(p) PROVE Inv'
  <2>1. SyncTyped'
    <3>1. gen' \in Gens /\ gen' = gen + 1
      BY <1>20 DEF NewGeneration, SyncTyped, Gens
    <3>2. pc' \in [Gens -> Places] /\ captured' \in [Gens -> Profiles \union {None}]
      BY <1>20 DEF NewGeneration, SyncTyped, Places
    <3>3. retirer' \in [Gens -> Nat]
      BY <1>20 DEF NewGeneration, SyncTyped
    <3>4. active' \in Profiles /\ status' = "running" /\ current' = 0
      BY <1>20 DEF NewGeneration
    <3>5. UNCHANGED <<retiring, told, abandon, result, outcome, child, code, failing>>
      BY <1>20 DEF NewGeneration, children
    <3> QED
      BY <3>1, <3>2, <3>3, <3>4, <3>5 DEF SyncTyped, Gens
  <2>2. Begun'
    <3>1. gen' = gen + 1 /\ \A g \in Gens : g # gen' => pc'[g] = pc[g]
      BY <1>20 DEF NewGeneration, SyncTyped
    <3>2. ASSUME NEW g \in Gens, g > gen' PROVE retirer'[g] = 0
      <4>1. g \notin Superseded /\ retirer[g] = 0
        BY <3>1, <3>2 DEF Superseded, SyncTyped, Begun, Gens
      <4> QED
        BY <1>20, <4>1 DEF NewGeneration
    <3>3. pc'[gen'] = "check"
      BY <1>20, <3>1 DEF NewGeneration, SyncTyped, Gens
    <3>4. UNCHANGED <<child, failing>>
      BY <1>20 DEF NewGeneration, children
    <3> QED
      BY <3>1, <3>2, <3>3, <3>4 DEF SyncTyped, Begun, Gens
  <2>3. Honest'
    BY <1>20 DEF NewGeneration, children, SyncTyped, Begun, Honest, Gens
  <2>4. Counted'
    <3> SUFFICES ASSUME NEW a \in Gens
                 PROVE  retirer'[a] + failing'[a] <= Followers(a)' + Handed(a)'
      BY DEF Counted
    <3>1. retirer'[a] = retirer[a] + (IF a \in Superseded THEN 1 ELSE 0) /\ failing'[a] = failing[a]
      BY <1>20 DEF NewGeneration
    <3>2. gen' = gen + 1 /\ gen \in Nat /\ a \in Nat /\ (a # gen' => pc'[a] = pc[a])
      BY <1>20 DEF NewGeneration, SyncTyped, Gens
    <3>3. retirer[a] \in Nat /\ failing[a] \in Nat /\ retirer[a] + failing[a] <= Followers(a) + Handed(a)
      BY DEF SyncTyped, Counted
    <3>4. Handed(a) \in Nat /\ Handed(a)' \in Nat /\ Followers(a) \in Nat
      BY <3>2 DEF Handed, Followers
    <3>5. CASE a > gen
      <4>1. retirer[a] = 0 /\ failing[a] = 0 /\ a \notin Superseded
        BY <3>5 DEF Superseded, SyncTyped, Begun, Gens
      <4>2. Followers(a)' = 0
        BY <3>2, <3>5 DEF Followers
      <4> QED
        BY <3>1, <3>4, <4>1, <4>2
    <3>6. CASE a <= gen
      <4>1. Followers(a)' = Followers(a) + 1
        BY <3>2, <3>6 DEF Followers
      <4>2. Handed(a)' = Handed(a)
        BY <3>2, <3>6 DEF Handed
      <4> QED
        BY <3>1, <3>3, <3>4, <4>1, <4>2
    <3> QED
      BY <3>2, <3>5, <3>6
  <2>5. HandedOver'
    BY <1>20 DEF NewGeneration, children, Superseded, SyncTyped, Begun, HandedOver, ChildHeld, Left, Alive, Gens
  <2>6. ReadyIsTrue'
    BY <1>20 DEF NewGeneration, ReadyIsTrue
  <2> QED
    BY <2>1, <2>2, <2>3, <2>4, <2>5, <2>6
<1>21. CASE UNCHANGED vars
  BY <1>21 DEF vars, worker, children, threads, SyncTyped, Begun, Honest, Counted, Handed, Followers,
     HandedOver, ChildHeld, Left, Alive, ReadyIsTrue
<1> QED
  BY <1>1, <1>2, <1>3, <1>4, <1>5, <1>6, <1>7, <1>8, <1>9, <1>10, <1>11,
     <1>12, <1>13, <1>14, <1>15, <1>16, <1>17, <1>18, <1>19, <1>20, <1>21, NextParts

LEMMA InvHolds == Spec => []Inv
<1>1. Init => Inv
  BY BackgroundAssumption DEF Init, Inv, SyncTyped, Begun, Honest, Counted, Handed, Followers, HandedOver,
     Left, ChildHeld, Alive, ReadyIsTrue, Gens, Places, Results
<1> QED
  BY <1>1, InvStep, PTL DEF Spec

\* What the invariant says of one state.
LEMMA InvSays == Inv => ReadyAndHeld
<1> SUFFICES ASSUME Inv PROVE ReadyAndHeld
  OBVIOUS
<1> USE BackgroundAssumption DEF Inv
<1>1. TypeOK
  <2> SUFFICES ASSUME NEW g \in Gens
               PROVE  /\ retirer[g] \in 0..(2 * MaxGen) /\ failing[g] \in 0..(2 * MaxGen)
                      /\ g > gen => pc[g] = "none" /\ child[g] = "none"
    BY DEF TypeOK, SyncTyped, Honest, Results
  <2>1. g > gen => pc[g] = "none" /\ child[g] = "none"
    BY DEF Begun
  <2>2. retirer[g] + failing[g] <= Followers(g) + Handed(g)
    BY DEF Counted
  <2>3. Followers(g) \in 0..(MaxGen - 1) /\ MaxGen >= 1
    BY DEF Followers, SyncTyped, Gens
  <2>4. Handed(g) \in 0..2
    BY DEF Handed
  <2> QED
    BY <2>1, <2>2, <2>3, <2>4 DEF SyncTyped
<1>2. NoOrphan
  BY DEF NoOrphan, HandedOver, ChildHeld, Left, Alive, Begun
<1> QED
  BY <1>1, <1>2 DEF ReadyAndHeld

\* The application says ready only of the folder it shows, and only after that folder's
\* own child has synchronised it; and every living child is in somebody's hands
\* (_background_sync_worker, run_background_diagnostics, _retire_background_process).
THEOREM ReadyIsTrueAndHeld == Spec => []ReadyAndHeld
BY InvHolds, InvSays, PTL

-----------------------------------------------------------------------------
(* The end of the server (ServerShutdown).                                 *)

(* A thread has read the folder it acts on.                                *)
CallTyped == call # Absent => call.folder \in Folders

(* The state file is written between the check and the answer; a request   *)
(* that failed before that left it as it was.                              *)
Written == {"written", "accepted", "stopped", "read", "terminating", "gone"}

StateSays ==
  /\ step \in {"serving", "asked", "checked"} => states.status = "ready" \/ states.stale
  /\ step \in Written => states.status \in {"stopping", "stopped"}

EndInv == End!TypeOK /\ CallTyped /\ StateSays /\ End!OnlyOfTheFolder /\ End!StopsTheMonitor

LEMMA TypeStep == ASSUME EndInv, End!Next PROVE End!TypeOK' /\ CallTyped'
<1> USE DEF EndInv, End!TypeOK, CallTyped, End!buttons, End!request, End!pid
<1>1. ASSUME NEW op \in {"start", "stop"}, End!Call(op) PROVE End!TypeOK' /\ CallTyped'
  BY <1>1 DEF End!Call
<1>2. CASE End!BridgeStart \/ End!BridgeStop
  BY <1>2 DEF End!BridgeStart, End!BridgeStop
<1>3. ASSUME NEW f \in Folders, End!UpdateSettings(f) PROVE End!TypeOK' /\ CallTyped'
  BY <1>3 DEF End!UpdateSettings
<1>4. ASSUME NEW b \in {"keep", "stop"}, End!Request(b) PROVE End!TypeOK' /\ CallTyped'
  BY <1>4 DEF End!Request
<1>5. CASE End!StopMonitor
  BY <1>5 DEF End!StopMonitor, End!Reset
<1>6. CASE End!WriteState \/ End!Respond \/ End!Finalize
  BY <1>6 DEF End!WriteState, End!Respond, End!Finalize, End!Reset
<1>7. CASE End!ReadPid \/ End!UnlinkPid \/ End!Exit
  BY <1>7 DEF End!ReadPid, End!UnlinkPid, End!Exit
<1>8. ASSUME NEW s \in Streams, End!Follow(s) \/ End!StreamEnds(s) \/ End!PageLeaves(s)
      PROVE End!TypeOK' /\ CallTyped'
  BY <1>8 DEF End!Follow, End!StreamEnds, End!PageLeaves
<1>9. CASE End!SuccessorPid
  BY <1>9 DEF End!SuccessorPid
<1> QED
  BY <1>1, <1>2, <1>3, <1>4, <1>5, <1>6, <1>7, <1>8, <1>9 DEF End!Next, End!Ending

LEMMA RestStep == ASSUME EndInv, End!Next PROVE StateSays' /\ End!OnlyOfTheFolder' /\ End!StopsTheMonitor'
<1> USE DEF EndInv, StateSays, End!OnlyOfTheFolder, End!StopsTheMonitor, Written, End!buttons, End!request, End!pid
<1>0. flag = (step # "serving")
  BY DEF End!TypeOK
<1>1. ASSUME NEW op \in {"start", "stop"}, End!Call(op)
      PROVE StateSays' /\ End!OnlyOfTheFolder' /\ End!StopsTheMonitor'
  BY <1>1 DEF End!Call
<1>2. CASE End!BridgeStart \/ End!BridgeStop
  BY <1>0, <1>2 DEF End!BridgeStart, End!BridgeStop
<1>3. ASSUME NEW f \in Folders, End!UpdateSettings(f)
      PROVE StateSays' /\ End!OnlyOfTheFolder' /\ End!StopsTheMonitor'
  BY <1>3 DEF End!UpdateSettings
<1>4. ASSUME NEW b \in {"keep", "stop"}, End!Request(b)
      PROVE StateSays' /\ End!OnlyOfTheFolder' /\ End!StopsTheMonitor'
  BY <1>4 DEF End!Request
<1>5. CASE End!StopMonitor
  BY <1>5 DEF End!StopMonitor, End!Reset
<1>6. CASE End!WriteState \/ End!Respond \/ End!Finalize
  BY <1>6 DEF End!WriteState, End!Respond, End!Finalize, End!Reset, End!StateWritten
<1>7. CASE End!ReadPid \/ End!UnlinkPid \/ End!Exit
  BY <1>7 DEF End!ReadPid, End!UnlinkPid, End!Exit
<1>8. ASSUME NEW s \in Streams, End!Follow(s) \/ End!StreamEnds(s) \/ End!PageLeaves(s)
      PROVE StateSays' /\ End!OnlyOfTheFolder' /\ End!StopsTheMonitor'
  BY <1>8 DEF End!Follow, End!StreamEnds, End!PageLeaves
<1>9. CASE End!SuccessorPid
  BY <1>9 DEF End!SuccessorPid
<1> QED
  BY <1>1, <1>2, <1>3, <1>4, <1>5, <1>6, <1>7, <1>8, <1>9 DEF End!Next, End!Ending

LEMMA EndInit == End!Init => EndInv
<1> SUFFICES ASSUME End!Init PROVE EndInv
  OBVIOUS
<1>1. flag = (step # "serving")
  BY DEF End!Init
<1> QED
  BY <1>1 DEF End!Init, EndInv, End!TypeOK, CallTyped, StateSays, End!OnlyOfTheFolder, End!StopsTheMonitor, Written

LEMMA EndStep == EndInv /\ [End!Next]_(End!vars) => EndInv'
<1>1. CASE UNCHANGED End!vars
  BY <1>1 DEF EndInv, End!TypeOK, CallTyped, StateSays, End!OnlyOfTheFolder, End!StopsTheMonitor, End!vars,
              End!buttons, End!request, End!pid
<1> QED
  BY <1>1, TypeStep, RestStep DEF EndInv

(* Whatever buttons are pressed in whatever threads, and whatever stop,    *)
(* write or event fails: a monitor of another folder than the served one,  *)
(* or of a server that accepted to stop with its monitor, was left by a    *)
(* stop that failed or a start that came late, and the state file calls    *)
(* stopping or stopped only a server that is (request_server_shutdown,     *)
(* update_settings, finalize_server_shutdown).                             *)
THEOREM MonitorsGoWithTheServer ==
  End!Spec => []MonitorsFollow
<1>1. EndInv => MonitorsFollow
  BY DEF EndInv, MonitorsFollow, End!MonitorsFollow, End!TypeOK, StateSays, End!StateTold, Written
<1> QED
  BY <1>1, EndInit, EndStep, PTL DEF End!Spec

(* What the end read of the pid file is what is there, or a successor has  *)
(* written since; the server's own pid is the one the request has noted.   *)
PidInv ==
  /\ flag /\ pidFile = "mine" => snap = "mine"
  /\ late => pidFile # "mine"
  /\ step = "read" => late \/ seen = pidFile
  /\ step \in {"terminating", "gone"} /\ states.status = "stopped" => pidFile # "mine"
  /\ states.status = "stopped" => step \in {"stopped", "read", "terminating", "gone"}

LEMMA PidStep == ASSUME EndInv, PidInv, End!Next PROVE PidInv'
<1> USE DEF EndInv, PidInv, End!TypeOK, End!buttons, End!request, End!pid
<1>1. ASSUME NEW op \in {"start", "stop"}, End!Call(op) PROVE PidInv'
  BY <1>1 DEF End!Call
<1>2. CASE End!BridgeStart \/ End!BridgeStop
  BY <1>2 DEF End!BridgeStart, End!BridgeStop
<1>3. ASSUME NEW f \in Folders, End!UpdateSettings(f) PROVE PidInv'
  BY <1>3 DEF End!UpdateSettings
<1>4. ASSUME NEW b \in {"keep", "stop"}, End!Request(b) PROVE PidInv'
  BY <1>4 DEF End!Request
<1>5. CASE End!StopMonitor
  BY <1>5 DEF End!StopMonitor, End!Reset
<1>6. CASE End!WriteState \/ End!Respond \/ End!Finalize
  BY <1>6 DEF End!WriteState, End!Respond, End!Finalize, End!Reset, End!StateWritten
<1>7. CASE End!ReadPid \/ End!Exit
  BY <1>7 DEF End!ReadPid, End!Exit
<1>8. CASE End!UnlinkPid
  <2>1. /\ step = "read" /\ flag /\ step' = "terminating"
        /\ snap' = snap /\ late' = late
    BY <1>8 DEF End!UnlinkPid
  <2>2. pidFile = "mine" => snap = "mine" /\ seen = "mine" /\ snap # Absent
    BY <2>1, AbsentAssumption
  <2>3. pidFile' # "mine"
    BY <1>8, <2>2, AbsentAssumption DEF End!UnlinkPid, End!MayUnlink
  <2> QED
    BY <2>1, <2>3
<1>9. ASSUME NEW s \in Streams, End!Follow(s) \/ End!StreamEnds(s) \/ End!PageLeaves(s)
      PROVE PidInv'
  BY <1>9 DEF End!Follow, End!StreamEnds, End!PageLeaves
<1>10. CASE End!SuccessorPid
  BY <1>10 DEF End!SuccessorPid
<1> QED
  BY <1>1, <1>2, <1>3, <1>4, <1>5, <1>6, <1>7, <1>8, <1>9, <1>10 DEF End!Next, End!Ending

(* Only UnlinkPid takes a successor's pid away.                            *)
LEMMA SuccessorStep ==
  ASSUME EndInv, PidInv, End!Next, pidFile = "new", pidFile' # "new" PROVE late \/ snap = "new"
<1> USE DEF End!buttons, End!request, End!pid
<1>1. CASE End!UnlinkPid
  BY <1>1 DEF End!UnlinkPid, End!MayUnlink, PidInv
<1>2. CASE ~End!UnlinkPid
  <2>1. ASSUME NEW op \in {"start", "stop"}, End!Call(op) PROVE FALSE
    BY <2>1 DEF End!Call
  <2>2. ASSUME End!BridgeStart \/ End!BridgeStop PROVE FALSE
    BY <2>2 DEF End!BridgeStart, End!BridgeStop
  <2>3. ASSUME NEW f \in Folders, End!UpdateSettings(f) PROVE FALSE
    BY <2>3 DEF End!UpdateSettings
  <2>4. ASSUME NEW b \in {"keep", "stop"}, End!Request(b) PROVE FALSE
    BY <2>4 DEF End!Request
  <2>5. ASSUME End!StopMonitor \/ End!WriteState \/ End!Respond \/ End!Finalize PROVE FALSE
    BY <2>5 DEF End!StopMonitor, End!WriteState, End!Respond, End!Finalize
  <2>6. ASSUME End!ReadPid \/ End!Exit PROVE FALSE
    BY <2>6 DEF End!ReadPid, End!Exit
  <2>7. ASSUME NEW s \in Streams, End!Follow(s) \/ End!StreamEnds(s) \/ End!PageLeaves(s)
        PROVE FALSE
    BY <2>7 DEF End!Follow, End!StreamEnds, End!PageLeaves
  <2>8. ASSUME End!SuccessorPid PROVE FALSE
    BY <2>8 DEF End!SuccessorPid
  <2> QED
    BY <1>2, <2>1, <2>2, <2>3, <2>4, <2>5, <2>6, <2>7, <2>8 DEF End!Next, End!Ending
<1> QED
  BY <1>1, <1>2

(* A server that said it stopped has removed its own pid file, and it      *)
(* takes a successor's away only when that was written between the look    *)
(* and the removal, or before the request (finalize_server_shutdown).      *)
THEOREM PidFilesAreTold ==
  End!Spec => PidFileTold
<1>1. End!Init => PidInv
  BY DEF End!Init, PidInv
<1>2. EndInv /\ PidInv /\ [End!Next]_(End!vars) => PidInv'
  <2>1. CASE UNCHANGED End!vars
    BY <2>1 DEF PidInv, End!vars, End!buttons, End!request, End!pid
  <2> QED
    BY <2>1, PidStep
<1>3. PidInv => (step = "gone" /\ states.status = "stopped" => pidFile # "mine")
  BY DEF PidInv
<1>4. EndInv /\ PidInv /\ [End!Next]_(End!vars)
        => [pidFile = "new" /\ pidFile' # "new" => late \/ snap = "new"]_(End!vars)
  BY SuccessorStep
<1>5. End!Spec => []EndInv
  BY EndInit, EndStep, PTL DEF End!Spec
<1> QED
  BY <1>1, <1>2, <1>3, <1>4, <1>5, PTL DEF End!Spec, PidFileTold, End!PidFileTold

-----------------------------------------------------------------------------
(* The desktop host around an update (MonitorRecovery), for any number of  *)
(* updates, pressed buttons and faults.                                    *)

(* An update that finds a marker restores instead, so none is there when   *)
(* it publishes its own, and a publication that fails cannot lose one; the *)
(* own one is there until the stop has been checked.                       *)
Marked ==
  /\ owed => marker \/ missed
  /\ host \in {"plook", "publish"} => ~marker
  /\ host \in {"stop", "pcheck"} => marker

LEMMA RestoreStep ==
  ASSUME Marked,
         \/ Recovery!LoadMarker \/ Recovery!Look \/ Recovery!StartMonitor \/ Recovery!Recheck
         \/ Recovery!ClearMarker \/ Recovery!RestoreLosesBackend \/ Recovery!RestoreFails
  PROVE  Marked'
<1> USE DEF Marked, Recovery!Goto, Recovery!RestoreEnds
<1>1. CASE Recovery!LoadMarker
  BY <1>1 DEF Recovery!LoadMarker
<1>2. CASE Recovery!Look
  BY <1>2 DEF Recovery!Look
<1>3. CASE Recovery!StartMonitor
  BY <1>3 DEF Recovery!StartMonitor
<1>4. CASE Recovery!Recheck
  BY <1>4 DEF Recovery!Recheck
<1>5. CASE Recovery!ClearMarker
  BY <1>5 DEF Recovery!ClearMarker
<1>6. CASE Recovery!RestoreLosesBackend
  BY <1>6 DEF Recovery!RestoreLosesBackend
<1>7. CASE Recovery!RestoreFails
  BY <1>7 DEF Recovery!RestoreFails
<1> QED
  BY <1>1, <1>2, <1>3, <1>4, <1>5, <1>6, <1>7

LEMMA UpdateStep ==
  ASSUME Marked,
         \/ Recovery!Reserve \/ Recovery!Commit \/ Recovery!LoseCommit \/ Recovery!Verify
         \/ Recovery!PauseLoad \/ Recovery!PauseLook \/ Recovery!Publish
         \/ Recovery!StopMonitor \/ Recovery!PauseCheck \/ Recovery!PauseLosesBackend
         \/ Recovery!PauseFails \/ Recovery!Install \/ Recovery!Relaunch
         \/ Recovery!InstallFails
  PROVE  Marked'
<1> USE DEF Marked, Recovery!Goto, Recovery!EndUpdate
<1>1. CASE Recovery!Reserve \/ Recovery!Commit \/ Recovery!LoseCommit \/ Recovery!Verify
  BY <1>1 DEF Recovery!Reserve, Recovery!Commit, Recovery!LoseCommit, Recovery!Verify
<1>7. CASE Recovery!Install
  BY <1>7 DEF Recovery!Install
<1>8. CASE Recovery!Relaunch
  BY <1>8 DEF Recovery!Relaunch
<1>9. CASE Recovery!InstallFails
  BY <1>9 DEF Recovery!InstallFails
<1>2. CASE Recovery!PauseLoad \/ Recovery!PauseLook \/ Recovery!PauseLosesBackend
  BY <1>2 DEF Recovery!PauseLoad, Recovery!PauseLook, Recovery!PauseLosesBackend
<1>3. CASE Recovery!Publish
  BY <1>3 DEF Recovery!Publish
<1>4. CASE Recovery!StopMonitor
  BY <1>4 DEF Recovery!StopMonitor
<1>5. CASE Recovery!PauseCheck
  BY <1>5 DEF Recovery!PauseCheck
<1>6. CASE Recovery!PauseFails
  <2>1. CASE host = "stop"
    BY <1>6, <2>1 DEF Recovery!PauseFails
  <2>2. CASE host = "publish"
    <3>1. missed' = missed /\ monitor' = monitor /\ host' = "load"
      BY <1>6, <2>2 DEF Recovery!PauseFails
    <3>2. owed' = (owed \/ (monitor = "ready" /\ monitor' # "ready"))
      BY <1>6 DEF Recovery!PauseFails
    <3>3. owed' => owed
      BY <3>1, <3>2
    <3> QED
      BY <2>2, <3>1, <3>3
  <2>3. CASE host \notin {"stop", "publish"}
    <3>1. missed' = missed /\ monitor' = monitor /\ marker' = marker /\ host' = "load"
      BY <1>6, <2>3 DEF Recovery!PauseFails
    <3>2. owed' = (owed \/ (monitor = "ready" /\ monitor' # "ready"))
      BY <1>6 DEF Recovery!PauseFails
    <3> QED
      BY <3>1, <3>2
  <2> QED
    BY <2>1, <2>2, <2>3
<1> QED
  BY <1>1, <1>2, <1>3, <1>4, <1>5, <1>6, <1>7, <1>8, <1>9

LEMMA OutsideStep ==
  ASSUME Marked,
         \/ Recovery!Launch \/ Recovery!Quit \/ Recovery!Restart \/ Recovery!WatcherExits
         \/ Recovery!BackendDies \/ Recovery!Crash \/ Recovery!OrphanEnds
         \/ Recovery!MonitorGetsReady \/ Recovery!DyingEnds \/ Recovery!MonitorDies
         \/ Recovery!PressStart \/ Recovery!PressStop \/ UNCHANGED Recovery!vars
  PROVE  Marked'
BY DEF Marked, Recovery!Launch, Recovery!Quit, Recovery!Restart, Recovery!Leave,
       Recovery!WatcherExits, Recovery!BackendDies, Recovery!Crash, Recovery!OrphanEnds,
       Recovery!MonitorGetsReady, Recovery!DyingEnds, Recovery!MonitorDies,
       Recovery!PressStart, Recovery!PressStop, Recovery!vars

(* A monitor that an update took is marked on disk until it runs again or  *)
(* a person decides otherwise, whichever call fails and whoever dies, but  *)
(* for one that was found in its last sync (monitor_recovery.rs).          *)
THEOREM OwedIsMarked == Recovery!Spec => Recovery!PausedIsMarked
<1>1. Recovery!Init => Marked
  BY DEF Recovery!Init, Marked
<1>2. Marked /\ [Recovery!Next]_(Recovery!vars) => Marked'
  BY RestoreStep, UpdateStep, OutsideStep
  DEF Recovery!Next, Recovery!HostStep, Recovery!Environment
<1>3. Marked => (owed => marker \/ missed)
  BY DEF Marked
<1> QED
  BY <1>1, <1>2, <1>3, PTL DEF Recovery!Spec, Recovery!PausedIsMarked

-----------------------------------------------------------------------------
(* The updates the application is told of (Updates), for any versions,     *)
(* callers, feeds, answers and restarts.                                   *)

Numbers == Versions \union {0}
Checking == {"begin", "fetch", "wait", "offline", "answered", "host", "release"}
Answer == [status : {0, 200, 304, 404}, feed : Numbers, etag : Numbers, of : Numbers]

Typed ==
  /\ Update!TypeOK
  /\ served \in Numbers
  /\ cache.result \in {"none", "error", "up_to_date", "available", "unsupported"}
  /\ caller \in [Callers -> Checking \union {"idle", "install"}]
  /\ got \in [Callers -> Answer]

(* The lock is that of the check under way, the host's that of an install. *)
Held ==
  \A c \in Callers :
     /\ (lock = c) <=> (caller[c] \in Checking)
     /\ caller[c] = "install" => hosted /\ hostLock = c

(* An approval, and the candidate an install takes, are of the last feed a *)
(* check of the host has accepted; a new check begins without.             *)
Approved ==
  /\ ~hosted => approval = 0
  /\ approval # 0 => approval = body /\ candidate \in {0, body}
  /\ \A c \in Callers :
       /\ caller[c] \in Checking \ {"release"} => approval = 0
       /\ caller[c] = "install" => candidate \in {0, body}
       /\ caller[c] = "host" => hosted /\ body = got[c].feed

(* The cache has a feed under its own ETag.                                *)
Tagged ==
  \/ untagged
  \/ /\ cache.feed = cache.etag
     /\ \A c \in Callers : Update!HasBody(c) /\ got[c].feed # 0 => Update!Tag(c) = got[c].feed

(* A check that is over has said something.                                *)
Said ==
  \A c \in Callers : caller[c] \in {"host", "release"} => shown.status # "checking" \/ odd

UInv == Typed /\ Held /\ Approved /\ Tagged /\ Said /\ Update!AnswersTrue /\ Update!CheckingEnds

LEMMA UInitially == ASSUME Update!ConstantsSound, Update!Init PROVE UInv
BY DEF Update!ConstantsSound, Update!Init, UInv, Typed, Held, Approved, Tagged, Said, Numbers,
       Checking, Answer, Update!TypeOK, Update!AnswersTrue, Update!CheckingEnds, Update!Nobody,
       Update!Cached, Update!Says, Update!NoAnswer, Update!HasBody, Update!Tag

(* A request or an install takes its lock or finds it taken.               *)
LEMMA AskStep ==
  ASSUME Update!ConstantsSound, UInv, NEW c \in Callers,
         (\E force \in BOOLEAN : Update!CheckForUpdates(c, force)) \/ Update!InstallUpdate(c)
  PROVE  UInv'
<1> USE DEF Update!Go, Checking
<1>1. CASE \E force \in BOOLEAN : Update!CheckForUpdates(c, force)
  <2>1. Typed'
    BY <1>1 DEF UInv, Typed, Update!TypeOK, Update!CheckForUpdates, Update!Revoked,
                Update!world, Numbers
  <2>2. Held'
    BY <1>1 DEF UInv, Typed, Held, Update!TypeOK, Update!CheckForUpdates, Update!Revoked,
                Update!world, Update!ConstantsSound
  <2>3. Approved'
    BY <1>1 DEF UInv, Typed, Held, Approved, Update!TypeOK, Update!CheckForUpdates,
                Update!Revoked, Update!world, Update!ConstantsSound
  <2>4. Tagged' /\ Said' /\ Update!AnswersTrue' /\ Update!CheckingEnds'
    BY <1>1 DEF UInv, Typed, Held, Tagged, Said, Update!AnswersTrue, Update!CheckingEnds,
                Update!TypeOK, Update!CheckForUpdates, Update!world, Update!ConstantsSound,
                Update!HasBody, Update!Tag
  <2> QED
    BY <2>1, <2>2, <2>3, <2>4 DEF UInv
<1>2. CASE Update!InstallUpdate(c)
  <2>1. Typed'
    BY <1>2 DEF UInv, Typed, Update!TypeOK, Update!InstallUpdate, Update!world, Numbers
  <2>2. Held'
    BY <1>2 DEF UInv, Typed, Held, Update!TypeOK, Update!InstallUpdate, Update!world,
                Update!ConstantsSound
  <2>3. Approved'
    BY <1>2 DEF UInv, Typed, Held, Approved, Update!TypeOK, Update!InstallUpdate,
                Update!world, Update!ConstantsSound
  <2>4. Tagged' /\ Said' /\ Update!AnswersTrue' /\ Update!CheckingEnds'
    BY <1>2 DEF UInv, Typed, Tagged, Said, Update!AnswersTrue, Update!CheckingEnds,
                Update!InstallUpdate, Update!world, Update!HasBody, Update!Tag
  <2> QED
    BY <2>1, <2>2, <2>3, <2>4 DEF UInv
<1> QED
  BY <1>1, <1>2

(* The step of a check, or of an install that has its lock: only the       *)
(* caller that holds the lock moves.                                       *)
LEMMA CheckStep ==
  ASSUME Update!ConstantsSound, UInv, NEW c \in Callers, Update!CheckStep(c)
  PROVE  UInv'
<1> USE DEF Update!Go, Update!world, Update!locks, Update!host, Checking, Update!ConstantsSound
<1>0. \A d \in Callers \ {c} : caller[c] \in Checking =>
         /\ caller[d] \notin Checking
         /\ caller[d] = "install" => ~hosted
  BY DEF UInv, Typed, Held, Update!TypeOK
<1>1. CASE Update!Begin(c)
  <2>1. Typed'
    BY <1>0, <1>1 DEF UInv, Typed, Numbers, Answer, Update!TypeOK, Update!Begin,
                      Update!Says, Update!Fresh
  <2>2. Held'
    BY <1>0, <1>1 DEF UInv, Typed, Held, Update!TypeOK, Update!Begin, Update!Says
  <2>3. Approved'
    BY <1>0, <1>1 DEF UInv, Typed, Held, Approved, Update!TypeOK, Answer, Numbers,
                      Update!Begin, Update!Says
  <2>4. Tagged' /\ Update!AnswersTrue'
    BY <1>0, <1>1 DEF UInv, Typed, Held, Tagged, Update!AnswersTrue, Update!TypeOK,
                      Update!HasBody, Update!Tag, Answer, Numbers, Update!Begin,
                      Update!Says
  <2>5. Said' /\ Update!CheckingEnds'
    BY <1>0, <1>1 DEF UInv, Typed, Held, Said, Update!CheckingEnds, Update!TypeOK,
                      Update!Begin, Update!Says
  <2> QED
    BY <2>1, <2>2, <2>3, <2>4, <2>5 DEF UInv
<1>2. CASE Update!Fetch(c)
  <2>1. Typed'
    BY <1>0, <1>2 DEF UInv, Typed, Numbers, Answer, Update!TypeOK, Update!Fetch
  <2>2. Held'
    BY <1>0, <1>2 DEF UInv, Typed, Held, Update!TypeOK, Update!Fetch
  <2>3. Approved'
    BY <1>0, <1>2 DEF UInv, Typed, Held, Approved, Update!TypeOK, Answer, Numbers,
                      Update!Fetch
  <2>4. Tagged' /\ Update!AnswersTrue'
    BY <1>0, <1>2 DEF UInv, Typed, Held, Tagged, Update!AnswersTrue, Update!TypeOK,
                      Update!HasBody, Update!Tag, Answer, Numbers, Update!Fetch
  <2>5. Said' /\ Update!CheckingEnds'
    BY <1>0, <1>2 DEF UInv, Typed, Held, Said, Update!CheckingEnds, Update!TypeOK,
                      Update!Fetch
  <2> QED
    BY <2>1, <2>2, <2>3, <2>4, <2>5 DEF UInv
<1>3. CASE \E t \in BOOLEAN : Update!FeedComes(c, t)
  <2>1. Typed'
    BY <1>0, <1>3 DEF UInv, Typed, Numbers, Answer, Update!TypeOK, Update!FeedComes,
                      Update!Answered
  <2>2. Held'
    BY <1>0, <1>3 DEF UInv, Typed, Held, Update!TypeOK, Update!FeedComes, Update!Answered
  <2>3. Approved'
    BY <1>0, <1>3 DEF UInv, Typed, Held, Approved, Update!TypeOK, Answer, Numbers,
                      Update!FeedComes, Update!Answered
  <2>4. Tagged' /\ Update!AnswersTrue'
    <3>1. PICK t \in BOOLEAN : Update!FeedComes(c, t)
      BY <1>3
    <3>2. /\ cache' = cache
          /\ untagged' = (untagged \/ ~t)
          /\ caller[c] = "wait"
          /\ \A d \in Callers : d # c => got'[d] = got[d] /\ caller'[d] = caller[d]
          /\ got'[c] = [status |-> 200, feed |-> served, etag |-> IF t THEN served ELSE 0,
                       of |-> served]
      BY <3>1 DEF UInv, Typed, Update!FeedComes, Update!Answered
    <3>3. untagged => untagged'
      BY <3>2
    <3>4. got'[c].feed = served /\ got'[c].of = served /\ (t => got'[c].etag = served)
      BY <3>2
    <3>5. ~untagged' => t
      BY <3>2
    <3>6. Update!AnswersTrue'
      BY <3>2, <3>3, <3>4 DEF UInv, Update!AnswersTrue
    <3>7. Tagged'
      BY <1>0, <3>2, <3>3, <3>4, <3>5 DEF UInv, Tagged, Update!HasBody, Update!Tag
    <3> QED
      BY <3>6, <3>7
  <2>5. Said' /\ Update!CheckingEnds'
    BY <1>0, <1>3 DEF UInv, Typed, Held, Said, Update!CheckingEnds, Update!TypeOK,
                      Update!FeedComes, Update!Answered
  <2> QED
    BY <2>1, <2>2, <2>3, <2>4, <2>5 DEF UInv
<1>4. CASE Update!NotModified(c)
  <2>1. Typed'
    BY <1>0, <1>4 DEF UInv, Typed, Numbers, Answer, Update!TypeOK, Update!NotModified,
                      Update!Answered
  <2>2. Held'
    BY <1>0, <1>4 DEF UInv, Typed, Held, Update!TypeOK, Update!NotModified,
                      Update!Answered
  <2>3. Approved'
    BY <1>0, <1>4 DEF UInv, Typed, Held, Approved, Update!TypeOK, Answer, Numbers,
                      Update!NotModified, Update!Answered
  <2>4. Tagged' /\ Update!AnswersTrue'
    BY <1>0, <1>4 DEF UInv, Typed, Held, Tagged, Update!AnswersTrue, Update!TypeOK,
                      Update!HasBody, Update!Tag, Answer, Numbers, Update!NotModified,
                      Update!Answered
  <2>5. Said' /\ Update!CheckingEnds'
    BY <1>0, <1>4 DEF UInv, Typed, Held, Said, Update!CheckingEnds, Update!TypeOK,
                      Update!NotModified, Update!Answered
  <2> QED
    BY <2>1, <2>2, <2>3, <2>4, <2>5 DEF UInv
<1>5. CASE Update!NotFound(c)
  <2>1. Typed'
    BY <1>0, <1>5 DEF UInv, Typed, Numbers, Answer, Update!TypeOK, Update!NotFound,
                      Update!Answered
  <2>2. Held'
    BY <1>0, <1>5 DEF UInv, Typed, Held, Update!TypeOK, Update!NotFound, Update!Answered
  <2>3. Approved'
    BY <1>0, <1>5 DEF UInv, Typed, Held, Approved, Update!TypeOK, Answer, Numbers,
                      Update!NotFound, Update!Answered
  <2>4. Tagged' /\ Update!AnswersTrue'
    BY <1>0, <1>5 DEF UInv, Typed, Held, Tagged, Update!AnswersTrue, Update!TypeOK,
                      Update!HasBody, Update!Tag, Answer, Numbers, Update!NotFound,
                      Update!Answered
  <2>5. Said' /\ Update!CheckingEnds'
    BY <1>0, <1>5 DEF UInv, Typed, Held, Said, Update!CheckingEnds, Update!TypeOK,
                      Update!NotFound, Update!Answered
  <2> QED
    BY <2>1, <2>2, <2>3, <2>4, <2>5 DEF UInv
<1>6. CASE Update!FetchFails(c) \/ Update!FetchOdd(c) \/ Update!Deadline(c)
  <2>1. Typed'
    BY <1>0, <1>6 DEF UInv, Typed, Numbers, Answer, Update!TypeOK, Update!FetchFails,
                      Update!FetchOdd, Update!Deadline
  <2>2. Held'
    BY <1>0, <1>6 DEF UInv, Typed, Held, Update!TypeOK, Update!FetchFails,
                      Update!FetchOdd, Update!Deadline
  <2>3. Approved'
    BY <1>0, <1>6 DEF UInv, Typed, Held, Approved, Update!TypeOK, Answer, Numbers,
                      Update!FetchFails, Update!FetchOdd, Update!Deadline
  <2>4. Tagged' /\ Update!AnswersTrue'
    BY <1>0, <1>6 DEF UInv, Typed, Held, Tagged, Update!AnswersTrue, Update!TypeOK,
                      Update!HasBody, Update!Tag, Answer, Numbers, Update!FetchFails,
                      Update!FetchOdd, Update!Deadline
  <2>5. Said' /\ Update!CheckingEnds'
    BY <1>0, <1>6 DEF UInv, Typed, Held, Said, Update!CheckingEnds, Update!TypeOK,
                      Update!FetchFails, Update!FetchOdd, Update!Deadline
  <2> QED
    BY <2>1, <2>2, <2>3, <2>4, <2>5 DEF UInv
<1>7. CASE Update!SetError(c)
  <2>1. Typed'
    BY <1>0, <1>7 DEF UInv, Typed, Numbers, Answer, Update!TypeOK, Update!SetError,
                      Update!Failed, Update!Cached, Update!Says, Update!HasBody
  <2>2. Held'
    BY <1>0, <1>7 DEF UInv, Typed, Held, Update!TypeOK, Update!SetError, Update!Failed,
                      Update!Cached, Update!Says, Update!HasBody
  <2>3. Approved'
    BY <1>0, <1>7 DEF UInv, Typed, Held, Approved, Update!TypeOK, Answer, Numbers,
                      Update!SetError, Update!Failed, Update!Cached, Update!Says,
                      Update!HasBody
  <2>4. Tagged' /\ Update!AnswersTrue'
    BY <1>0, <1>7 DEF UInv, Typed, Held, Tagged, Update!AnswersTrue, Update!TypeOK,
                      Update!HasBody, Update!Tag, Answer, Numbers, Update!SetError,
                      Update!Failed, Update!Cached, Update!Says
  <2>5. Said' /\ Update!CheckingEnds'
    BY <1>0, <1>7 DEF UInv, Typed, Held, Said, Update!CheckingEnds, Update!TypeOK,
                      Update!SetError, Update!Failed, Update!Cached, Update!Says,
                      Update!HasBody
  <2> QED
    BY <2>1, <2>2, <2>3, <2>4, <2>5 DEF UInv
<1>8. CASE Update!Unpublished(c)
  <2>1. Typed'
    BY <1>0, <1>8 DEF UInv, Typed, Numbers, Answer, Update!TypeOK, Update!Unpublished,
                      Update!Says
  <2>2. Held'
    BY <1>0, <1>8 DEF UInv, Typed, Held, Update!TypeOK, Update!Unpublished, Update!Says
  <2>3. Approved'
    BY <1>0, <1>8 DEF UInv, Typed, Held, Approved, Update!TypeOK, Answer, Numbers,
                      Update!Unpublished, Update!Says
  <2>4. Tagged' /\ Update!AnswersTrue'
    BY <1>0, <1>8 DEF UInv, Typed, Held, Tagged, Update!AnswersTrue, Update!TypeOK,
                      Update!HasBody, Update!Tag, Answer, Numbers, Update!Unpublished,
                      Update!Says
  <2>5. Said' /\ Update!CheckingEnds'
    BY <1>0, <1>8 DEF UInv, Typed, Held, Said, Update!CheckingEnds, Update!TypeOK,
                      Update!Unpublished, Update!Says
  <2> QED
    BY <2>1, <2>2, <2>3, <2>4, <2>5 DEF UInv
<1>9. CASE Update!Accept(c)
  <2>1. Typed'
    BY <1>0, <1>9 DEF UInv, Typed, Numbers, Answer, Update!TypeOK, Update!Accept,
                      Update!Cached, Update!Says, Update!EvaluateFeed, Update!HasBody,
                      Update!Tag
  <2>2. Held'
    BY <1>0, <1>9 DEF UInv, Typed, Held, Update!TypeOK, Update!Accept, Update!Cached,
                      Update!Says, Update!EvaluateFeed, Update!HasBody, Update!Tag
  <2>3. Approved'
    BY <1>0, <1>9 DEF UInv, Typed, Held, Approved, Update!TypeOK, Answer, Numbers,
                      Update!Accept, Update!Cached, Update!Says, Update!EvaluateFeed,
                      Update!HasBody, Update!Tag
  <2>4. Tagged' /\ Update!AnswersTrue'
    BY <1>0, <1>9 DEF UInv, Typed, Held, Tagged, Update!AnswersTrue, Update!TypeOK,
                      Update!HasBody, Update!Tag, Answer, Numbers, Update!Accept,
                      Update!Cached, Update!Says, Update!EvaluateFeed
  <2>5. Said' /\ Update!CheckingEnds'
    BY <1>0, <1>9 DEF UInv, Typed, Held, Said, Update!CheckingEnds, Update!TypeOK,
                      Update!Accept, Update!Cached, Update!Says, Update!EvaluateFeed,
                      Update!HasBody, Update!Tag
  <2> QED
    BY <2>1, <2>2, <2>3, <2>4, <2>5 DEF UInv
<1>10. CASE Update!HostCheck(c) \/ Update!HostRefuses(c)
  <2>1. Typed'
    BY <1>0, <1>10 DEF UInv, Typed, Numbers, Answer, Update!TypeOK, Update!HostCheck,
                       Update!HostRefuses
  <2>2. Held'
    BY <1>0, <1>10 DEF UInv, Typed, Held, Update!TypeOK, Update!HostCheck,
                       Update!HostRefuses
  <2>3. Approved'
    BY <1>0, <1>10 DEF UInv, Typed, Held, Approved, Update!TypeOK, Answer, Numbers,
                       Update!HostCheck, Update!HostRefuses
  <2>4. Tagged' /\ Update!AnswersTrue'
    BY <1>0, <1>10 DEF UInv, Typed, Held, Tagged, Update!AnswersTrue, Update!TypeOK,
                       Update!HasBody, Update!Tag, Answer, Numbers, Update!HostCheck,
                       Update!HostRefuses
  <2>5. Said' /\ Update!CheckingEnds'
    BY <1>0, <1>10 DEF UInv, Typed, Held, Said, Update!CheckingEnds, Update!TypeOK,
                       Update!HostCheck, Update!HostRefuses
  <2> QED
    BY <2>1, <2>2, <2>3, <2>4, <2>5 DEF UInv
<1>11. CASE Update!Release(c)
  <2>1. Typed'
    BY <1>0, <1>11 DEF UInv, Typed, Numbers, Answer, Update!TypeOK, Update!Release,
                       Update!NoAnswer
  <2>2. Held'
    BY <1>0, <1>11 DEF UInv, Typed, Held, Update!TypeOK, Update!Release, Update!NoAnswer
  <2>3. Approved'
    BY <1>0, <1>11 DEF UInv, Typed, Held, Approved, Update!TypeOK, Answer, Numbers,
                       Update!Release, Update!NoAnswer
  <2>4. Tagged' /\ Update!AnswersTrue'
    BY <1>0, <1>11 DEF UInv, Typed, Held, Tagged, Update!AnswersTrue, Update!TypeOK,
                       Update!HasBody, Update!Tag, Answer, Numbers, Update!Release,
                       Update!NoAnswer
  <2>5. Said' /\ Update!CheckingEnds'
    BY <1>0, <1>11 DEF UInv, Typed, Held, Said, Update!CheckingEnds, Update!TypeOK,
                       Update!Release, Update!NoAnswer
  <2> QED
    BY <2>1, <2>2, <2>3, <2>4, <2>5 DEF UInv
<1>12. CASE Update!HostInstall(c) \/ Update!InstallRefused(c)
  <2>1. Typed'
    BY <1>0, <1>12 DEF UInv, Typed, Held, Numbers, Answer, Update!TypeOK, Update!HostInstall,
                       Update!InstallRefused
  <2>2. Held'
    BY <1>0, <1>12 DEF UInv, Typed, Held, Update!TypeOK, Update!HostInstall,
                       Update!InstallRefused
  <2>3. Approved'
    BY <1>0, <1>12 DEF UInv, Typed, Held, Approved, Update!TypeOK, Answer, Numbers,
                       Update!HostInstall, Update!InstallRefused
  <2>4. Tagged' /\ Update!AnswersTrue'
    BY <1>0, <1>12 DEF UInv, Typed, Held, Tagged, Update!AnswersTrue, Update!TypeOK,
                       Update!HasBody, Update!Tag, Answer, Numbers, Update!HostInstall,
                       Update!InstallRefused
  <2>5. Said' /\ Update!CheckingEnds'
    BY <1>0, <1>12 DEF UInv, Typed, Held, Said, Update!CheckingEnds, Update!TypeOK,
                       Update!HostInstall, Update!InstallRefused
  <2> QED
    BY <2>1, <2>2, <2>3, <2>4, <2>5 DEF UInv
<1> QED
  BY <1>1, <1>2, <1>3, <1>4, <1>5, <1>6, <1>7, <1>8, <1>9, <1>10, <1>11, <1>12 DEF Update!CheckStep

LEMMA AsideStep ==
  ASSUME Update!ConstantsSound, UInv,
         \/ Update!WorkerEnds \/ Update!CandidateExpires \/ Update!DayPasses
         \/ \E f \in Numbers : Update!FeedChanges(f)
         \/ UNCHANGED Update!vars
  PROVE  UInv'
<1> USE DEF Update!world, Update!locks, Update!host
<1>1. /\ cache'.feed = cache.feed /\ cache'.etag = cache.etag /\ cache'.result = cache.result
      /\ served' \in Numbers
      /\ candidate' \in {0, candidate}
      /\ UNCHANGED <<hosted, product, untagged, shown, lock, hostLock, caller, got, odd,
                     approval, installed, body>>
  BY DEF UInv, Typed, Update!WorkerEnds, Update!CandidateExpires, Update!DayPasses,
         Update!FeedChanges, Update!Cached, Update!vars
<1>2. Typed'
  BY <1>1 DEF UInv, Typed, Update!TypeOK, Numbers
<1>3. Held' /\ Approved' /\ Said' /\ Update!AnswersTrue' /\ Update!CheckingEnds'
  BY <1>1 DEF UInv, Held, Approved, Said, Update!AnswersTrue, Update!CheckingEnds
<1>4. Tagged'
  BY <1>1 DEF UInv, Tagged, Update!HasBody, Update!Tag
<1> QED
  BY <1>2, <1>3, <1>4 DEF UInv

LEMMA RestartStep ==
  ASSUME Update!ConstantsSound, UInv, NEW v \in Versions, Update!Restart(v)
  PROVE  UInv'
<1> USE DEF Checking, Update!Restart, Update!NoAnswer
<1>1. Typed' /\ shown'.status # "checking"
  BY DEF UInv, Typed, Update!TypeOK, Numbers, Answer, Update!Loaded, Update!Says
<1>2. Held' /\ Approved' /\ Update!AnswersTrue'
  BY DEF Held, Approved, Update!AnswersTrue, Update!ConstantsSound
<1>3. Tagged'
  BY DEF UInv, Tagged, Update!HasBody, Update!Tag
<1>4. Said' /\ Update!CheckingEnds'
  BY <1>1 DEF Said, Update!CheckingEnds
<1> QED
  BY <1>1, <1>2, <1>3, <1>4 DEF UInv

LEMMA UStep ==
  ASSUME Update!ConstantsSound, UInv, [Update!Next]_(Update!vars) PROVE UInv'
BY AskStep, CheckStep, AsideStep, RestartStep DEF Update!Next, Numbers

(* What a check takes for the feed is the one that was served, under any   *)
(* ETags, caches and answers that nothing has changed; and the page says   *)
(* checking only while one runs (update_service.py).                       *)
THEOREM ChecksAreTold ==
  ASSUME Update!ConstantsSound
  PROVE  Update!Spec => []ChecksTold
<1>1. Update!Init => UInv
  BY UInitially
<1>2. UInv /\ [Update!Next]_(Update!vars) => UInv'
  BY UStep
<1>3. UInv => ChecksTold
  BY DEF UInv, Typed, ChecksTold, Update!ChecksTold
<1> QED
  BY <1>1, <1>2, <1>3, PTL DEF Update!Spec

(* What the host installs is the version the last check has accepted,      *)
(* whatever candidates, checks, failures and restarts come between; and a  *)
(* check that fails leaves the last good feed in the cache.                *)
THEOREM FeedIsInstalled ==
  ASSUME Update!ConstantsSound
  PROVE  Update!Spec => FeedInstalled
<1>1. Update!Init => UInv
  BY UInitially
<1>2. UInv /\ [Update!Next]_(Update!vars) => UInv'
  BY UStep
<1>3. UInv /\ [Update!Next]_(Update!vars)
        => (installed' # installed /\ installed' # 0 => installed' = body)
  <2> SUFFICES ASSUME UInv, [Update!Next]_(Update!vars), installed' # installed, installed' # 0
               PROVE  installed' = body
    OBVIOUS
  <2>1. PICK c \in Callers : Update!HostInstall(c)
    BY DEF Update!Next, Update!CheckStep, Update!vars, Update!host, Update!CheckForUpdates,
           Update!InstallUpdate, Update!Begin, Update!Fetch, Update!FeedComes,
           Update!NotModified, Update!NotFound, Update!FetchFails, Update!FetchOdd,
           Update!Deadline, Update!SetError, Update!Unpublished, Update!Accept,
           Update!HostCheck, Update!HostRefuses, Update!Release, Update!InstallRefused,
           Update!WorkerEnds, Update!CandidateExpires, Update!DayPasses, Update!FeedChanges,
           Update!Restart
  <2> QED
    BY <2>1 DEF UInv, Approved, Update!HostInstall
<1>4. UInv /\ [Update!Next]_(Update!vars)
        => (cache' # cache /\ cache'.result = "error"
              => cache'.feed = cache.feed /\ cache'.etag = cache.etag)
  <2> SUFFICES ASSUME [Update!Next]_(Update!vars), cache' # cache, cache'.result = "error"
               PROVE  cache'.feed = cache.feed /\ cache'.etag = cache.etag
    OBVIOUS
  <2>1. \/ Update!DayPasses
        \/ \E c \in Callers : Update!SetError(c) \/ Update!Accept(c)
    BY DEF Update!Next, Update!CheckStep, Update!vars, Update!host, Update!CheckForUpdates,
           Update!InstallUpdate, Update!Begin, Update!Fetch, Update!FeedComes,
           Update!NotModified, Update!NotFound, Update!FetchFails, Update!FetchOdd,
           Update!Deadline, Update!Unpublished, Update!HostCheck, Update!HostRefuses,
           Update!Release, Update!HostInstall, Update!InstallRefused, Update!WorkerEnds,
           Update!CandidateExpires, Update!FeedChanges, Update!Restart
  <2>2. ~\E c \in Callers : Update!Accept(c)
    BY DEF Update!Accept, Update!Cached, Update!EvaluateFeed
  <2> QED
    BY <2>1, <2>2 DEF Update!DayPasses, Update!SetError, Update!Failed, Update!Cached
<1> QED
  BY <1>1, <1>2, <1>3, <1>4, PTL
  DEF Update!Spec, FeedInstalled, Update!FeedInstalled, Update!InstallApproved, Update!FeedKept
=============================================================================
