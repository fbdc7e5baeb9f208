---------------------------- MODULE Pages_proofs ----------------------------
(***************************************************************************)
(* Proofs about the pages of invoices and documents: the batch rename      *)
(* (RenameBatch), the index of documents (DocumentIndex), the documents an *)
(* export writes (DocumentExport) and the invoices ticked in the list      *)
(* (InvoiceSelection), for any contents, changes and faults.               *)
(***************************************************************************)
EXTENDS RenameBatch, Pages, Sequences, Sums, WellFoundedInduction, TLAPS

Places == {"none", "begin", "read", "reread", "discover", "look", "extract", "check", "store",
           "publish", "ready", "gone"}
WorkerSet == [pc : Places, scope : Scopes \cup {Absent}, before : Nat, print : Nat, record : Nat]

Typed ==
  /\ csv \in Nat \ {0} /\ csv <= changes + 1
  /\ versions \in [Scopes -> Nat \ {0}] /\ \A s \in Scopes : versions[s] <= 2 * changes + 1
  /\ changes \in 0..MaxChanges
  /\ scope \in Scopes \cup {Absent} /\ job \in Index!Jobs \cup {0} /\ (job # 0 <=> scope # Absent)
  /\ signature \in 0..csv
  /\ last \in [job : Nat, state : Index!States] /\ catalog \in [job : Nat, items : Nat]
  /\ statusFile \in [Scopes -> [job : Nat, state : Index!States]]
  /\ inbound \in [Scopes -> [print : Nat, items : Nat]]
  /\ outbound \in [Scopes -> [job : Nat, items : Nat]]
  /\ rows \in [Scopes -> [print : Nat, record : Nat, seen : Nat]]
  /\ worker \in [Index!Jobs -> WorkerSet]
  /\ call \in [pc : {"none", "status", "inbound", "outbound"}, state : Index!States, inb : Nat]
  /\ answer \in [job : Nat, state : Index!States, inb : Nat, out : Nat]
  /\ began \in [Index!Jobs -> Nat] /\ withdrawn \subseteq Index!Jobs

(* Jobs are numbered from 1 without a gap.                                 *)
Numbered == \E n \in 0..MaxJobs : \A j \in Index!Jobs : worker[j].pc # "none" <=> j <= n

(* The version a document was read from, of a job that began at start.     *)
ReadSince(start, v) == Index!Exists(v) /\ v >= start

(* What a worker has read is what it says, as far as nothing has changed,  *)
(* and what its last look has confirmed.                                   *)
Working(j) ==
  LET w == worker[j]
  IN /\ w.scope \in Scopes /\ began[j] <= versions[w.scope]
     /\ w.pc = "read" => w.before <= csv
     /\ w.pc = "reread" => w.before <= w.record /\ w.record <= csv
     /\ w.pc = "extract" => began[j] <= w.print /\ w.print <= versions[w.scope] /\ w.record = 0
     /\ w.pc = "check" => /\ began[j] <= w.print /\ w.print <= w.record
                          /\ w.record <= versions[w.scope] /\ Index!Exists(w.record)
     /\ w.pc = "store" => w.record = w.print /\ ReadSince(began[j], w.record)
     /\ w.pc = "publish" => w.record = 0 \/ ReadSince(began[j], w.record)

Workers == \A j \in Index!Jobs : Index!Alive(j) => Working(j)

(* What the files of a folder say.                                         *)
IndexFiles ==
  \A s \in Scopes :
     /\ inbound[s].items = inbound[s].print
     /\ rows[s].record = rows[s].print /\ (rows[s].print # 0 => Index!Exists(rows[s].print))
     /\ outbound[s].items # 0 =>
          /\ outbound[s].job \in Index!Jobs /\ worker[outbound[s].job].pc # "none"
          /\ ReadSince(began[outbound[s].job], outbound[s].items)

(* What the server holds of the present job.                               *)
Held ==
  /\ catalog.job \in {0, job}
  /\ catalog.items # 0 => job # 0 /\ catalog.job = job /\ ReadSince(began[job], catalog.items)
  /\ job # 0 => worker[job].pc # "none"
  /\ job # 0 /\ Index!Alive(job) => worker[job].scope = scope
  /\ call.pc # "none" => job # 0
  /\ call.pc = "outbound" /\ call.inb # 0 => call.inb = signature

(* A job that was cancelled is over, and its status says so.               *)
Cancelled ==
  /\ \A s \in Scopes :
       /\ statusFile[s].job # 0 =>
             statusFile[s].job \in Index!Jobs /\ worker[statusFile[s].job].pc # "none"
       /\ statusFile[s].job # 0 /\ statusFile[s].job = job => s = scope
       /\ statusFile[s].job \in withdrawn => statusFile[s].state = "cancelled"
  /\ \A j \in withdrawn : worker[j].pc = "gone"

Inv == Typed /\ Numbered /\ Workers /\ IndexFiles /\ Held /\ Cancelled /\ Index!AnswerTrue

-----------------------------------------------------------------------------
LEMMA NoWorkerTyped == Index!NoWorker \in WorkerSet
BY DEF Index!NoWorker, Index!Worker, WorkerSet, Places

(* Bounds that grow with the number of changes; the next number.           *)
LEMMA Later ==
  ASSUME NEW c \in Nat, NEW d \in Nat, c <= d, NEW v \in Nat
  PROVE  (v <= c + 1 => v <= d + 1) /\ (v <= 2 * c + 1 => v <= 2 * d + 1)
OBVIOUS

LEMMA NextNumber ==
  ASSUME NEW u \in Nat, NEW k \in Nat, k # u + 1
  PROVE  k <= u + 1 <=> k <= u
OBVIOUS

LEMMA Initially == ASSUME Index!ConstantsSound, Index!Init PROVE Inv
<1> USE DEF Index!ConstantsSound, Index!Init
<1>1. Typed
  <2>1. worker \in [Index!Jobs -> WorkerSet]
    <3>1. Index!NoWorker \in WorkerSet
      BY NoWorkerTyped
    <3>2. worker = [j \in Index!Jobs |-> Index!NoWorker]
      OBVIOUS
    <3> QED
      BY <3>1, <3>2
  <2>2. /\ statusFile \in [Scopes -> [job : Nat, state : Index!States]]
        /\ inbound \in [Scopes -> [print : Nat, items : Nat]]
        /\ outbound \in [Scopes -> [job : Nat, items : Nat]]
        /\ rows \in [Scopes -> [print : Nat, record : Nat, seen : Nat]]
    BY DEF Index!NoStatus, Index!NoCatalog, Index!NoRow, Index!States
  <2>3. /\ call \in [pc : {"none", "status", "inbound", "outbound"}, state : Index!States, inb : Nat]
        /\ answer \in [job : Nat, state : Index!States, inb : Nat, out : Nat]
        /\ last \in [job : Nat, state : Index!States] /\ catalog \in [job : Nat, items : Nat]
    BY DEF Index!NoStatus, Index!NoCatalog, Index!NoCall, Index!NewCall, Index!NoAnswer,
           Index!States
  <2>4. /\ csv \in Nat \ {0} /\ csv <= changes + 1 /\ changes \in 0..MaxChanges
        /\ scope \in Scopes \cup {Absent} /\ job \in Index!Jobs \cup {0} /\ (job # 0 <=> scope # Absent)
        /\ signature \in 0..csv
    OBVIOUS
  <2>5. versions \in [Scopes -> Nat \ {0}] /\ \A s \in Scopes : versions[s] <= 2 * changes + 1
    OBVIOUS
  <2>6. began \in [Index!Jobs -> Nat] /\ withdrawn \subseteq Index!Jobs
    OBVIOUS
  <2> QED
    BY <2>1, <2>2, <2>3, <2>4, <2>5, <2>6 DEF Typed
<1>2. Numbered
  <2>1. \A j \in Index!Jobs : worker[j].pc # "none" <=> j <= 0
    BY DEF Index!Jobs, Index!NoWorker, Index!Worker
  <2> QED
    BY <2>1 DEF Numbered
<1>3. Workers /\ IndexFiles /\ Held /\ Cancelled /\ Index!AnswerTrue
  BY DEF Workers, Index!Alive, IndexFiles, Held, Cancelled, Index!AnswerTrue, Index!NoStatus,
         Index!NoCatalog, Index!NoRow,
         Index!NoWorker, Index!Worker, Index!NoCall, Index!NewCall, Index!NoAnswer
<1> QED
  BY <1>1, <1>2, <1>3 DEF Inv

(* The index counts as everybody does.                                     *)
LEMMA SameCardinality == \A S : Index!Cardinality(S) = Cardinality(S)
BY DEF Index!Cardinality, Cardinality

(* A new job has a number of its own.                                      *)
LEMMA UsedIsLast ==
  ASSUME Index!ConstantsSound, NEW n \in 0..MaxJobs,
         \A j \in Index!Jobs : worker[j].pc # "none" <=> j <= n
  PROVE  Index!Used = n
<1>1. {j \in Index!Jobs : worker[j].pc # "none"} = 1..n
  BY DEF Index!Jobs, Index!ConstantsSound
<1>2. Cardinality(1..n) = n
  BY FS_Interval DEF Index!ConstantsSound
<1> QED
  BY <1>1, <1>2, SameCardinality DEF Index!Used

LEMMA NewJob ==
  ASSUME Index!ConstantsSound, Inv, Index!Used < MaxJobs
  PROVE  /\ Index!Used \in Nat /\ Index!Used + 1 \in Index!Jobs /\ worker[Index!Used + 1].pc = "none"
         /\ \A j \in Index!Jobs : worker[j].pc # "none" <=> j <= Index!Used
<1>1. PICK n \in 0..MaxJobs : \A j \in Index!Jobs : worker[j].pc # "none" <=> j <= n
  BY DEF Inv, Numbered
<1>2. Index!Used = n
  BY <1>1, UsedIsLast
<1> QED
  BY <1>1, <1>2 DEF Index!Jobs, Index!ConstantsSound

LEMMA StoppedIs ==
  ASSUME Index!ConstantsSound, Inv
  PROVE  /\ Index!Stopped \in [Index!Jobs -> WorkerSet]
         /\ \A j \in Index!Jobs : /\ j # job => Index!Stopped[j] = worker[j]
                                  /\ j = job => Index!Stopped[j].pc = "gone" /\ worker[j].pc # "none"
<1>0. 0 \notin Index!Jobs /\ worker \in [Index!Jobs -> WorkerSet]
  BY DEF Inv, Typed, Index!Jobs, Index!ConstantsSound
<1>1. CASE job = 0
  BY <1>0, <1>1 DEF Index!Stopped
<1>2. CASE job # 0
  <2> DEFINE ended == [worker[job] EXCEPT !.pc = "gone"]
  <2>1. job \in Index!Jobs /\ worker[job].pc # "none" /\ Index!Stopped = [worker EXCEPT ![job] = ended]
    BY <1>2 DEF Inv, Typed, Held, Index!Stopped
  <2>2. ended \in WorkerSet /\ ended.pc = "gone"
    BY <1>0, <2>1 DEF WorkerSet, Places
  <2> HIDE DEF ended
  <2> QED
    BY <1>0, <2>1, <2>2
<1> QED
  BY <1>1, <1>2

-----------------------------------------------------------------------------
(* The worker of a job.                                                    *)

(* What a step of the worker of job j leaves alone.                        *)
Moves(j) ==
  /\ worker' \in [Index!Jobs -> WorkerSet] /\ \A i \in Index!Jobs \ {j} : worker'[i] = worker[i]
  /\ worker'[j].pc # "none" /\ worker'[j].scope = worker[j].scope
  /\ UNCHANGED <<csv, versions, Index!server, call, answer, Index!ghosts>>

LEMMA MovesLeave ==
  ASSUME Index!ConstantsSound, Inv, NEW j \in Index!Jobs, Index!Alive(j), Moves(j)
  PROVE  /\ Numbered' /\ Held' /\ Index!AnswerTrue'
         /\ \A i \in Index!Jobs \ {j} : Index!Alive(i)' => Working(i)'
         /\ j \notin withdrawn /\ worker[j].scope \in Scopes
         /\ \A i \in Index!Jobs : worker[i].pc # "none" => worker'[i].pc # "none"
<1> USE DEF Moves, Index!server, Index!ghosts, Index!Alive
<1>1. Numbered'
  <2>1. PICK n \in 0..MaxJobs : \A i \in Index!Jobs : worker[i].pc # "none" <=> i <= n
    BY DEF Inv, Numbered
  <2>2. \A i \in Index!Jobs : worker'[i].pc # "none" <=> i <= n
    BY <2>1
  <2> QED
    BY <2>2 DEF Numbered
<1>2. Held'
  BY DEF Inv, Typed, Held, ReadSince, Index!Exists
<1>3. Index!AnswerTrue'
  BY DEF Inv, Index!AnswerTrue
<1>4. \A i \in Index!Jobs \ {j} : Index!Alive(i)' => Working(i)'
  BY DEF Inv, Workers, Working, ReadSince, Index!Exists
<1>5. j \notin withdrawn /\ worker[j].scope \in Scopes
  BY DEF Inv, Cancelled, Workers, Working
<1> QED
  BY <1>1, <1>2, <1>3, <1>4, <1>5

LEMMA StatusStays ==
  ASSUME Index!ConstantsSound, Inv, NEW j \in Index!Jobs, Index!Alive(j), Moves(j),
         UNCHANGED statusFile
  PROVE  Cancelled'
BY MovesLeave DEF Inv, Typed, Cancelled, Moves, Index!server, Index!ghosts

LEMMA StatusWritten ==
  ASSUME Index!ConstantsSound, Inv, NEW j \in Index!Jobs, Index!Alive(j), Moves(j), NEW state,
         Index!Writes(j, state)
  PROVE  Cancelled'
<1> DEFINE said == [job |-> j, state |-> state]
<1>1. /\ statusFile'[worker[j].scope] = said /\ said.job = j
      /\ \A s \in Scopes \ {worker[j].scope} : statusFile'[s] = statusFile[s]
  BY MovesLeave DEF Inv, Typed, Index!Writes
<1>2. j = job => worker[j].scope = scope
  BY DEF Inv, Typed, Held, Index!Jobs, Index!ConstantsSound
<1> HIDE DEF said
<1>3. \A i \in withdrawn' : worker'[i].pc = "gone"
  BY MovesLeave DEF Inv, Typed, Cancelled, Moves, Index!ghosts
<1>4. ASSUME NEW s \in Scopes
      PROVE  /\ statusFile'[s].job # 0 =>
                  statusFile'[s].job \in Index!Jobs /\ worker'[statusFile'[s].job].pc # "none"
             /\ statusFile'[s].job # 0 /\ statusFile'[s].job = job' => s = scope'
             /\ statusFile'[s].job \in withdrawn' => statusFile'[s].state = "cancelled"
  <2>1. CASE s = worker[j].scope
    BY <1>1, <1>2, <2>1, MovesLeave DEF Moves, Index!server, Index!ghosts
  <2>2. CASE s # worker[j].scope
    BY <1>1, <2>2, MovesLeave DEF Inv, Cancelled, Moves, Index!server, Index!ghosts
  <2> QED
    BY <2>1, <2>2
<1> QED
  BY <1>3, <1>4 DEF Cancelled

LEMMA GoMoves ==
  ASSUME Index!ConstantsSound, Inv, NEW j \in Index!Jobs, NEW stage \in Places, Index!Go(j, stage)
  PROVE  /\ worker' \in [Index!Jobs -> WorkerSet] /\ \A i \in Index!Jobs \ {j} : worker'[i] = worker[i]
         /\ worker'[j].pc = stage /\ worker'[j].scope = worker[j].scope
         /\ worker'[j].record = worker[j].record
BY DEF Inv, Typed, Index!Go, WorkerSet

LEMMA StatusTyped ==
  ASSUME Index!ConstantsSound, Inv, NEW j \in Index!Jobs, Index!Alive(j),
         NEW state \in Index!States, Index!Writes(j, state)
  PROVE  statusFile' \in [Scopes -> [job : Nat, state : Index!States]]
<1> DEFINE said == [job |-> j, state |-> state]
<1>1. statusFile' = [statusFile EXCEPT ![worker[j].scope] = said]
  BY DEF Index!Writes
<1>2. said \in [job : Nat, state : Index!States]
  BY DEF Index!Jobs, Index!ConstantsSound
<1> HIDE DEF said
<1> QED
  BY <1>1, <1>2 DEF Inv, Typed

LEMMA FilesStay ==
  ASSUME Index!ConstantsSound, Inv, NEW j \in Index!Jobs, Index!Alive(j), Moves(j),
         UNCHANGED <<inbound, outbound, rows>>
  PROVE  IndexFiles'
BY MovesLeave DEF Inv, IndexFiles, Moves, Index!ghosts, ReadSince, Index!Exists

LEMMA LookStep ==
  ASSUME Index!ConstantsSound, Inv, NEW j \in Index!Jobs,
         \/ Index!ReadDetails(j) \/ Index!Look(j) \/ Index!Extract(j) \/ Index!CheckExtracted(j)
  PROVE  Inv'
<1> USE DEF Index!At
<1>1. Index!Alive(j) /\ Working(j)
  BY DEF Inv, Workers, Index!Alive, Index!ReadDetails, Index!Look, Index!Extract,
         Index!CheckExtracted, Index!Jobs, Index!ConstantsSound
<1>2. UNCHANGED <<Index!world, Index!server, Index!files, call, answer, Index!ghosts>>
  BY DEF Index!ReadDetails, Index!Look, Index!Extract, Index!CheckExtracted
<1>3. worker[j] \in WorkerSet /\ worker[j].scope \in Scopes
  BY <1>1 DEF Inv, Typed, Working
<1>4. Moves(j) /\ (Index!Alive(j)' => Working(j)')
  <2>1. CASE Index!ReadDetails(j)
    <3>1. worker' \in [Index!Jobs -> WorkerSet] /\ \A i \in Index!Jobs \ {j} : worker'[i] = worker[i]
      BY <2>1, <1>3 DEF Inv, Typed, Index!ReadDetails, WorkerSet, Places
    <3>2. /\ worker'[j].pc = "reread" /\ worker'[j].record = csv
          /\ worker'[j].scope = worker[j].scope /\ worker'[j].before = worker[j].before
      BY <2>1, <1>3 DEF Inv, Typed, Index!ReadDetails, WorkerSet
    <3> QED
      BY <1>1, <1>2, <2>1, <3>1, <3>2
      DEF Inv, Typed, Moves, Working, Index!world, Index!ghosts, Index!ReadDetails
  <2>2. CASE Index!Look(j)
    <3> DEFINE s == worker[j].scope
               known == rows[s].print = versions[s]
    <3>1. worker' \in [Index!Jobs -> WorkerSet] /\ \A i \in Index!Jobs \ {j} : worker'[i] = worker[i]
      BY <2>2, <1>3 DEF Inv, Typed, Index!Look, WorkerSet, Places
    <3>2. /\ worker'[j].pc = IF known THEN "store" ELSE "extract"
          /\ worker'[j].print = versions[s] /\ worker'[j].scope = s
          /\ worker'[j].record = IF known THEN rows[s].record ELSE 0
      BY <2>2, <1>3 DEF Inv, Typed, Index!Look, WorkerSet
    <3>3. known => rows[s].record = versions[s] /\ Index!Exists(versions[s])
      BY <1>3 DEF Inv, Typed, IndexFiles
    <3> QED
      BY <1>1, <1>2, <1>3, <2>2, <3>1, <3>2, <3>3
      DEF Inv, Typed, Moves, Working, ReadSince, Index!world, Index!ghosts
  <2>3. CASE Index!Extract(j)
    <3>1. worker' \in [Index!Jobs -> WorkerSet] /\ \A i \in Index!Jobs \ {j} : worker'[i] = worker[i]
      BY <2>3, <1>3 DEF Inv, Typed, Index!Extract, WorkerSet, Places
    <3>2. /\ worker'[j].scope = worker[j].scope /\ worker'[j].print = worker[j].print
          /\ \/ /\ worker'[j].pc = "check" /\ worker'[j].record = versions[worker[j].scope]
                /\ Index!Exists(versions[worker[j].scope])
             \/ worker'[j].pc = "publish" /\ worker'[j].record = worker[j].record
      BY <2>3, <1>3 DEF Inv, Typed, Index!Extract, WorkerSet
    <3> QED
      BY <1>1, <1>2, <1>3, <2>3, <3>1, <3>2
      DEF Inv, Typed, Moves, Working, ReadSince, Index!world, Index!ghosts, Index!Extract
  <2>4. CASE Index!CheckExtracted(j)
    <3>1. worker' \in [Index!Jobs -> WorkerSet] /\ \A i \in Index!Jobs \ {j} : worker'[i] = worker[i]
      BY <2>4, <1>3 DEF Inv, Typed, Index!CheckExtracted, WorkerSet, Places
    <3>2. /\ worker'[j].scope = worker[j].scope /\ worker'[j].print = worker[j].print
          /\ \/ /\ worker'[j].pc = "store" /\ worker'[j].record = worker[j].record
                /\ versions[worker[j].scope] = worker[j].print
             \/ worker'[j].pc = "publish" /\ worker'[j].record = 0
      BY <2>4, <1>3 DEF Inv, Typed, Index!CheckExtracted, WorkerSet, Index!Unchanged
    <3>3. /\ began[j] <= worker[j].print /\ worker[j].print <= worker[j].record
          /\ worker[j].record <= versions[worker[j].scope] /\ Index!Exists(worker[j].record)
      BY <1>1, <2>4 DEF Working, Index!CheckExtracted
    <3>4. /\ began[j] <= versions[worker[j].scope]
          /\ worker'[j].pc = "store" =>
                worker[j].record = worker[j].print /\ began[j] <= worker[j].record
      <4>1. began[j] <= versions[worker[j].scope]
        BY <1>1 DEF Working
      <4>2. worker[j].print \in Nat /\ worker[j].record \in Nat
        BY <1>3 DEF WorkerSet
      <4>3. began[j] \in Nat /\ versions[worker[j].scope] \in Nat
        BY <1>3 DEF Inv, Typed
      <4> QED
        BY <3>2, <3>3, <4>1, <4>2, <4>3
    <3>5. Moves(j)
      BY <1>2, <1>3, <3>1, <3>2 DEF Moves, Index!world
    <3>6. Working(j)'
      <4>1. worker'[j].scope \in Scopes /\ began'[j] <= versions'[worker'[j].scope]
        BY <1>2, <1>3, <3>2, <3>4 DEF Index!world, Index!ghosts
      <4>2. /\ worker'[j].pc \in {"store", "publish"}
            /\ worker'[j].pc = "publish" => worker'[j].record = 0
            /\ worker'[j].pc = "store" => /\ worker'[j].record = worker'[j].print
                                         /\ ReadSince(began'[j], worker'[j].record)
        BY <1>2, <3>2, <3>3, <3>4 DEF ReadSince, Index!ghosts
      <4> QED
        BY <4>1, <4>2 DEF Working
    <3> QED
      BY <3>5, <3>6
  <2> QED
    BY <2>1, <2>2, <2>3, <2>4
<1>5. Typed'
  BY <1>2, <1>4 DEF Inv, Typed, Moves, Index!world, Index!server, Index!files, Index!ghosts
<1>6. Numbered' /\ Held' /\ Index!AnswerTrue' /\ Workers'
  BY <1>1, <1>4, MovesLeave DEF Workers
<1>7. IndexFiles' /\ Cancelled'
  BY <1>1, <1>2, <1>4, FilesStay, StatusStays DEF Index!files
<1> QED
  BY <1>5, <1>6, <1>7 DEF Inv

(* A step that writes the state of its job.                                *)
LEMMA StateStep ==
  ASSUME Index!ConstantsSound, Inv, NEW j \in Index!Jobs,
         Index!Begin(j) \/ Index!Discover(j) \/ Index!Complete(j)
  PROVE  Inv'
<1> USE DEF Index!At
<1>1. Index!Alive(j) /\ Working(j)
  BY DEF Inv, Workers, Index!Alive, Index!Begin, Index!Discover, Index!Complete, Index!Jobs,
         Index!ConstantsSound
<1>2. /\ UNCHANGED <<Index!world, Index!server, inbound, outbound, rows, call, answer, Index!ghosts>>
      /\ \E state \in Index!States : Index!Writes(j, state)
  BY DEF Index!Begin, Index!Discover, Index!Complete, Index!Go, Index!States
<1>3. worker[j] \in WorkerSet /\ worker[j].scope \in Scopes
  BY <1>1 DEF Inv, Typed, Working
<1>4. Moves(j) /\ (Index!Alive(j)' => Working(j)')
  <2>1. worker' \in [Index!Jobs -> WorkerSet] /\ \A i \in Index!Jobs \ {j} : worker'[i] = worker[i]
    <3>1. CASE Index!Begin(j)
      BY <3>1, <1>3 DEF Inv, Typed, Index!Begin, WorkerSet, Places
    <3>2. CASE Index!Discover(j)
      BY <3>2, <1>3 DEF Inv, Typed, Index!Discover, WorkerSet, Places
    <3>3. CASE Index!Complete(j)
      BY <3>3, <1>3 DEF Inv, Typed, Index!Complete, Index!Go, WorkerSet, Places
    <3> QED
      BY <3>1, <3>2, <3>3
  <2>2. /\ worker'[j].scope = worker[j].scope
        /\ \/ worker'[j].pc \in {"discover", "read"} /\ worker'[j].before = csv
           \/ worker'[j].pc \in {"look", "publish"} /\ worker'[j].record = 0
           \/ worker'[j].pc = "gone"
    <3>1. CASE Index!Begin(j)
      BY <3>1, <1>3 DEF Inv, Typed, Index!Begin, WorkerSet
    <3>2. CASE Index!Discover(j)
      BY <3>2, <1>3 DEF Inv, Typed, Index!Discover, WorkerSet
    <3>3. CASE Index!Complete(j)
      BY <3>3, <1>3 DEF Inv, Typed, Index!Complete, Index!Go, WorkerSet
    <3> QED
      BY <3>1, <3>2, <3>3
  <2>3. Moves(j)
    BY <1>2, <2>1, <2>2 DEF Moves, Index!world
  <2>4. began'[j] <= versions'[worker'[j].scope] /\ worker'[j].scope \in Scopes
    BY <1>1, <1>2, <1>3, <2>2 DEF Working, Index!world, Index!ghosts
  <2>5. csv' = csv /\ csv \in Nat
    BY <1>2 DEF Index!world, Inv, Typed
  <2>6. Index!Alive(j)' => Working(j)'
    BY <2>2, <2>4, <2>5 DEF Working, Index!Alive
  <2> QED
    BY <2>3, <2>6
<1>5. Typed'
  <2>1. statusFile' \in [Scopes -> [job : Nat, state : Index!States]]
    BY <1>1, <1>2, StatusTyped
  <2> QED
    BY <1>2, <1>4, <2>1 DEF Inv, Typed, Moves, Index!world, Index!server, Index!ghosts
<1>6. Numbered' /\ Held' /\ Index!AnswerTrue' /\ Workers'
  BY <1>1, <1>4, MovesLeave DEF Workers
<1>7. IndexFiles' /\ Cancelled'
  BY <1>1, <1>2, <1>4, FilesStay, StatusWritten
<1> QED
  BY <1>5, <1>6, <1>7 DEF Inv

(* A step that writes a list, or a failure instead.                        *)
LEMMA KeepStep ==
  ASSUME Index!ConstantsSound, Inv, NEW j \in Index!Jobs, Index!KeepDetails(j)
  PROVE  Inv'
<1> USE DEF Index!At
<1>1. Index!Alive(j) /\ Working(j)
  BY DEF Inv, Workers, Index!Alive, Index!KeepDetails, Index!Jobs, Index!ConstantsSound
<1>3. worker[j] \in WorkerSet /\ worker[j].scope \in Scopes
  BY <1>1 DEF Inv, Typed, Working
<1>4. /\ worker' \in [Index!Jobs -> WorkerSet] /\ \A i \in Index!Jobs \ {j} : worker'[i] = worker[i]
      /\ worker'[j].scope = worker[j].scope /\ worker'[j].pc \in {"gone", "discover"}
  BY GoMoves DEF Index!KeepDetails, Index!Fails, Places
<1>5. UNCHANGED <<Index!world, Index!server, outbound, rows, call, answer, Index!ghosts>>
  BY DEF Index!KeepDetails, Index!Fails
<1>6. Moves(j)
  BY <1>4, <1>5 DEF Moves, Index!world
<1>7. Working(j)'
  BY <1>1, <1>4, <1>5 DEF Working, Index!world, Index!ghosts
<1>8. /\ \A s \in Scopes : inbound'[s].items = inbound'[s].print
      /\ inbound' \in [Scopes -> [print : Nat, items : Nat]]
  <2>1. CASE UNCHANGED inbound
    BY <2>1 DEF Inv, IndexFiles, Typed
  <2>2. CASE ~UNCHANGED inbound
    <3> DEFINE new == [print |-> worker[j].before, items |-> worker[j].record]
    <3>1. inbound' = [inbound EXCEPT ![worker[j].scope] = new] /\ csv = worker[j].before
      BY <2>2 DEF Index!KeepDetails, Index!Fails, Index!Unchanged
    <3>2. worker[j].before \in Nat /\ worker[j].record \in Nat /\ csv \in Nat
      BY <1>3 DEF WorkerSet, Inv, Typed
    <3>3. worker[j].before <= worker[j].record /\ worker[j].record <= csv
      BY <1>1 DEF Working, Index!KeepDetails
    <3>4. new.items = new.print /\ new \in [print : Nat, items : Nat]
      BY <3>1, <3>2, <3>3
    <3> HIDE DEF new
    <3> QED
      BY <3>1, <3>4 DEF Inv, Typed, IndexFiles
  <2> QED
    BY <2>1, <2>2
<1>9. Typed'
  <2>1. statusFile' \in [Scopes -> [job : Nat, state : Index!States]]
    <3>1. statusFile' = statusFile \/ Index!Writes(j, "failed")
      BY DEF Index!KeepDetails, Index!Fails
    <3> QED
      BY <1>1, <3>1, StatusTyped DEF Inv, Typed, Index!States
  <2> QED
    BY <1>4, <1>5, <1>8, <2>1 DEF Inv, Typed, Index!world, Index!server, Index!ghosts
<1>10. Numbered' /\ Held' /\ Index!AnswerTrue' /\ Workers'
  BY <1>1, <1>6, <1>7, MovesLeave DEF Workers
<1>11. IndexFiles'
  BY <1>1, <1>5, <1>6, <1>8, MovesLeave DEF Inv, Typed, IndexFiles, Index!ghosts, ReadSince,
                                            Index!Exists
<1>12. Cancelled'
  BY <1>1, <1>6, StatusStays, StatusWritten DEF Index!KeepDetails, Index!Fails
<1> QED
  BY <1>9, <1>10, <1>11, <1>12 DEF Inv

LEMMA StoreStep ==
  ASSUME Index!ConstantsSound, Inv, NEW j \in Index!Jobs, Index!Store(j) \/ Index!Publish(j)
  PROVE  Inv'
<1> USE DEF Index!At
<1>1. Index!Alive(j) /\ Working(j)
  BY DEF Inv, Workers, Index!Alive, Index!Store, Index!Publish, Index!Jobs, Index!ConstantsSound
<1>2. UNCHANGED <<Index!world, Index!server, statusFile, inbound, call, answer, Index!ghosts>>
  BY DEF Index!Store, Index!Publish
<1>3. /\ worker[j] \in WorkerSet /\ worker[j].scope \in Scopes
      /\ worker[j].print \in Nat /\ worker[j].record \in Nat
  BY <1>1 DEF Inv, Typed, Working, WorkerSet
<1>4. /\ worker' \in [Index!Jobs -> WorkerSet] /\ \A i \in Index!Jobs \ {j} : worker'[i] = worker[i]
      /\ worker'[j].scope = worker[j].scope /\ worker'[j].record = worker[j].record
      /\ \/ worker'[j].pc = "publish" /\ worker[j].pc = "store"
         \/ worker'[j].pc = "ready"
  BY GoMoves DEF Index!Store, Index!Publish, Places
<1>5. Moves(j)
  BY <1>2, <1>4 DEF Moves, Index!world
<1>6. Working(j)'
  BY <1>1, <1>2, <1>4 DEF Working, Index!world, Index!ghosts
<1>7. /\ rows' \in [Scopes -> [print : Nat, record : Nat, seen : Nat]]
      /\ \A s \in Scopes : /\ rows'[s].record = rows'[s].print
                           /\ rows'[s].print # 0 => Index!Exists(rows'[s].print)
  <2>1. CASE Index!Store(j)
    <3> DEFINE new == [print |-> worker[j].print, record |-> worker[j].record, seen |-> j]
    <3>1. rows' = [rows EXCEPT ![worker[j].scope] = new]
      BY <2>1 DEF Index!Store
    <3>2. /\ new \in [print : Nat, record : Nat, seen : Nat]
          /\ new.record = new.print /\ Index!Exists(new.print)
      BY <1>1, <1>3, <2>1 DEF Working, ReadSince, Index!Store, Index!Jobs, Index!ConstantsSound
    <3> HIDE DEF new
    <3> QED
      BY <3>1, <3>2, <1>3 DEF Inv, Typed, IndexFiles
  <2>2. CASE Index!Publish(j)
    <3> DEFINE s0 == worker[j].scope
               new == IF rows[s0].seen = j THEN rows[s0] ELSE Index!NoRow
    <3>1. rows' = [rows EXCEPT ![s0] = new]
      BY <2>2 DEF Index!Publish
    <3>2. /\ new \in [print : Nat, record : Nat, seen : Nat]
          /\ new.record = new.print /\ (new.print # 0 => Index!Exists(new.print))
      BY <1>3 DEF Index!NoRow, Inv, Typed, IndexFiles
    <3> HIDE DEF new
    <3> QED
      BY <3>1, <3>2, <1>3 DEF Inv, Typed, IndexFiles
  <2> QED
    BY <2>1, <2>2
<1>8. /\ outbound' \in [Scopes -> [job : Nat, items : Nat]]
      /\ \A s \in Scopes : outbound'[s].items # 0 =>
           /\ outbound'[s].job \in Index!Jobs /\ worker'[outbound'[s].job].pc # "none"
           /\ ReadSince(began[outbound'[s].job], outbound'[s].items)
  <2>1. CASE Index!Store(j)
    BY <1>1, <1>5, <2>1, MovesLeave DEF Index!Store, Inv, Typed, IndexFiles
  <2>2. CASE Index!Publish(j)
    <3> DEFINE new == [job |-> j, items |-> worker[j].record]
    <3>1. outbound' = [outbound EXCEPT ![worker[j].scope] = new]
      BY <2>2 DEF Index!Publish
    <3>2. /\ new \in [job : Nat, items : Nat] /\ new.job = j
          /\ new.items # 0 => ReadSince(began[j], new.items)
      BY <1>1, <1>3, <2>2 DEF Working, Index!Publish, Index!Jobs, Index!ConstantsSound
    <3> HIDE DEF new
    <3>3. worker'[j].pc # "none"
      BY <1>4
    <3> QED
      BY <1>1, <1>3, <1>5, <3>1, <3>2, <3>3, MovesLeave DEF Inv, Typed, IndexFiles
  <2> QED
    BY <2>1, <2>2
<1>9. Typed'
  BY <1>2, <1>4, <1>7, <1>8 DEF Inv, Typed, Index!world, Index!server, Index!ghosts
<1>10. Numbered' /\ Held' /\ Index!AnswerTrue' /\ Workers' /\ Cancelled'
  BY <1>1, <1>2, <1>5, <1>6, MovesLeave, StatusStays DEF Workers
<1>11. IndexFiles'
  BY <1>2, <1>7, <1>8 DEF Inv, IndexFiles, Index!ghosts, ReadSince
<1> QED
  BY <1>9, <1>10, <1>11 DEF Inv

(* A worker that ends, with or without a word.                             *)
LEMMA EndStep ==
  ASSUME Index!ConstantsSound, Inv, NEW j \in Index!Jobs,
         Index!WorkerBreaks(j) \/ Index!OrphanEnds(j)
  PROVE  Inv'
<1>1. Index!Alive(j)
  BY DEF Index!WorkerBreaks, Index!OrphanEnds
<1>2. Index!Go(j, "gone") /\ UNCHANGED <<csv, versions, Index!server, inbound, outbound, rows, call, answer, Index!ghosts>>
  BY DEF Index!WorkerBreaks, Index!OrphanEnds, Index!Fails, Index!world, Index!files
<1>3. Moves(j) /\ worker'[j].pc = "gone"
  BY <1>2, GoMoves DEF Moves, Places
<1>4. statusFile' = statusFile \/ Index!Writes(j, "failed")
  BY DEF Index!WorkerBreaks, Index!OrphanEnds, Index!Fails, Index!files
<1>9. changes' \in 0..MaxChanges
  BY DEF Index!WorkerBreaks, Index!OrphanEnds, Inv, Typed, Index!ConstantsSound, Index!world
<1>5. changes <= changes'
  BY DEF Index!WorkerBreaks, Index!OrphanEnds, Inv, Typed, Index!ConstantsSound, Index!world
<1>6. Typed'
  <2>1. statusFile' \in [Scopes -> [job : Nat, state : Index!States]]
    BY <1>1, <1>4, StatusTyped DEF Inv, Typed, Index!States
  <2>2. csv <= changes' + 1 /\ \A s \in Scopes : versions[s] <= 2 * changes' + 1
    <3>1. /\ csv \in Nat /\ changes \in Nat /\ changes' \in Nat
          /\ csv <= changes + 1
      BY <1>9 DEF Inv, Typed, Index!ConstantsSound
    <3>2. ASSUME NEW s \in Scopes PROVE versions[s] <= 2 * changes' + 1
      <4>1. versions[s] \in Nat /\ versions[s] <= 2 * changes + 1
        BY DEF Inv, Typed
      <4> QED
        BY <1>5, <3>1, <4>1, Later
    <3>3. csv <= changes' + 1
      BY <1>5, <3>1, Later
    <3> QED
      BY <3>2, <3>3
  <2> QED
    BY <1>2, <1>3, <1>9, <2>1, <2>2 DEF Inv, Typed, Moves, Index!server, Index!ghosts
<1>7. Numbered' /\ Held' /\ Index!AnswerTrue' /\ Workers'
  BY <1>1, <1>3, MovesLeave DEF Workers, Index!Alive
<1>8. IndexFiles' /\ Cancelled'
  BY <1>1, <1>2, <1>3, <1>4, FilesStay, StatusStays, StatusWritten
<1> QED
  BY <1>6, <1>7, <1>8 DEF Inv

-----------------------------------------------------------------------------
(* The server.                                                             *)

LEMMA ReadStep ==
  ASSUME Index!ConstantsSound, Inv, Index!ReadStatus \/ Index!ReadInbound \/ Index!ReadOutbound
  PROVE  Inv'
<1>0. call.pc # "none" /\ job \in Index!Jobs /\ scope \in Scopes
  BY DEF Inv, Typed, Held, Index!ReadStatus, Index!ReadInbound, Index!ReadOutbound
<1>1. UNCHANGED <<Index!world, scope, job, signature, Index!files, worker, Index!ghosts>>
  BY DEF Index!ReadStatus, Index!ReadInbound, Index!ReadOutbound, Index!server
<1>2. \A readable : /\ Index!Owned(readable) \in [job : Nat, state : Index!States]
                    /\ Index!Status(readable) \in Index!States
  BY <1>0 DEF Inv, Typed, Index!Owned, Index!Status, Index!States
<1>3. /\ last' \in [job : Nat, state : Index!States]
      /\ call' \in [pc : {"none", "status", "inbound", "outbound"}, state : Index!States, inb : Nat]
      /\ call'.pc = "outbound" /\ call'.inb # 0 => call'.inb = signature
  <2>1. CASE Index!ReadStatus
    <3>1. PICK readable \in Index!Readable :
            /\ last' = Index!Owned(readable)
            /\ call' = [call EXCEPT !.pc = "inbound", !.state = Index!Status(readable)]
      BY <2>1 DEF Index!ReadStatus
    <3>2. /\ call'.pc = "inbound"
          /\ call' \in [pc : {"none", "status", "inbound", "outbound"}, state : Index!States, inb : Nat]
      BY <1>2, <3>1 DEF Inv, Typed
    <3> QED
      BY <1>2, <3>1, <3>2
  <2>2. CASE Index!ReadInbound
    <3>1. PICK readable \in Index!Readable :
            call' = [call EXCEPT !.pc = "outbound",
                        !.inb = IF readable /\ inbound[scope].print = signature
                                THEN inbound[scope].items ELSE 0]
      BY <2>2 DEF Index!ReadInbound
    <3> DEFINE inb == IF readable /\ inbound[scope].print = signature
                      THEN inbound[scope].items ELSE 0
    <3>2. inb \in Nat /\ (inb # 0 => inb = signature)
      BY <1>0 DEF Inv, Typed, IndexFiles
    <3>3. call' = [call EXCEPT !.pc = "outbound", !.inb = inb]
      BY <3>1
    <3> HIDE DEF inb
    <3>4. call'.inb = inb /\ call' \in [pc : {"none", "status", "inbound", "outbound"},
                                        state : Index!States, inb : Nat]
      BY <3>2, <3>3 DEF Inv, Typed
    <3> QED
      BY <2>2, <3>2, <3>4 DEF Inv, Typed, Index!ReadInbound, Index!server
  <2>3. CASE Index!ReadOutbound
    BY <2>3 DEF Inv, Typed, Index!ReadOutbound, Index!NoCall, Index!NewCall, Index!States
  <2> QED
    BY <2>1, <2>2, <2>3
<1>4. /\ catalog' \in [job : Nat, items : Nat] /\ catalog'.job \in {0, job}
      /\ catalog'.items # 0 => catalog'.job = job /\ ReadSince(began[job], catalog'.items)
      /\ answer' \in [job : Nat, state : Index!States, inb : Nat, out : Nat]
      /\ answer'.inb # 0 => answer'.inb = signature
      /\ answer'.out # 0 => /\ answer'.state = "ready" /\ answer'.job = job
                            /\ ReadSince(began[job], answer'.out)
  <2>1. CASE UNCHANGED <<catalog, answer>>
    BY <2>1 DEF Inv, Typed, Held, Index!AnswerTrue, ReadSince
  <2>2. CASE Index!ReadOutbound
    <3>1. PICK readable \in Index!Readable :
            LET held == IF call.state = "ready" /\ catalog = Index!NoCatalog
                        THEN Index!Catalog(readable) ELSE catalog
                state == IF call.state = "ready" /\ held = Index!NoCatalog THEN "failed" ELSE call.state
            IN /\ catalog' = held
               /\ answer' = [job |-> job, state |-> state, inb |-> call.inb,
                             out |-> IF state = "ready" THEN held.items ELSE 0]
      BY <2>2 DEF Index!ReadOutbound
    <3>2. /\ Index!Catalog(readable) \in [job : Nat, items : Nat]
          /\ Index!Catalog(readable).job \in {0, job}
          /\ Index!Catalog(readable).items # 0 =>
               Index!Catalog(readable).job = job /\ ReadSince(began[job], Index!Catalog(readable).items)
      BY <1>0 DEF Inv, Typed, IndexFiles, Index!Catalog, Index!NoCatalog
    <3>3. /\ catalog' \in [job : Nat, items : Nat] /\ catalog'.job \in {0, job}
          /\ catalog'.items # 0 => catalog'.job = job /\ ReadSince(began[job], catalog'.items)
      BY <3>1, <3>2 DEF Inv, Typed, Held
    <3>4. PICK state \in Index!States :
            answer' = [job |-> job, state |-> state, inb |-> call.inb,
                       out |-> IF state = "ready" THEN catalog'.items ELSE 0]
      BY <3>1 DEF Inv, Typed, Index!States
    <3>5. call.inb \in Nat /\ (call.inb # 0 => call.inb = signature) /\ job \in Nat
      BY <1>0, <2>2 DEF Inv, Typed, Held, Index!ReadOutbound, Index!Jobs, Index!ConstantsSound
    <3> QED
      BY <3>3, <3>4, <3>5
  <2> QED
    BY <2>1, <2>2 DEF Index!ReadStatus, Index!ReadInbound, Index!ReadOutbound, Index!server
<1>5. Typed'
  BY <1>1, <1>3, <1>4 DEF Inv, Typed, Index!world, Index!files, Index!ghosts
<1>6. Numbered' /\ Workers' /\ IndexFiles' /\ Cancelled'
  BY <1>1 DEF Inv, Numbered, Workers, Index!Alive, Working, IndexFiles, Cancelled, ReadSince,
              Index!world, Index!files, Index!ghosts
<1>7. Held' /\ Index!AnswerTrue'
  BY <1>0, <1>1, <1>3, <1>4 DEF Inv, Held, Index!Alive, Index!AnswerTrue, ReadSince,
                                Index!ghosts
<1> QED
  BY <1>5, <1>6, <1>7 DEF Inv

LEMMA UsersStep ==
  ASSUME Index!ConstantsSound, Inv,
         Index!DetailsChange \/ (\E s \in Scopes : Index!InvoiceChanges(s)) \/ UNCHANGED Index!vars
  PROVE  Inv'
<1>1. UNCHANGED <<Index!server, Index!files, worker, call, answer, Index!ghosts>>
  BY DEF Index!DetailsChange, Index!InvoiceChanges, Index!vars
<1>2. /\ csv' \in Nat \ {0} /\ csv <= csv' /\ csv' <= changes' + 1
      /\ changes' \in 0..MaxChanges
      /\ versions' \in [Scopes -> Nat \ {0}]
      /\ \A s \in Scopes : versions[s] <= versions'[s] /\ versions'[s] <= 2 * changes' + 1
  <2>1. CASE Index!DetailsChange
    BY <2>1 DEF Inv, Typed, Index!DetailsChange, Index!ConstantsSound
  <2>2. ASSUME NEW t \in Scopes, Index!InvoiceChanges(t)
         PROVE  /\ csv' \in Nat \ {0} /\ csv <= csv' /\ csv' <= changes' + 1
                /\ changes' \in 0..MaxChanges
                /\ versions' \in [Scopes -> Nat \ {0}]
                /\ \A s \in Scopes : versions[s] <= versions'[s] /\ versions'[s] <= 2 * changes' + 1
    BY <2>2 DEF Inv, Typed, Index!InvoiceChanges, Index!ConstantsSound
  <2>3. CASE UNCHANGED Index!vars
    BY <2>3 DEF Inv, Typed, Index!vars, Index!world
  <2> QED
    BY <2>1, <2>2, <2>3
<1>3. Typed'
  <2>1. signature' \in 0..csv'
    BY <1>1, <1>2 DEF Inv, Typed, Index!server
  <2> QED
    BY <1>1, <1>2, <2>1 DEF Inv, Typed, Index!server, Index!files, Index!ghosts
<1>4. Workers'
  <2> SUFFICES ASSUME NEW j \in Index!Jobs, Index!Alive(j) PROVE Working(j)'
    BY <1>1 DEF Workers, Index!Alive
  <2>1. Working(j) /\ worker[j] \in WorkerSet /\ worker[j].scope \in Scopes
    BY DEF Inv, Typed, Workers, Working
  <2>2. /\ worker[j].before \in Nat /\ worker[j].print \in Nat /\ worker[j].record \in Nat
        /\ began[j] \in Nat
    BY <2>1 DEF WorkerSet, Inv, Typed
  <2>3. /\ csv \in Nat /\ csv' \in Nat /\ csv <= csv'
        /\ versions[worker[j].scope] \in Nat /\ versions'[worker[j].scope] \in Nat
        /\ versions[worker[j].scope] <= versions'[worker[j].scope]
    BY <1>2, <2>1 DEF Inv, Typed
  <2> QED
    BY <1>1, <2>1, <2>2, <2>3 DEF Working, ReadSince, Index!ghosts
<1>5. Numbered' /\ IndexFiles' /\ Held' /\ Cancelled' /\ Index!AnswerTrue'
  BY <1>1 DEF Inv, Numbered, IndexFiles, Held, Index!Alive, Cancelled, Index!AnswerTrue,
              ReadSince, Index!server, Index!files,
              Index!ghosts
<1> QED
  BY <1>3, <1>4, <1>5 DEF Inv

(* What the start of job n for scope s leaves.                             *)
Started(s, n) ==
  /\ worker' \in [Index!Jobs -> WorkerSet] /\ worker'[n].pc \in {"begin", "gone"}
  /\ worker'[n].pc = "begin" => worker'[n].scope = s
  /\ \A j \in Index!Jobs \ {n} : /\ j # job => worker'[j] = worker[j]
                                 /\ j = job => worker'[j].pc = "gone" /\ worker[j].pc # "none"
  /\ statusFile' \in [Scopes -> [job : Nat, state : Index!States]] /\ statusFile'[s].job = n
  /\ \A t \in Scopes \ {s} : statusFile'[t] = statusFile[t]
  /\ scope' = s /\ job' = n /\ catalog' = Index!NoCatalog /\ signature' = csv
  /\ last' \in [job : Nat, state : Index!States]
  /\ began' \in [Index!Jobs -> Nat] /\ began'[n] = versions[s]
  /\ \A j \in Index!Jobs \ {n} : began'[j] = began[j]
  /\ call' \in [pc : {"none", "status"}, state : Index!States, inb : Nat]
  /\ answer' = Index!NoAnswer
  /\ csv' = csv /\ versions' = versions /\ changes' = changes
  /\ inbound' = inbound /\ outbound' = outbound /\ rows' = rows /\ withdrawn' = withdrawn

LEMMA StartEffect ==
  ASSUME Index!ConstantsSound, Inv, NEW s \in Scopes, NEW n, n = Index!Used + 1,
         Index!Used < MaxJobs,
         Index!StartJob(s, n),
         \/ /\ worker' = [Index!Stopped EXCEPT ![n] = Index!Worker("begin", s)]
            /\ statusFile' = [statusFile EXCEPT ![s] = [job |-> n, state |-> "running"]]
            /\ call' = Index!NewCall("status")
         \/ /\ worker' = [Index!Stopped EXCEPT ![n] = Index!Worker("gone", Absent)]
            /\ statusFile' = [statusFile EXCEPT ![s] = [job |-> n, state |-> "failed"]]
            /\ UNCHANGED call,
         call.pc = "none", answer' = Index!NoAnswer,
         UNCHANGED <<Index!world, inbound, outbound, rows, withdrawn>>
  PROVE  Started(s, n)
<1>0. /\ Index!Used \in Nat /\ n \in Index!Jobs /\ worker[n].pc = "none" /\ n \in Nat /\ n # 0
      /\ \A j \in Index!Jobs : worker[j].pc # "none" <=> j <= Index!Used
  BY NewJob DEF Index!Jobs, Index!ConstantsSound
<1>1. /\ worker' \in [Index!Jobs -> WorkerSet]
      /\ \A j \in Index!Jobs \ {n} : worker'[j] = Index!Stopped[j]
      /\ worker'[n].pc \in {"begin", "gone"}
      /\ worker'[n].pc = "begin" => worker'[n].scope = s
  <2>0. Index!Stopped \in [Index!Jobs -> WorkerSet]
    BY StoppedIs
  <2> DEFINE begun == Index!Worker("begin", s)
             ended == Index!Worker("gone", Absent)
  <2>1. begun \in WorkerSet /\ begun.pc = "begin" /\ begun.scope = s
    BY DEF Index!Worker, WorkerSet, Places
  <2>2. ended \in WorkerSet /\ ended.pc = "gone"
    BY DEF Index!Worker, WorkerSet, Places
  <2>3. worker' = [Index!Stopped EXCEPT ![n] = begun] \/ worker' = [Index!Stopped EXCEPT ![n] = ended]
    OBVIOUS
  <2> HIDE DEF begun, ended
  <2> QED
    BY <1>0, <2>0, <2>1, <2>2, <2>3
<1>2. /\ statusFile' \in [Scopes -> [job : Nat, state : Index!States]]
      /\ statusFile'[s].job = n
      /\ \A t \in Scopes \ {s} : statusFile'[t] = statusFile[t]
  <2> DEFINE running == [job |-> n, state |-> "running"]
             failed == [job |-> n, state |-> "failed"]
  <2>1. /\ running \in [job : Nat, state : Index!States] /\ running.job = n
        /\ failed \in [job : Nat, state : Index!States] /\ failed.job = n
    BY <1>0 DEF Index!States
  <2>2. PICK said \in {running, failed} : statusFile' = [statusFile EXCEPT ![s] = said]
    OBVIOUS
  <2>3. said \in [job : Nat, state : Index!States] /\ said.job = n
    BY <2>1
  <2>4. statusFile \in [Scopes -> [job : Nat, state : Index!States]]
    BY DEF Inv, Typed
  <2> HIDE DEF running, failed
  <2> QED
    BY <2>2, <2>3, <2>4
<1>3. /\ scope' = s /\ job' = n /\ catalog' = Index!NoCatalog /\ signature' = csv
      /\ last' \in [job : Nat, state : Index!States]
      /\ began' \in [Index!Jobs -> Nat] /\ began'[n] = versions[s]
      /\ \A j \in Index!Jobs \ {n} : began'[j] = began[j]
  BY <1>0 DEF Index!StartJob, Inv, Typed, Index!States
<1>4. call' \in [pc : {"none", "status"}, state : Index!States, inb : Nat]
  BY DEF Inv, Typed, Index!NoCall, Index!NewCall, Index!States
<1>5. n # job
  BY <1>0 DEF Inv, Typed, Held
<1>6. \A j \in Index!Jobs \ {n} :
                           /\ j # job => worker'[j] = worker[j]
                           /\ j = job => worker'[j].pc = "gone" /\ worker[j].pc # "none"
  BY <1>1, StoppedIs
<1> QED
  BY <1>1, <1>2, <1>3, <1>4, <1>6 DEF Started, Index!world

LEMMA StartStep ==
  ASSUME Index!ConstantsSound, Inv, NEW s \in Scopes, NEW n, n = Index!Used + 1,
         Index!Used < MaxJobs, Started(s, n)
  PROVE  Inv'
<1>0. /\ Index!Used \in Nat /\ n \in Index!Jobs /\ worker[n].pc = "none" /\ n \in Nat /\ n # 0
      /\ \A j \in Index!Jobs : worker[j].pc # "none" <=> j <= Index!Used
  BY NewJob DEF Index!Jobs, Index!ConstantsSound
<1>1. /\ worker' \in [Index!Jobs -> WorkerSet]
      /\ worker'[n].pc \in {"begin", "gone"}
      /\ worker'[n].pc = "begin" => worker'[n].scope = s
  BY DEF Started
<1>2. /\ statusFile' \in [Scopes -> [job : Nat, state : Index!States]]
      /\ statusFile'[s].job = n
      /\ \A t \in Scopes \ {s} : statusFile'[t] = statusFile[t]
  BY DEF Started
<1>3. /\ scope' = s /\ job' = n /\ catalog' = Index!NoCatalog /\ signature' = csv
      /\ last' \in [job : Nat, state : Index!States]
      /\ began' \in [Index!Jobs -> Nat] /\ began'[n] = versions[s]
      /\ \A j \in Index!Jobs \ {n} : began'[j] = began[j]
  BY DEF Started
<1>4. /\ call' \in [pc : {"none", "status"}, state : Index!States, inb : Nat] /\ answer' = Index!NoAnswer
      /\ csv' = csv /\ versions' = versions /\ changes' = changes
      /\ inbound' = inbound /\ outbound' = outbound /\ rows' = rows /\ withdrawn' = withdrawn
  BY DEF Started
<1>5. n # job /\ n \notin withdrawn
  BY <1>0 DEF Inv, Typed, Held, Cancelled
<1>6. \A j \in Index!Jobs \ {n} :
                           /\ worker[j].pc # "none" <=> worker'[j].pc # "none"
                           /\ worker[j].pc = "gone" => worker'[j].pc = "gone"
                           /\ worker'[j].pc # "gone" => worker'[j] = worker[j]
  BY DEF Started
<1>7. Typed'
  <2>1. catalog' \in [job : Nat, items : Nat]
        /\ answer' \in [job : Nat, state : Index!States, inb : Nat, out : Nat]
    BY <1>3, <1>4 DEF Index!NoCatalog, Index!NoAnswer, Index!States
  <2>2. call' \in [pc : {"none", "status", "inbound", "outbound"}, state : Index!States, inb : Nat]
    BY <1>4
  <2>3. /\ scope' \in Scopes \cup {Absent} /\ job' \in Index!Jobs \cup {0} /\ (job' # 0 <=> scope' # Absent)
        /\ signature' \in 0..csv'
    BY <1>0, <1>3, <1>4 DEF Index!ConstantsSound, Inv, Typed
  <2> QED
    BY <1>1, <1>2, <1>3, <1>4, <2>1, <2>2, <2>3 DEF Inv, Typed
<1>8. Numbered'
  <2>1. n \in 0..MaxJobs
    BY <1>0 DEF Index!Jobs, Index!ConstantsSound
  <2>2. ASSUME NEW j \in Index!Jobs PROVE worker'[j].pc # "none" <=> j <= n
    <3>1. CASE j = n
      BY <1>1, <2>1, <3>1
    <3>2. CASE j # n
      <4>1. j \in Nat /\ (j <= n <=> j <= Index!Used)
        BY <1>0, <3>2, NextNumber DEF Index!Jobs, Index!ConstantsSound
      <4>2. worker[j].pc # "none" <=> worker'[j].pc # "none"
        BY <1>6, <3>2
      <4>3. worker[j].pc # "none" <=> j <= Index!Used
        BY <1>0
      <4> QED
        BY <4>1, <4>2, <4>3
    <3> QED
      BY <3>1, <3>2
  <2> QED
    BY <2>1, <2>2 DEF Numbered
<1>9. Workers'
  <2>1. ASSUME NEW j \in Index!Jobs \ {n}, Index!Alive(j)' PROVE Working(j)'
    <3>1. worker'[j] = worker[j] /\ began'[j] = began[j] /\ versions' = versions /\ csv' = csv
      BY <1>3, <1>4, <1>6, <2>1 DEF Index!Alive
    <3>2. Working(j)
      BY <2>1, <3>1 DEF Inv, Workers, Index!Alive
    <3> QED
      BY <3>1, <3>2 DEF Working, ReadSince
  <2>2. Index!Alive(n)' => Working(n)'
    BY <1>1, <1>3, <1>4 DEF Index!Alive, Working, Inv, Typed
  <2> QED
    BY <2>1, <2>2 DEF Workers
<1>10. IndexFiles'
  <2>1. ASSUME NEW t \in Scopes, outbound[t].items # 0
        PROVE  /\ outbound[t].job \in Index!Jobs \ {n} /\ worker[outbound[t].job].pc # "none"
               /\ ReadSince(began[outbound[t].job], outbound[t].items)
    BY <1>0, <2>1 DEF Inv, IndexFiles
  <2>2. inbound' = inbound /\ outbound' = outbound /\ rows' = rows
    BY <1>4
  <2>3. ASSUME NEW t \in Scopes, outbound'[t].items # 0
        PROVE  /\ outbound'[t].job \in Index!Jobs /\ worker'[outbound'[t].job].pc # "none"
               /\ ReadSince(began'[outbound'[t].job], outbound'[t].items)
    BY <1>3, <1>6, <2>1, <2>2, <2>3
  <2> QED
    BY <2>2, <2>3 DEF Inv, IndexFiles, ReadSince
<1>11. Held' /\ Index!AnswerTrue'
  <2>1. catalog'.job = 0 /\ catalog'.items = 0 /\ answer'.inb = 0 /\ answer'.out = 0
    BY <1>3, <1>4 DEF Index!NoCatalog, Index!NoAnswer
  <2>2. call'.pc \in {"none", "status"}
    BY <1>4
  <2> QED
    BY <1>0, <1>1, <1>3, <2>1, <2>2 DEF Held, Index!Alive, Index!AnswerTrue
<1>12. Cancelled'
  <2>1. ASSUME NEW j \in withdrawn' PROVE worker'[j].pc = "gone"
    <3>1. j \in Index!Jobs \ {n} /\ worker[j].pc = "gone"
      BY <1>4, <1>5, <2>1 DEF Inv, Typed, Cancelled
    <3> QED
      BY <1>6, <3>1
  <2>2. ASSUME NEW t \in Scopes
        PROVE  /\ statusFile'[t].job # 0 =>
                    statusFile'[t].job \in Index!Jobs /\ worker'[statusFile'[t].job].pc # "none"
               /\ statusFile'[t].job # 0 /\ statusFile'[t].job = job' => t = scope'
               /\ statusFile'[t].job \in withdrawn' => statusFile'[t].state = "cancelled"
    <3>1. CASE t = s
      BY <1>0, <1>1, <1>2, <1>3, <1>4, <1>5, <3>1
    <3>2. CASE t # s
      <4>1. statusFile'[t] = statusFile[t] /\ statusFile[t].job # n
        BY <1>0, <1>2, <3>2 DEF Inv, Cancelled
      <4> QED
        <5>1. statusFile[t].job # 0 =>
                 statusFile[t].job \in Index!Jobs /\ worker'[statusFile[t].job].pc # "none"
          BY <1>6, <4>1 DEF Inv, Cancelled
        <5>2. statusFile[t].job \in withdrawn' => statusFile[t].state = "cancelled"
          BY <1>4 DEF Inv, Cancelled
        <5> QED
          BY <1>3, <4>1, <5>1, <5>2
    <3> QED
      BY <3>1, <3>2
  <2> QED
    BY <2>1, <2>2 DEF Cancelled
<1> QED
  BY <1>7, <1>8, <1>9, <1>10, <1>11, <1>12 DEF Inv

LEMMA EnsureStep ==
  ASSUME Index!ConstantsSound, Inv, NEW s \in Scopes, NEW restart \in BOOLEAN,
         NEW revalidate \in BOOLEAN, Index!Ensure(s, restart, revalidate)
  PROVE  Inv'
<1>1. PICK readable \in Index!Readable, over60 \in BOOLEAN :
        LET expired == revalidate /\ over60 /\ Index!Status(readable) = "ready"
        IN IF Index!Restarts(Index!Status(readable), s, restart, expired)
           THEN /\ Index!Used < MaxJobs
                /\ Index!StartJob(s, Index!Used + 1)
                /\ \/ /\ worker' = [Index!Stopped EXCEPT ![Index!Used + 1] = Index!Worker("begin", s)]
                      /\ statusFile' = [statusFile EXCEPT ![s] = [job |-> Index!Used + 1, state |-> "running"]]
                      /\ call' = Index!NewCall("status")
                   \/ /\ worker' = [Index!Stopped EXCEPT ![Index!Used + 1] = Index!Worker("gone", Absent)]
                      /\ statusFile' = [statusFile EXCEPT ![s] = [job |-> Index!Used + 1, state |-> "failed"]]
                      /\ UNCHANGED call
           ELSE /\ last' = Index!Owned(readable)
                /\ call' = Index!NewCall("status")
                /\ UNCHANGED <<scope, job, signature, catalog, statusFile, worker, began>>
  BY DEF Index!Ensure
<1>2. /\ call.pc = "none" /\ answer' = Index!NoAnswer
      /\ UNCHANGED <<Index!world, inbound, outbound, rows, withdrawn>>
  BY DEF Index!Ensure
<1> DEFINE again == Index!Restarts(Index!Status(readable), s, restart,
                            revalidate /\ over60 /\ Index!Status(readable) = "ready")
<1>3. CASE again
  BY <1>1, <1>2, <1>3, StartEffect, StartStep, NewJob
<1>4. CASE ~again
  <2>1. /\ last' = Index!Owned(readable) /\ call' = Index!NewCall("status")
        /\ UNCHANGED <<scope, job, signature, catalog, statusFile, worker, began>>
    BY <1>1, <1>4
  <2>2. s = scope /\ job \in Index!Jobs
    BY <1>4 DEF Index!Restarts, Inv, Typed, Index!ConstantsSound
  <2>3. Index!Owned(readable) \in [job : Nat, state : Index!States]
    BY <2>2 DEF Inv, Typed, Index!Owned
  <2>4. /\ call' \in [pc : {"none", "status", "inbound", "outbound"}, state : Index!States, inb : Nat]
        /\ call'.pc = "status"
        /\ answer' \in [job : Nat, state : Index!States, inb : Nat, out : Nat]
        /\ answer'.inb = 0 /\ answer'.out = 0
    BY <1>2, <2>1 DEF Index!NoCall, Index!NewCall, Index!NoAnswer, Index!States
  <2>5. Typed'
    BY <1>2, <2>1, <2>3, <2>4 DEF Inv, Typed, Index!world
  <2>6. Numbered' /\ Workers' /\ IndexFiles' /\ Cancelled'
    BY <1>2, <2>1 DEF Inv, Numbered, Workers, Index!Alive, Working, IndexFiles, Cancelled,
                      ReadSince, Index!world
  <2>7. Held' /\ Index!AnswerTrue'
    BY <1>2, <2>1, <2>2, <2>4 DEF Inv, Held, Index!Alive, Index!AnswerTrue, ReadSince,
                                  Index!Jobs, Index!ConstantsSound
  <2> QED
    BY <2>5, <2>6, <2>7 DEF Inv
<1> QED
  BY <1>3, <1>4

(* A server that stops its worker, or leaves it, changes nothing of the     *)
(* other workers and nothing of the lists.                                 *)
LEMMA StoppedLeaves ==
  ASSUME Index!ConstantsSound, Inv, worker' = Index!Stopped \/ worker' = worker,
         csv' = csv, versions' = versions, began' = began,
         inbound' = inbound, outbound' = outbound, rows' = rows
  PROVE  /\ worker' \in [Index!Jobs -> WorkerSet]
         /\ Numbered' /\ Workers' /\ IndexFiles'
         /\ \A j \in Index!Jobs : /\ worker'[j].pc # "none" <=> worker[j].pc # "none"
                                  /\ worker'[j].pc # "gone" => worker'[j] = worker[j]
<1>1. worker' \in [Index!Jobs -> WorkerSet]
  BY StoppedIs DEF Inv, Typed
<1>2. \A j \in Index!Jobs :
         /\ worker'[j].pc # "none" <=> worker[j].pc # "none"
         /\ worker'[j].pc # "gone" => worker'[j] = worker[j]
  BY StoppedIs
<1>3. Numbered'
  <2>1. PICK n \in 0..MaxJobs : \A j \in Index!Jobs : worker[j].pc # "none" <=> j <= n
    BY DEF Inv, Numbered
  <2>2. \A j \in Index!Jobs : worker'[j].pc # "none" <=> j <= n
    BY <1>2, <2>1
  <2> QED
    BY <2>2 DEF Numbered
<1>4. Workers'
  <2> SUFFICES ASSUME NEW j \in Index!Jobs, Index!Alive(j)' PROVE Working(j)'
    BY DEF Workers
  <2>1. worker'[j] = worker[j]
    BY <1>2 DEF Index!Alive
  <2>2. Working(j)
    BY <2>1 DEF Inv, Workers, Index!Alive
  <2> QED
    BY <2>1, <2>2 DEF Working, ReadSince
<1>5. IndexFiles'
  BY <1>2 DEF Inv, IndexFiles, ReadSince
<1> QED
  BY <1>1, <1>2, <1>3, <1>4, <1>5

LEMMA CancelStep == ASSUME Index!ConstantsSound, Inv, Index!Cancel PROVE Inv'
<1>0. call.pc = "none" /\ job \in Index!Jobs /\ scope \in Scopes /\ job # 0
  BY DEF Inv, Typed, Index!Cancel
<1>1. /\ worker' = Index!Stopped /\ withdrawn' = withdrawn \cup {job} /\ last' = Index!Owned(TRUE)
      /\ csv' = csv /\ versions' = versions /\ changes' = changes
      /\ scope' = scope /\ job' = job /\ signature' = signature /\ catalog' = catalog
      /\ inbound' = inbound /\ outbound' = outbound /\ rows' = rows
      /\ call' = call /\ answer' = answer /\ began' = began
  BY DEF Index!Cancel, Index!world
<1>2. /\ worker' \in [Index!Jobs -> WorkerSet] /\ Numbered' /\ Workers' /\ IndexFiles'
      /\ \A j \in Index!Jobs : worker'[j].pc # "none" <=> worker[j].pc # "none"
      /\ \A j \in Index!Jobs : worker'[j].pc # "gone" => worker'[j] = worker[j]
  BY <1>1, StoppedLeaves
<1>3. worker'[job].pc = "gone"
  BY <1>0, <1>1, StoppedIs
<1>4. /\ statusFile' \in [Scopes -> [job : Nat, state : Index!States]]
      /\ statusFile'[scope].job = job /\ statusFile'[scope].state = "cancelled"
      /\ \A s \in Scopes \ {scope} : statusFile'[s] = statusFile[s]
  <2> DEFINE said == [job |-> job, state |-> "cancelled"]
  <2>1. statusFile' = [statusFile EXCEPT ![scope] = said]
    BY DEF Index!Cancel
  <2>2. said \in [job : Nat, state : Index!States] /\ said.job = job /\ said.state = "cancelled"
    BY <1>0 DEF Index!Jobs, Index!ConstantsSound, Index!States
  <2>3. statusFile \in [Scopes -> [job : Nat, state : Index!States]]
    BY DEF Inv, Typed
  <2> HIDE DEF said
  <2> QED
    BY <1>0, <2>1, <2>2, <2>3
<1>5. Typed'
  <2>1. last' \in [job : Nat, state : Index!States]
    BY <1>0, <1>1 DEF Inv, Typed, Index!Owned
  <2>2. withdrawn' \subseteq Index!Jobs
    BY <1>0, <1>1 DEF Inv, Typed
  <2> QED
    BY <1>1, <1>2, <1>4, <2>1, <2>2 DEF Inv, Typed
<1>6. Held' /\ Index!AnswerTrue'
  BY <1>0, <1>1, <1>3 DEF Inv, Held, Index!Alive, Index!AnswerTrue, ReadSince
<1>7. Cancelled'
  <2>1. \A j \in withdrawn' : worker'[j].pc = "gone"
    <3> SUFFICES ASSUME NEW j \in withdrawn' PROVE worker'[j].pc = "gone"
      OBVIOUS
    <3>1. CASE j = job
      BY <1>3, <3>1
    <3>2. CASE j # job
      <4>1. j \in Index!Jobs /\ worker[j].pc = "gone"
        BY <1>1, <3>2 DEF Inv, Typed, Cancelled
      <4> QED
        BY <1>2, <4>1
    <3> QED
      BY <3>1, <3>2
  <2>2. ASSUME NEW t \in Scopes
        PROVE  /\ statusFile'[t].job # 0 =>
                    statusFile'[t].job \in Index!Jobs /\ worker'[statusFile'[t].job].pc # "none"
               /\ statusFile'[t].job # 0 /\ statusFile'[t].job = job' => t = scope'
               /\ statusFile'[t].job \in withdrawn' => statusFile'[t].state = "cancelled"
    <3>1. CASE t = scope
      BY <1>0, <1>1, <1>3, <1>4, <3>1
    <3>2. CASE t # scope
      <4>1. statusFile'[t] = statusFile[t] /\ statusFile[t].job # job
        BY <1>0, <1>4, <3>2 DEF Inv, Cancelled
      <4>2. statusFile[t].job # 0 =>
               statusFile[t].job \in Index!Jobs /\ worker'[statusFile[t].job].pc # "none"
        BY <1>2 DEF Inv, Cancelled
      <4>3. statusFile[t].job \in withdrawn => statusFile[t].state = "cancelled"
        BY DEF Inv, Cancelled
      <4> QED
        BY <1>1, <4>1, <4>2, <4>3
    <3> QED
      BY <3>1, <3>2
  <2> QED
    BY <2>1, <2>2 DEF Cancelled
<1> QED
  BY <1>2, <1>5, <1>6, <1>7 DEF Inv

LEMMA ServerEndsStep ==
  ASSUME Index!ConstantsSound, Inv, NEW crash \in BOOLEAN, Index!ServerEnds(crash)
  PROVE  Inv'
<1>1. /\ worker' = Index!Stopped \/ worker' = worker
      /\ csv' = csv /\ versions' = versions /\ changes' = changes + 1 /\ changes < MaxChanges
      /\ scope' = Absent /\ job' = 0 /\ signature' = 0 /\ last' = Index!NoStatus /\ catalog' = Index!NoCatalog
      /\ call' = Index!NoCall /\ answer' = Index!NoAnswer
      /\ statusFile' = statusFile /\ inbound' = inbound /\ outbound' = outbound /\ rows' = rows
      /\ began' = began /\ withdrawn' = withdrawn
  BY DEF Index!ServerEnds, Index!files, Index!ghosts
<1>2. /\ worker' \in [Index!Jobs -> WorkerSet] /\ Numbered' /\ Workers' /\ IndexFiles'
      /\ \A j \in Index!Jobs : worker'[j].pc # "none" <=> worker[j].pc # "none"
      /\ \A j \in Index!Jobs : worker'[j].pc # "gone" => worker'[j] = worker[j]
  BY <1>1, StoppedLeaves
<1>3. /\ last' \in [job : Nat, state : Index!States] /\ catalog' \in [job : Nat, items : Nat]
      /\ call' \in [pc : {"none", "status", "inbound", "outbound"}, state : Index!States, inb : Nat]
      /\ answer' \in [job : Nat, state : Index!States, inb : Nat, out : Nat]
      /\ call'.pc = "none" /\ catalog'.job = 0 /\ catalog'.items = 0
      /\ answer'.inb = 0 /\ answer'.out = 0
  BY <1>1 DEF Index!NoStatus, Index!NoCatalog, Index!NoCall, Index!NewCall, Index!NoAnswer,
              Index!States
<1>4. changes' \in 0..MaxChanges /\ changes \in Nat /\ changes' \in Nat /\ changes <= changes'
  BY <1>1 DEF Inv, Typed, Index!ConstantsSound
<1>5. csv' <= changes' + 1 /\ \A s \in Scopes : versions'[s] <= 2 * changes' + 1
  <2>1. csv \in Nat /\ csv <= changes + 1
    BY DEF Inv, Typed
  <2>2. \A s \in Scopes : versions[s] \in Nat /\ versions[s] <= 2 * changes + 1
    BY DEF Inv, Typed
  <2>3. csv <= changes' + 1
    BY <1>4, <2>1, Later
  <2>4. \A s \in Scopes : versions[s] <= 2 * changes' + 1
    BY <1>4, <2>2, Later
  <2> QED
    BY <1>1, <2>3, <2>4
<1>6. Typed'
  <2>1. signature' \in 0..csv' /\ scope' \in Scopes \cup {Absent} /\ job' \in Index!Jobs \cup {0}
        /\ (job' # 0 <=> scope' # Absent)
    BY <1>1 DEF Inv, Typed
  <2> QED
    BY <1>1, <1>2, <1>3, <1>4, <1>5, <2>1 DEF Inv, Typed
<1>7. Held' /\ Index!AnswerTrue'
  BY <1>1, <1>3 DEF Held, Index!Alive, Index!AnswerTrue
<1>8. Cancelled'
  <2>1. \A j \in withdrawn' : worker'[j].pc = "gone"
    BY <1>1, <1>2 DEF Inv, Typed, Cancelled
  <2>2. ASSUME NEW t \in Scopes
        PROVE  /\ statusFile[t].job # 0 =>
                    statusFile[t].job \in Index!Jobs /\ worker'[statusFile[t].job].pc # "none"
               /\ statusFile[t].job \in withdrawn => statusFile[t].state = "cancelled"
    BY <1>2 DEF Inv, Cancelled
  <2> QED
    BY <1>1, <2>1, <2>2 DEF Cancelled
<1> QED
  BY <1>2, <1>6, <1>7, <1>8 DEF Inv

-----------------------------------------------------------------------------
LEMMA Step == ASSUME Index!ConstantsSound, Inv, [Index!Next]_(Index!vars) PROVE Inv'
<1>1. ASSUME NEW s \in Scopes, NEW restart \in BOOLEAN, NEW revalidate \in BOOLEAN,
             Index!Ensure(s, restart, revalidate)
      PROVE  Inv'
  BY <1>1, EnsureStep
<1>2. CASE Index!ReadStatus \/ Index!ReadInbound \/ Index!ReadOutbound
  BY <1>2, ReadStep
<1>3. CASE Index!Cancel
  BY <1>3, CancelStep
<1>4. ASSUME NEW crash \in BOOLEAN, Index!ServerEnds(crash) PROVE Inv'
  BY <1>4, ServerEndsStep
<1>5. ASSUME NEW j \in Index!Jobs, Index!Work(j) \/ Index!WorkerBreaks(j) \/ Index!OrphanEnds(j)
      PROVE Inv'
  BY <1>5, LookStep, StateStep, KeepStep, StoreStep, EndStep DEF Index!Work
<1>6. CASE Index!DetailsChange \/ (\E s \in Scopes : Index!InvoiceChanges(s)) \/ UNCHANGED Index!vars
  BY <1>6, UsersStep
<1> QED
  BY <1>1, <1>2, <1>3, <1>4, <1>5, <1>6 DEF Index!Next

LEMMA Invariant == ASSUME Index!ConstantsSound PROVE Index!Spec => []Inv
<1>1. Index!Init => Inv
  BY Initially
<1>2. Inv /\ [Index!Next]_(Index!vars) => Inv'
  BY Step
<1> QED
  BY <1>1, <1>2, PTL DEF Index!Spec

LEMMA ListsFollow == ASSUME Index!ConstantsSound, Inv PROVE Index!ListsTrue
<1>1. Index!AnswerTrue /\ Index!RowsTrue
  BY DEF Inv, IndexFiles, Index!RowsTrue
<1>2. csv \in 1..(MaxChanges + 1) /\ versions \in [Scopes -> 1..(2 * MaxChanges + 1)]
  <2>1. changes \in Nat /\ MaxChanges \in Nat /\ changes <= MaxChanges
    BY DEF Inv, Typed, Index!ConstantsSound
  <2>2. csv \in 1..(MaxChanges + 1)
    BY <2>1, Later DEF Inv, Typed
  <2>3. ASSUME NEW s \in Scopes PROVE versions[s] \in 1..(2 * MaxChanges + 1)
    <3>1. versions[s] \in Nat \ {0} /\ versions[s] <= 2 * changes + 1
      BY DEF Inv, Typed
    <3>2. versions[s] <= 2 * MaxChanges + 1
      BY <2>1, <3>1, Later
    <3> QED
      BY <2>1, <3>1, <3>2
  <2> QED
    BY <2>2, <2>3 DEF Inv, Typed
<1>3. Index!TypeOK
  <2>1. \A s \in Scopes : statusFile[s].state \in Index!States
    BY DEF Inv, Typed
  <2> QED
    BY <1>2, <2>1 DEF Inv, Typed, Held, Index!TypeOK
<1> QED
  BY <1>1, <1>3 DEF Index!ListsTrue

(* What a request lists is what it says: the details of the signature its  *)
(* job was started with, and invoices as the present job found them,       *)
(* whatever workers of other jobs and of crashed servers left in the       *)
(* folder; a cached row is what was extracted from the version it names.   *)
THEOREM ListsAreTrue == ASSUME Index!ConstantsSound PROVE Index!Spec => []ListsTrue
<1>1. Inv => ListsTrue
  BY ListsFollow DEF ListsTrue
<1> QED
  BY <1>1, Invariant, PTL

(* A refresh of the page does not start a cancelled job over while no      *)
(* worker of another server writes into its folder and nothing else denies *)
(* the server the reading of its status file.                              *)
THEOREM CancelIsKept ==
  ASSUME Index!ConstantsSound, "scanner" \notin Faults
  PROVE  Index!Spec => Index!CancelKept
<1> DEFINE Kept == \A s \in Scopes :
              job \in withdrawn /\ scope = s /\ Index!Mine(s) = {} /\ statusFile[s].job = job =>
                  ~\E revalidate \in BOOLEAN : Index!Ensure(s, FALSE, revalidate) /\ job' # job
<1>1. Inv => Kept
  <2> SUFFICES ASSUME Inv, NEW s \in Scopes, job \in withdrawn, scope = s, Index!Mine(s) = {},
                      statusFile[s].job = job, NEW revalidate \in BOOLEAN,
                      Index!Ensure(s, FALSE, revalidate)
               PROVE  job' = job
    OBVIOUS
  <2>1. job # 0 /\ scope # Absent /\ statusFile[s].state = "cancelled"
    BY DEF Inv, Typed, Cancelled, Index!Jobs, Index!ConstantsSound
  <2>2. Index!Readable = {TRUE}
    BY DEF Index!Readable
  <2>3. Index!Owned(TRUE) = statusFile[s] /\ Index!Status(TRUE) = "cancelled"
    BY <2>1 DEF Index!Owned, Index!Status
  <2>4. \A expired : ~Index!Restarts("cancelled", s, FALSE, expired)
    BY DEF Index!Restarts
  <2>5. UNCHANGED <<scope, job, signature, catalog, statusFile, worker, began>>
    BY <2>2, <2>3, <2>4 DEF Index!Ensure
  <2> QED
    BY <2>5
<1>2. Inv /\ [Index!Next]_(Index!vars) => [Kept]_(Index!vars)
  BY <1>1
<1> QED
  BY <1>2, Invariant, PTL DEF Index!Spec, Index!CancelKept

-----------------------------------------------------------------------------
(* The documents an export writes (DocumentExport), for any invoices,      *)
(* files and users.                                                        *)

LEMMA LeastIs ==
  ASSUME NEW T \in SUBSET Nat, T # {}
  PROVE  \E k \in T : \A j \in T : ~(j < k)
<1> DEFINE R == OpToRel(<, Nat)
<1>1. \E k \in T : \A j \in T : ~(<<j, k>> \in R)
  BY NatLessThanWellFounded, WFMin
<1>2. \A j, k \in Nat : j < k => <<j, k>> \in R
  BY DEF OpToRel
<1> HIDE DEF R
<1> QED
  BY <1>1, <1>2

\* A finite set each part of which has a top element, in an order L, is a sequence in it.
LEMMA InSequence ==
  ASSUME NEW S, IsFiniteSet(S), NEW L,
         \A s \in SUBSET S : s # {} => \E top \in s : \A y \in s : y # top => <<y, top>> \in L
  PROVE  \E items \in [1..Cardinality(S) -> S] :
            \A i, j \in 1..Cardinality(S) : i < j => <<items[i], items[j]>> \in L
<1> DEFINE Sorts(items, s) ==
             /\ items \in [1..Cardinality(s) -> s]
             /\ \A i, j \in 1..Cardinality(s) : i < j => <<items[i], items[j]>> \in L
           Q == {s \in SUBSET S : \E items : Sorts(items, s)}
<1>1. ASSUME NEW s \in SUBSET S, \A t \in SUBSET s : t # s => t \in Q
      PROVE  s \in Q
  <2>1. IsFiniteSet(s)
    BY FS_Subset
  <2>2. CASE s = {}
    <3>1. Cardinality(s) = 0
      BY <2>2, FS_EmptySet
    <3>2. Sorts([i \in {} |-> 0], s)
      BY <3>1
    <3> QED BY <3>2
  <2>3. CASE s # {}
    <3>1. PICK top \in s : \A y \in s : y # top => <<y, top>> \in L
      BY <2>3
    <3>2. IsFiniteSet(s \ {top}) /\ Cardinality(s \ {top}) = Cardinality(s) - 1
          /\ Cardinality(s) \in Nat /\ Cardinality(s) # 0
      BY <2>1, <2>3, FS_RemoveElement, FS_CardinalityType, FS_EmptySet
    <3>3. PICK items : Sorts(items, s \ {top})
      BY <1>1, <3>2
    <3> DEFINE more == [i \in 1..Cardinality(s) |-> IF i = Cardinality(s) THEN top ELSE items[i]]
    <3>4. \A i \in 1..Cardinality(s) : i # Cardinality(s) => i \in 1..(Cardinality(s) - 1)
      BY <3>2
    <3>5. /\ items \in [1..(Cardinality(s) - 1) -> s \ {top}]
          /\ \A i, j \in 1..(Cardinality(s) - 1) : i < j => <<items[i], items[j]>> \in L
      BY <3>2, <3>3
    <3>6. more \in [1..Cardinality(s) -> s]
      BY <3>1, <3>4, <3>5
    <3>7. ASSUME NEW i \in 1..Cardinality(s), NEW j \in 1..Cardinality(s), i < j
          PROVE  <<more[i], more[j]>> \in L
      <4>1. i \in 1..(Cardinality(s) - 1) /\ more[i] = items[i]
        BY <3>2, <3>7
      <4>2. items[i] \in s /\ items[i] # top
        BY <3>5, <4>1
      <4>3. CASE j = Cardinality(s)
        BY <3>1, <4>1, <4>2, <4>3
      <4>4. CASE j # Cardinality(s)
        <5>1. j \in 1..(Cardinality(s) - 1) /\ more[j] = items[j]
          BY <3>4, <4>4
        <5> QED BY <3>5, <3>7, <4>1, <5>1
      <4> QED BY <4>3, <4>4
    <3> HIDE DEF more
    <3>8. Sorts(more, s)
      BY <3>6, <3>7
    <3> QED BY <3>8
  <2> QED BY <2>2, <2>3
<1> HIDE DEF Q
<1>2. S \in Q
  BY <1>1, SubsetInduction
<1> QED
  BY <1>2 DEF Q

(* A request has its fields, whatever they hold.                           *)
Fields ==
  [pc : {request.pc}, kind : {request.kind}, number : {request.number}, mode : {request.mode},
   batch : {request.batch}, paths : {request.paths}, found : {request.found}, doc : {request.doc},
   name : {request.name}, before : {request.before}, answer : {request.answer}]

(* The name an export writes to is one of a document; a mode that keeps     *)
(* documents took it when it was free.                                     *)
NameFree ==
  /\ request.pc # "idle" => /\ request.answer = "none" /\ request.number \in Numbers
                            /\ request.mode \in Export!InboundModes
  /\ request.pc = "write" => /\ request.name \in Export!Documents
                             /\ request.mode # "" => request.before[request.name] = Absent

ExportInv == request \in Fields /\ folder = [w \in Export!Documents |-> folder[w]] /\ NameFree

LEMMA CopyPathFree ==
  ASSUME NEW n \in Numbers, Copies \in Nat, Export!RoomForCopy(n)
  PROVE  Export!CopyPath(n) \in Export!Documents /\ folder[Export!CopyPath(n)] = Absent
<1> DEFINE free == {k \in 1..Copies : ~Export!Exists(n, k)}
           first == CHOOSE k \in 1..Copies : ~Export!Exists(n, k) /\ \A j \in 1..(k - 1) : Export!Exists(n, j)
<1>1. free \in SUBSET Nat /\ free # {}
  BY DEF Export!RoomForCopy
<1>2. PICK k \in free : \A j \in free : ~(j < k)
  BY <1>1, LeastIs
<1>3. k \in 1..Copies /\ ~Export!Exists(n, k)
  OBVIOUS
<1>4. ASSUME NEW j \in 1..(k - 1) PROVE Export!Exists(n, j)
  <2>1. j \in 1..Copies /\ j < k
    BY <1>3
  <2> QED
    BY <1>2, <2>1
<1> HIDE DEF free
<1>5. first \in 1..Copies /\ ~Export!Exists(n, first)
  BY <1>3, <1>4
<1>6. Export!CopyPath(n) = <<n, first>>
  BY DEF Export!CopyPath
<1> HIDE DEF first
<1> QED
  BY <1>5, <1>6 DEF Export!Documents, Export!Exists

LEMMA ExportInitially == Export!Init => ExportInv
<1> SUFFICES ASSUME Export!Init PROVE ExportInv
  OBVIOUS
<1>1. request \in Fields /\ request.pc = "idle"
  BY DEF Export!Init, Export!NoRequest, Fields
<1>2. folder = [w \in Export!Documents |-> folder[w]]
  BY DEF Export!Init
<1> QED
  BY <1>1, <1>2 DEF ExportInv, NameFree

(* An answer ends the request.                                             *)
LEMMA AnswerStep == ASSUME ExportInv, NEW what, Export!Answer(what) PROVE ExportInv'
BY DEF ExportInv, Fields, NameFree, Export!Answer, Export!NoRequest

LEMMA AskStep ==
  ASSUME ExportInv, NEW kind, NEW n \in Numbers, NEW mode \in Export!InboundModes, NEW batch,
         Export!Ask(kind, n, mode, batch)
  PROVE  ExportInv'
BY DEF ExportInv, Fields, NameFree, Export!Ask, Export!NoRequest

LEMMA ExportReadStep ==
  ASSUME ExportInv, Export!ReadInbound \/ Export!FindOutbound \/ Export!Identify \/ Export!Analyse
  PROVE  ExportInv'
<1>1. CASE Export!ReadInbound
  BY <1>1 DEF ExportInv, Fields, NameFree, Export!ReadInbound, Export!Reading, Export!Go
<1>2. CASE Export!FindOutbound
  BY <1>2 DEF ExportInv, Fields, NameFree, Export!FindOutbound, Export!Reading, Export!Go
<1>3. CASE Export!Identify
  <2>1. CASE Export!Answer("refused")
    BY <2>1, AnswerStep
  <2>2. CASE ~Export!Answer("refused")
    BY <1>3, <2>2 DEF ExportInv, Fields, NameFree, Export!Identify, Export!Go
  <2> QED
    BY <2>1, <2>2
<1>4. CASE Export!Analyse
  <2> DEFINE f == Head(request.paths)
             n == IF content[f] = Absent \/ content[f].broken THEN 0 ELSE content[f].rows
             found == IF request.found = <<>> \/ n > 0 THEN [file |-> f, rows |-> n, of |-> content[f]]
                      ELSE request.found
             stage == IF n > 0 \/ Tail(request.paths) = <<>> THEN "target" ELSE "identify"
  <2>1. /\ stage \in {"target", "identify"}
        /\ request' = [request EXCEPT !.found = found, !.paths = Tail(request.paths),
                         !.doc = <<found>>, !.pc = stage]
    BY <1>4 DEF Export!Analyse, Export!Go
  <2> HIDE DEF found, stage
  <2>2. folder' = folder /\ request.pc = "analyse"
    BY <1>4 DEF Export!Analyse, Export!Go
  <2> QED
    BY <2>1, <2>2 DEF ExportInv, Fields, NameFree
<1> QED
  BY <1>1, <1>2, <1>3, <1>4

LEMMA ChooseStep ==
  ASSUME Copies \in Nat, ExportInv, Export!ChooseTarget
  PROVE  ExportInv'
<1>1. /\ request \in Fields /\ request.pc = "target" /\ request.number \in Numbers
      /\ request.mode \in Export!InboundModes /\ request.answer = "none"
  BY DEF ExportInv, NameFree, Export!ChooseTarget
<1> DEFINE name == IF Export!WantsCopy THEN Export!CopyPath(request.number) ELSE Export!Main
<1>2. name \in Export!Documents /\ (request.mode # "" => folder[name] = Absent)
  <2>1. CASE Export!WantsCopy
    BY <1>1, <2>1, CopyPathFree DEF Export!ChooseTarget
  <2>2. CASE ~Export!WantsCopy
    <3>1. Export!Main \in Export!Documents
      BY <1>1 DEF Export!Main, Export!Documents
    <3>2. request.mode # "" => folder[Export!Main] = Absent
      BY <1>1, <2>2 DEF Export!WantsCopy, Export!InboundModes, Export!ChooseTarget, Export!Skips
    <3> QED
      BY <2>2, <3>1, <3>2
  <2> QED
    BY <2>1, <2>2
<1>3. request' = [request EXCEPT !.pc = "write", !.before = folder, !.name = name] /\ folder' = folder
  BY DEF Export!ChooseTarget, Export!Go
<1> HIDE DEF name
<1>4. /\ request' \in Fields' /\ request'.name = name /\ request'.before = folder
      /\ request'.number = request.number /\ request'.mode = request.mode
      /\ request'.answer = request.answer
  BY <1>1, <1>3 DEF Fields
<1> QED
  BY <1>1, <1>2, <1>3, <1>4 DEF ExportInv, NameFree

LEMMA WriteStep == ASSUME ExportInv, Export!Write PROVE ExportInv'
<1>1. folder' = [folder EXCEPT ![request.name] = Export!Document] /\ request' = [Export!NoRequest EXCEPT !.answer = "exported"]
  BY DEF Export!Write
<1>2. folder' = [w \in Export!Documents |-> folder'[w]]
  BY <1>1 DEF ExportInv
<1>3. request' \in Fields' /\ request'.pc = "idle"
  BY <1>1 DEF Export!NoRequest, Fields
<1> QED
  BY <1>2, <1>3 DEF ExportInv, NameFree

LEMMA UserStep ==
  ASSUME ExportInv, Export!Users \/ Export!Relist \/ UNCHANGED Export!vars
  PROVE  ExportInv'
<1>1. request' = request
  BY DEF Export!Users, Export!Relist, Export!ChangeFile, Export!ChangeDocument,
         Export!OpenDocument, Export!Rescan, Export!Spend, Export!vars
<1>2. folder' = [w \in Export!Documents |-> folder'[w]]
  <2>1. CASE folder' = folder
    BY <2>1 DEF ExportInv
  <2>2. ASSUME NEW w \in Export!Documents, Export!ChangeDocument(w)
        PROVE folder' = [v \in Export!Documents |-> folder'[v]]
    BY <2>2 DEF ExportInv, Export!ChangeDocument
  <2> QED
    BY <2>1, <2>2 DEF Export!Users, Export!Relist, Export!ChangeFile, Export!OpenDocument,
                      Export!Rescan, Export!vars
<1> QED
  BY <1>1, <1>2 DEF ExportInv, Fields, NameFree

LEMMA ExportStep ==
  ASSUME Copies \in Nat, ExportInv, [Export!Next]_(Export!vars)
  PROVE  ExportInv'
<1>1. CASE Export!AskInbound
  BY <1>1, AskStep DEF Export!AskInbound
<1>7. CASE Export!AskOutbound
  <2>1. {"", "copy"} \subseteq Export!InboundModes
    BY DEF Export!InboundModes
  <2>2. PICK n \in Numbers, mode \in {"", "copy"} : Export!Ask("outbound", n, mode, FALSE)
    BY <1>7 DEF Export!AskOutbound
  <2> QED
    BY <2>1, <2>2, AskStep
<1>2. CASE Export!RefuseInbound \/ Export!UnknownOutbound \/ Export!Skip \/ Export!Occupied \/ Export!NothingToCopy \/ Export!WriteFails
  BY <1>2, AnswerStep DEF Export!RefuseInbound, Export!UnknownOutbound, Export!Skip,
                          Export!Occupied, Export!NothingToCopy, Export!WriteFails
<1>3. CASE Export!ReadInbound \/ Export!FindOutbound \/ Export!Identify \/ Export!Analyse
  BY <1>3, ExportReadStep
<1>4. CASE Export!ChooseTarget
  BY <1>4, ChooseStep
<1>5. CASE Export!Write
  BY <1>5, WriteStep
<1>6. CASE Export!Relist \/ Export!Users \/ UNCHANGED Export!vars
  BY <1>6, UserStep
<1> QED
  BY <1>1, <1>2, <1>3, <1>4, <1>5, <1>6, <1>7 DEF Export!Next

(* An export that skips or copies leaves every document that was there     *)
(* when it looked as it was, for any numbers of invoices and copies and    *)
(* whatever users do to the folder meanwhile.                              *)
THEOREM DocumentsAreKept == ASSUME Copies \in Nat PROVE Export!Spec => Export!DocumentsKept
<1> DEFINE Same == (request.pc = "write" /\ request'.answer = "exported" /\ request.mode # "") =>
                      \A w \in Export!Documents : request.before[w] # Absent => folder'[w] = folder[w]
<1>1. ASSUME ExportInv, Export!Next PROVE Same
  <2> SUFFICES ASSUME request.pc = "write", request'.answer = "exported", request.mode # "",
                      NEW w \in Export!Documents, request.before[w] # Absent
               PROVE  folder'[w] = folder[w]
    OBVIOUS
  <2>1. w # request.name /\ request.answer = "none"
    BY <1>1 DEF ExportInv, NameFree
  <2>2. CASE Export!Write
    BY <1>1, <2>1, <2>2 DEF Export!Write, ExportInv
  <2>3. CASE Export!WriteFails
    BY <2>3 DEF Export!WriteFails, Export!Answer
  <2>4. request' # request
    BY <2>1
  <2>5. Export!Write \/ Export!WriteFails
    BY <1>1, <2>4 DEF Export!Next, Export!AskInbound, Export!AskOutbound, Export!Ask,
                      Export!RefuseInbound, Export!ReadInbound, Export!Reading,
                Export!UnknownOutbound, Export!FindOutbound, Export!Identify, Export!Analyse,
                Export!Skip, Export!Occupied, Export!NothingToCopy,
                Export!ChooseTarget, Export!Relist, Export!Users, Export!ChangeFile,
                Export!ChangeDocument, Export!OpenDocument, Export!Rescan, Export!Spend
  <2> QED
    BY <2>2, <2>3, <2>5
<1>2. ExportInv /\ [Export!Next]_(Export!vars) => [Same]_(Export!vars)
  BY <1>1 DEF Export!vars
<1>3. Export!Init => ExportInv
  BY ExportInitially
<1>4. ExportInv /\ [Export!Next]_(Export!vars) => ExportInv'
  BY ExportStep
<1> HIDE DEF Same
<1>5. Export!DocumentsKept <=> [][Same]_(Export!vars)
  BY DEF Export!DocumentsKept, Same
<1> QED
  BY <1>2, <1>3, <1>4, <1>5, PTL DEF Export!Spec

(* A cancelled job stays so and an export replaces no document: the index  *)
(* needs that no crash makes it look for jobs of before.                   *)
THEOREM PagesKeepChoices ==
  ASSUME Index!ConstantsSound, "scanner" \notin Faults, Copies \in Nat
  PROVE  Index!Spec /\ Export!Spec => ChoicesKept
BY CancelIsKept, DocumentsAreKept DEF ChoicesKept

-----------------------------------------------------------------------------
(* What a document is made of.                                             *)

(* The counts of the export are those of the library.                      *)
LEMMA ExportCount == \A S : Export!Cardinality(S) = Cardinality(S)
BY DEF Export!Cardinality, Cardinality

\* The same finite sets.
LEMMA ExportFinite == \A S : Export!IsFiniteSet(S) <=> IsFiniteSet(S)
BY DEF Export!IsFiniteSet, IsFiniteSet

\* Two elements make a set of at least two.
LEMMA TwoOrMore ==
  ASSUME NEW S, IsFiniteSet(S), NEW x \in S, NEW y \in S, x # y
  PROVE  Cardinality(S) >= 2
<1>1. IsFiniteSet({x}) /\ Cardinality({x}) = 1
  BY FS_Singleton
<1>2. {x} \cup {y} = {x, y} /\ y \notin {x}
  OBVIOUS
<1>3. IsFiniteSet({x, y}) /\ Cardinality({x, y}) = 2
  <2>1. IsFiniteSet({x} \cup {y}) /\ Cardinality({x} \cup {y}) = Cardinality({x}) + 1
    BY <1>1, <1>2, FS_AddElement
  <2> QED BY <1>1, <1>2, <2>1
<1>4. Cardinality({x, y}) <= Cardinality(S) /\ Cardinality(S) \in Nat
  BY FS_Subset, FS_CardinalityType
<1> QED
  BY <1>3, <1>4

\* What a function takes from a finite set is finite.
LEMMA FiniteImage ==
  ASSUME NEW h, NEW S, IsFiniteSet(S)
  PROVE  IsFiniteSet({h[x] : x \in S})
<1> DEFINE T == {h[x] : x \in S}
           g == [x \in S |-> h[x]]
<1>1. g \in Surjection(S, T)
  BY DEF Surjection
<1> HIDE DEF g, T
<1>2. IsFiniteSet(T)
  BY <1>1, FS_Surjection
<1> QED
  BY <1>2 DEF T

-----------------------------------------------------------------------------
(* Sources of the rows of an invoice.                                      *)

\* The groups of rows by source are finitely many, one for each source.
LEMMA GroupsAre ==
  ASSUME NEW list \in Seq(RowSources \X Lines)
  PROVE  /\ IsFiniteSet(Export!Groups(list))
         /\ \A i \in DOMAIN list : Export!GroupOf(list, list[i][1]) \in Export!Groups(list)
<1>1. Export!Range(list) = {list[i] : i \in DOMAIN list}
  BY DEF Export!Range
<1>2. IsFiniteSet(DOMAIN list)
  <2>1. DOMAIN list = 1..Len(list) /\ 1 \in Int /\ Len(list) \in Int
    OBVIOUS
  <2> QED BY <2>1, FS_Interval
<1>3. IsFiniteSet({list[i] : i \in DOMAIN list})
  BY <1>2, FiniteImage
<1>4. IsFiniteSet({Export!GroupOf(list, r[1]) : r \in Export!Range(list)})
  <2> DEFINE T == Export!Range(list)
             h == [r \in T |-> Export!GroupOf(list, r[1])]
  <2>1. IsFiniteSet(T)
    BY <1>1, <1>3
  <2>2. {Export!GroupOf(list, r[1]) : r \in T} = {h[r] : r \in T}
    OBVIOUS
  <2> HIDE DEF h, T
  <2>3. IsFiniteSet({h[r] : r \in T})
    BY <2>1, FiniteImage
  <2> QED BY <2>2, <2>3 DEF T
<1> QED
  BY <1>1, <1>4 DEF Export!Groups

\* Rows of one source only are all of its group.
LEMMA OneSource ==
  ASSUME NEW list \in Seq(RowSources \X Lines), Export!Cardinality(Export!Groups(list)) < 2,
         NEW k \in DOMAIN list
  PROVE  Export!GroupOf(list, list[k][1]) = list
<1> DEFINE G(i) == Export!GroupOf(list, list[i][1])
<1>1. ASSUME NEW i \in DOMAIN list PROVE G(i) = G(k)
  <2>1. G(i) \in Export!Groups(list) /\ G(k) \in Export!Groups(list) /\ IsFiniteSet(Export!Groups(list))
    BY GroupsAre
  <2>2. Cardinality(Export!Groups(list)) < 2 /\ Cardinality(Export!Groups(list)) \in Nat
    BY <2>1, ExportCount, FS_CardinalityType
  <2> HIDE DEF G
  <2>3. G(i) # G(k) => Cardinality(Export!Groups(list)) >= 2
    BY <2>1, TwoOrMore
  <2> QED BY <2>2, <2>3
<1>2. \A i \in DOMAIN list : DOMAIN G(i) = {j \in DOMAIN list : list[j][1] = list[i][1]}
  BY DEF Export!GroupOf
<1>3. \A i \in DOMAIN list : i \in DOMAIN G(i)
  BY <1>2
<1>4. \A i \in DOMAIN list : list[i][1] = list[k][1]
  <2> TAKE i \in DOMAIN list
  <2>1. i \in DOMAIN G(k)
    BY <1>1, <1>3
  <2> QED BY <1>2, <2>1
<1>5. Export!GroupOf(list, list[k][1]) = [j \in DOMAIN list |-> list[j]]
  <2>1. {j \in DOMAIN list : list[j][1] = list[k][1]} = DOMAIN list
    BY <1>4
  <2> QED BY <2>1 DEF Export!GroupOf
<1> QED
  BY <1>5

\* Sources whose signatures are equal have every line equally often.
LEMMA EquallyOften ==
  ASSUME NEW a, NEW b, Export!Signature(a) = Export!Signature(b), NEW l
  PROVE  Export!Often(l, a) = Export!Often(l, b)
<1> DEFINE On(r) == Export!Range(Export!LinesOf(r))
<1>1. On(a) = On(b) /\ \A m \in On(a) : Export!Often(m, a) = Export!Often(m, b)
  <2>1. DOMAIN Export!Signature(a) = On(a) /\ DOMAIN Export!Signature(b) = On(b)
    BY DEF Export!Signature
  <2>2. \A m \in On(a) : Export!Signature(a)[m] = Export!Often(m, a)
    BY DEF Export!Signature
  <2>3. \A m \in On(b) : Export!Signature(b)[m] = Export!Often(m, b)
    BY DEF Export!Signature
  <2> HIDE DEF On
  <2> QED BY <2>1, <2>2, <2>3
<1>2. \A r : l \notin On(r) => {i \in DOMAIN r : r[i][2] = l} = {}
  BY DEF Export!Range, Export!LinesOf
<1>3. CASE l \in On(a)
  BY <1>1, <1>3
<1>4. CASE l \notin On(a)
  <2>1. {i \in DOMAIN a : a[i][2] = l} = {}
    BY <1>2, <1>4
  <2>2. {i \in DOMAIN b : b[i][2] = l} = {}
    BY <1>1, <1>2, <1>4
  <2> QED BY <2>1, <2>2 DEF Export!Often
<1> QED
  BY <1>3, <1>4

\* Rows without a conflict have each line as often as each of their sources has it.
LEMMA RowsAgree ==
  ASSUME NEW list \in Seq(RowSources \X Lines), ~Export!Conflict(list), NEW k \in DOMAIN list, NEW l
  PROVE  Export!Often(l, Export!InboundRows(list)) = Export!Often(l, Export!GroupOf(list, list[k][1]))
<1>1. CASE Export!Cardinality(Export!Groups(list)) < 2
  <2>1. Export!GroupOf(list, list[k][1]) = list
    BY <1>1, OneSource
  <2> QED BY <1>1, <2>1 DEF Export!InboundRows
<1>2. CASE ~(Export!Cardinality(Export!Groups(list)) < 2)
  <2> DEFINE A == Export!GroupOf(list, list[1][1])
             B == Export!GroupOf(list, list[k][1])
             T == Export!Groups(list)
             F == [g \in T |-> Export!Signature(g)]
             Signs == {Export!Signature(g) : g \in T}
  <2>1. Export!InboundRows(list) = A
    BY <1>2 DEF Export!InboundRows
  <2>2. A \in T /\ B \in T /\ IsFiniteSet(T)
    <3>1. 1 \in DOMAIN list
      OBVIOUS
    <3> QED BY <3>1, GroupsAre
  <2>3. IsFiniteSet(Signs) /\ Export!Signature(A) \in Signs /\ Export!Signature(B) \in Signs
    <3>1. Signs = {F[g] : g \in T}
      OBVIOUS
    <3>2. Export!Signature(A) \in Signs /\ Export!Signature(B) \in Signs
      <4> HIDE DEF A, B, T
      <4> QED BY <2>2
    <3> HIDE DEF F, T, A, B, Signs
    <3>3. IsFiniteSet({F[g] : g \in T})
      BY <2>2, FiniteImage
    <3> QED BY <3>1, <3>2, <3>3
  <2>4. ~(Cardinality(Signs) > 1) /\ Cardinality(Signs) \in Nat
    BY <2>3, ExportCount, FS_CardinalityType DEF Export!Conflict
  <2>5. Export!Signature(A) = Export!Signature(B)
    <3> HIDE DEF Signs
    <3>1. Export!Signature(A) # Export!Signature(B) => Cardinality(Signs) >= 2
      BY <2>3, TwoOrMore
    <3> QED BY <2>4, <3>1
  <2> HIDE DEF A, B
  <2>6. Export!Often(l, A) = Export!Often(l, B)
    BY <2>5, EquallyOften
  <2> QED BY <2>1, <2>6 DEF B
<1> QED
  BY <1>1, <1>2

\* The detail holds rows of sources and lines.
DetailTyped == detail \in [Numbers -> Seq(RowSources \X Lines)]

\* A new scan writes such rows, nothing else writes any.
LEMMA DetailStays == ASSUME DetailTyped, [Export!Next]_(Export!vars) PROVE DetailTyped'
<1>1. CASE UNCHANGED detail
  BY <1>1 DEF DetailTyped
<1>2. ASSUME NEW n \in Numbers, NEW r \in Export!SomeRows, NEW now, Export!Rescan(n, r, now)
      PROVE  DetailTyped'
  <2>1. r \in Seq(RowSources \X Lines)
    <3>1. CASE r = <<>>
      BY <3>1
    <3>2. ASSUME NEW s \in RowSources, NEW t \in RowSources, NEW l \in Lines, r = << <<s, l>>, <<t, l>> >>
          PROVE  r \in Seq(RowSources \X Lines)
      <4>1. <<s, l>> \in RowSources \X Lines /\ <<t, l>> \in RowSources \X Lines
        OBVIOUS
      <4> QED BY <3>2, <4>1
    <3> QED BY <3>1, <3>2 DEF Export!SomeRows
  <2> QED BY <1>2, <2>1 DEF DetailTyped, Export!Rescan
<1> QED
  BY <1>1, <1>2 DEF Export!Next, Export!vars, Export!inputs, Export!AskInbound, Export!AskOutbound, Export!Ask,
     Export!RefuseInbound, Export!ReadInbound, Export!UnknownOutbound, Export!FindOutbound,
     Export!Identify, Export!Analyse, Export!Skip, Export!Occupied, Export!NothingToCopy,
     Export!ChooseTarget, Export!Write, Export!WriteFails, Export!Relist, Export!Users,
     Export!ChangeFile, Export!ChangeDocument, Export!OpenDocument, Export!Answer, Export!Go

(* An inbound document has every line of the invoice as often as each of   *)
(* its sources says, for any rows of any number of sources                 *)
(* (_inbound_detail_rows of projections/documents.py).                     *)
THEOREM InboundRowsOnce == Export!Spec => []Export!RowsOnce
<1>1. Export!Init => DetailTyped
  BY DEF Export!Init, DetailTyped
<1>2. DetailTyped /\ [Export!Next]_(Export!vars) => DetailTyped'
  BY DetailStays
<1>3. DetailTyped => Export!RowsOnce
  <2> SUFFICES ASSUME DetailTyped, NEW n \in Export!Listed, ~Export!Option(n).blocked,
                      NEW s \in {r[1] : r \in Export!Range(detail[n])}, NEW l \in Lines
               PROVE  Export!Often(l, Export!Option(n).rows) = Export!Often(l, Export!GroupOf(detail[n], s))
    BY DEF Export!RowsOnce
  <2>1. detail[n] \in Seq(RowSources \X Lines) /\ ~Export!Conflict(detail[n])
    BY DEF DetailTyped, Export!Listed, Export!Option
  <2>2. PICK k \in DOMAIN detail[n] : s = detail[n][k][1]
    BY DEF Export!Range
  <2>3. Export!Option(n).rows = Export!InboundRows(detail[n])
    BY DEF Export!Option
  <2> QED BY <2>1, <2>2, <2>3, RowsAgree
<1> QED
  BY <1>1, <1>2, <1>3, PTL DEF Export!Spec

(* Outbound files.                                                         *)

\* Files of the outbound folder have an order, XML first and by name.
LEMMA CandidatesAre ==
  ASSUME Export!ConstantsSound, NEW n, listed[n] \in SUBSET Outbounds, listed[n] # {}
  PROVE  Export!Candidates(n) \in Seq(Outbounds) /\ Export!Candidates(n) # <<>>
<1> DEFINE S == listed[n]
           L == {p \in S \X S : Export!Before(p[1], p[2])}
           size == Cardinality(S)
<1>1. Outbounds \subseteq Nat /\ IsFiniteSet(Outbounds) /\ Priority \in [Outbounds -> 0..2]
  BY ExportFinite DEF Export!ConstantsSound
<1>2. IsFiniteSet(S) /\ size \in Nat /\ size > 0
  <2>1. IsFiniteSet(S)
    BY <1>1, FS_Subset
  <2>2. size \in Nat /\ size # 0
    BY <2>1, FS_CardinalityType, FS_EmptySet
  <2> QED BY <2>1, <2>2
<1>3. ASSUME NEW s \in SUBSET S, s # {}
      PROVE  \E top \in s : \A y \in s : y # top => <<y, top>> \in L
  <2>1. IsFiniteSet(s) /\ s \subseteq Outbounds
    BY <1>2, FS_Subset
  <2> DEFINE P == {Priority[x] : x \in s}
  <2>2. IsFiniteSet(P) /\ P # {} /\ P \subseteq Int
    <3>1. IsFiniteSet(P)
      BY <2>1, FiniteImage
    <3>2. \A x \in s : Priority[x] \in Int
      BY <1>1, <2>1
    <3>3. \A p \in P : p \in Int
      BY <3>2
    <3>4. P # {}
      BY <1>3
    <3> QED BY <3>1, <3>3, <3>4
  <2>3. PICK high \in P : \A p \in P : p <= high
    <3> HIDE DEF P
    <3> QED BY <2>2, GreatestExists
  <2> DEFINE H == {x \in s : Priority[x] = high}
  <2>4. IsFiniteSet(H) /\ H # {} /\ H \subseteq Int
    <3>1. IsFiniteSet(H)
      BY <2>1, FS_Subset
    <3>2. \A x \in H : x \in Int
      BY <1>1, <2>1
    <3>3. H # {}
      BY <2>3
    <3> QED BY <3>1, <3>2, <3>3
  <2>5. PICK top \in H : \A y \in H : y <= top
    <3> HIDE DEF H
    <3> QED BY <2>4, GreatestExists
  <2>6. ASSUME NEW y \in s, y # top PROVE <<y, top>> \in L
    <3>1. y \in S /\ top \in S /\ top \in s /\ Priority[top] = high
      <4>1. top \in s /\ Priority[top] = high
        BY <2>5
      <4> HIDE DEF S
      <4> QED BY <4>1
    <3>2. y \in Nat /\ top \in Nat /\ Priority[y] \in Nat /\ Priority[top] \in Nat
      <4>1. y \in Outbounds /\ top \in Outbounds
        BY <3>1
      <4>2. Priority[y] \in 0..2 /\ Priority[top] \in 0..2 /\ y \in Nat /\ top \in Nat
        BY <1>1, <4>1
      <4> QED BY <4>2
    <3>3. Priority[y] <= Priority[top]
      BY <2>3, <3>1
    <3>4. Priority[y] = Priority[top] => y < top
      <4> SUFFICES ASSUME Priority[y] = Priority[top] PROVE y < top
        OBVIOUS
      <4>1. y \in H
        BY <3>1
      <4>2. y <= top /\ y # top
        BY <2>5, <2>6, <4>1
      <4> QED BY <3>2, <4>2
    <3>5. Export!Before(y, top)
      BY <3>2, <3>3, <3>4 DEF Export!Before
    <3> QED BY <3>1, <3>5
  <2> QED BY <2>5, <2>6
<1>4. PICK items \in [1..size -> S] : \A i, j \in 1..size : i < j => <<items[i], items[j]>> \in L
  <2> HIDE DEF S, L
  <2> QED BY <1>2, <1>3, InSequence DEF S
<1>5. Export!InOrder(items)
  BY <1>4 DEF Export!InOrder
<1>6. Export!Candidates(n) \in [1..size -> S]
  <2>1. Export!Cardinality(S) = size
    BY ExportCount
  <2> QED BY <1>4, <1>5, <2>1 DEF Export!Candidates
<1>7. \A s \in [1..size -> S] : s \in Seq(Outbounds) /\ Len(s) = size
  BY <1>1, <1>2
<1> QED
  BY <1>2, <1>6, <1>7

\* At some moment of the request the file was the invoice that is asked for.
WasAsked(f) == \E c \in seen[f] \ {Absent} : ~c.broken /\ Export!NumberOf(f, c) = request.number

(* Whatever a file is now was seen; the file looked at, the one found and   *)
(* the one the document is made of were the asked invoice.                 *)
OutInv ==
  /\ request \in Fields
  /\ content \in [Outbounds -> Export!Contents]
  /\ seen = [f \in Outbounds |-> seen[f]]
  /\ listed \in [Numbers -> SUBSET Outbounds]
  /\ request.pc # "idle" => request.number \in Numbers
  /\ request.pc = "read" => request.found = <<>>
  /\ (request.kind = "outbound" /\ request.pc # "read") =>
       /\ \A f \in Outbounds : content[f] \in seen[f]
       /\ request.pc \in {"identify", "analyse"} =>
             /\ request.paths \in Seq(Outbounds) /\ request.paths # <<>>
             /\ request.found # <<>> => request.found.file \in Outbounds /\ WasAsked(request.found.file)
       /\ request.pc = "analyse" => WasAsked(Head(request.paths))
       /\ request.pc \in {"target", "write"} =>
             request.doc[1].file \in Outbounds /\ WasAsked(request.doc[1].file)

\* At the start nothing is asked.
LEMMA OutInitially == ASSUME Export!Init PROVE OutInv
<1>1. request \in Fields /\ request.pc = "idle" /\ request.kind = "inbound"
  BY DEF Export!Init, Export!NoRequest, Fields
<1>2. content \in [Outbounds -> Export!Contents] /\ listed \in [Numbers -> SUBSET Outbounds]
  BY DEF Export!Init
<1>3. seen = [f \in Outbounds |-> seen[f]]
  BY DEF Export!Init
<1> QED
  BY <1>1, <1>2, <1>3 DEF OutInv

\* A request that ends has looked at nothing.
LEMMA OutAnswer == ASSUME OutInv, NEW what, Export!Answer(what) PROVE OutInv'
<1>1. request' \in Fields' /\ request'.kind = "inbound" /\ request'.pc = "idle"
  BY DEF Export!Answer, Export!NoRequest, Fields
<1>2. UNCHANGED <<content, seen, listed>>
  BY DEF Export!Answer, Export!inputs
<1> QED
  BY <1>1, <1>2 DEF OutInv

\* A request that begins has found nothing.
LEMMA OutAsk ==
  ASSUME OutInv, NEW kind, NEW n \in Numbers, NEW mode, NEW batch, Export!Ask(kind, n, mode, batch)
  PROVE  OutInv'
<1>1. request' \in Fields' /\ request'.pc = "read" /\ request'.number = n /\ request'.found = <<>>
  BY DEF Export!Ask, Export!NoRequest, Fields
<1>2. UNCHANGED <<content, seen, listed>>
  BY DEF Export!Ask, Export!inputs
<1> QED
  BY <1>1, <1>2 DEF OutInv

\* The list names the files to look at, and what each is now is seen.
LEMMA OutFind == ASSUME Export!ConstantsSound, OutInv, Export!FindOutbound PROVE OutInv'
<1>1. /\ request.number \in Numbers /\ listed[request.number] # {}
      /\ request.found = <<>>
  BY DEF OutInv, Export!FindOutbound, Export!Reading
<1> DEFINE n == request.number
           items == Export!Candidates(n)
<1>2. items \in Seq(Outbounds) /\ items # <<>>
  <2>1. listed[n] \in SUBSET Outbounds
    BY <1>1 DEF OutInv
  <2> QED BY <1>1, <2>1, CandidatesAre
<1>3. /\ request' = [request EXCEPT !.pc = "identify", !.paths = items]
      /\ seen' = [f \in Outbounds |-> {content[f]}] /\ content' = content /\ listed' = listed
  BY DEF Export!FindOutbound, Export!Go, Export!inputs
<1> HIDE DEF items
<1>4. /\ request' \in Fields' /\ request'.pc = "identify" /\ request'.paths = items
      /\ request'.number = request.number /\ request'.found = request.found
  BY <1>3 DEF OutInv, Fields
<1>5. seen' = [f \in Outbounds |-> seen'[f]] /\ \A f \in Outbounds : content'[f] \in seen'[f]
  BY <1>3
<1> QED
  BY <1>1, <1>2, <1>3, <1>4, <1>5 DEF OutInv

\* A file that is the asked invoice now was it at some moment.
LEMMA SameWasAsked ==
  ASSUME OutInv, request.kind = "outbound", request.pc # "read", NEW f \in Outbounds,
         content[f] # Absent, Export!SameInvoice(f, request.number)
  PROVE  WasAsked(f)
<1>1. content[f] \in seen[f] \ {Absent}
  BY DEF OutInv
<1> QED
  BY <1>1 DEF WasAsked, Export!SameInvoice

\* Requests that leave number and kind alone keep what was seen of a file.
LEMMA StillSeen ==
  ASSUME NEW f, request'.number = request.number,
         seen[f] \subseteq seen'[f], WasAsked(f)
  PROVE  WasAsked(f)'
BY DEF WasAsked, Export!NumberOf

\* A file that is accepted is the asked invoice now.
LEMMA OutIdentify == ASSUME OutInv, Export!Identify PROVE OutInv'
<1>1. CASE Export!Answer("refused")
  BY <1>1, OutAnswer
<1>2. CASE ~Export!Answer("refused")
  <2> DEFINE f == Head(request.paths)
  <2>1. /\ content[f] # Absent /\ Export!SameInvoice(f, request.number)
        /\ request' = [request EXCEPT !.pc = "analyse"]
        /\ request.pc = "identify" /\ UNCHANGED <<content, seen, listed>>
    BY <1>2 DEF Export!Identify, Export!Go, Export!inputs
  <2>2. /\ request' \in Fields' /\ request'.pc = "analyse" /\ request'.paths = request.paths
        /\ request'.found = request.found /\ request'.kind = request.kind
        /\ request'.number = request.number
    BY <2>1 DEF OutInv, Fields
  <2>3. CASE request.kind # "outbound"
    BY <2>1, <2>2, <2>3 DEF OutInv
  <2>4. CASE request.kind = "outbound"
    <3>1. request.paths \in Seq(Outbounds) /\ request.paths # <<>>
      BY <2>1, <2>4 DEF OutInv
    <3>2. f \in Outbounds
      BY <3>1
    <3>3. WasAsked(f)
      BY <2>1, <2>4, <3>2, SameWasAsked
    <3>4. WasAsked(f)'
      BY <2>1, <2>2, <3>3 DEF WasAsked, Export!NumberOf
    <3>5. request.found # <<>> => WasAsked(request.found.file)'
      BY <2>1, <2>2, <2>4 DEF OutInv, WasAsked, Export!NumberOf
    <3> QED BY <2>1, <2>2, <2>4, <3>4, <3>5 DEF OutInv
  <2> QED BY <2>3, <2>4
<1> QED
  BY <1>1, <1>2

\* The file found is one that was accepted.
LEMMA OutAnalyse == ASSUME OutInv, Export!Analyse PROVE OutInv'
<1> DEFINE f == Head(request.paths)
           n == IF content[f] = Absent \/ content[f].broken THEN 0 ELSE content[f].rows
           this == [file |-> f, rows |-> n, of |-> content[f]]
           found == IF request.found = <<>> \/ n > 0 THEN this ELSE request.found
           rest == Tail(request.paths)
           stage == IF n > 0 \/ rest = <<>> THEN "target" ELSE "identify"
<1>1. /\ request.pc = "analyse" /\ UNCHANGED <<content, seen, listed>>
      /\ request' = [request EXCEPT !.found = found, !.paths = rest, !.doc = <<found>>, !.pc = stage]
  BY DEF Export!Analyse, Export!Go, Export!inputs
<1>2. stage \in {"target", "identify"} /\ (stage = "identify" => rest # <<>>)
  OBVIOUS
<1>3. found = this \/ (request.found # <<>> /\ found = request.found)
  OBVIOUS
<1>4. this.file = f
  OBVIOUS
<1> HIDE DEF found, stage, this
<1>5. /\ request' \in Fields' /\ request'.pc = stage /\ request'.paths = rest
      /\ request'.found = found /\ request'.doc = <<found>> /\ request'.kind = request.kind
      /\ request'.number = request.number
  BY <1>1 DEF OutInv, Fields
<1>6. CASE request.kind # "outbound"
  BY <1>1, <1>2, <1>5, <1>6 DEF OutInv
<1>7. CASE request.kind = "outbound"
  <2>1. /\ request.paths \in Seq(Outbounds) /\ request.paths # <<>> /\ WasAsked(f)
        /\ request.found # <<>> => request.found.file \in Outbounds /\ WasAsked(request.found.file)
    BY <1>1, <1>7 DEF OutInv
  <2>2. f \in Outbounds /\ rest \in Seq(Outbounds)
    BY <2>1
  <2>3. PICK g \in Outbounds : g = found.file /\ WasAsked(g)
    BY <1>3, <1>4, <2>1, <2>2
  <2>4. WasAsked(g)'
    BY <1>1, <1>5, <2>3 DEF WasAsked, Export!NumberOf
  <2>5. request'.doc[1].file = g /\ request'.found.file = g
    BY <1>5, <2>3
  <2> QED BY <1>1, <1>2, <1>5, <1>7, <2>2, <2>3, <2>4, <2>5 DEF OutInv
<1> QED
  BY <1>6, <1>7

\* The document is of the file found.
LEMMA OutChoose == ASSUME OutInv, Export!ChooseTarget PROVE OutInv'
<1> DEFINE name == IF Export!WantsCopy THEN Export!CopyPath(request.number) ELSE Export!Main
<1>1. /\ request.pc = "target" /\ UNCHANGED <<content, seen, listed>>
      /\ request' = [request EXCEPT !.pc = "write", !.before = folder, !.name = name]
  BY DEF Export!ChooseTarget, Export!Go, Export!inputs
<1> HIDE DEF name
<1>2. /\ request' \in Fields' /\ request'.pc = "write" /\ request'.doc = request.doc
      /\ request'.kind = request.kind /\ request'.number = request.number
  BY <1>1 DEF OutInv, Fields
<1>3. request.kind = "outbound" => WasAsked(request.doc[1].file)'
  BY <1>1, <1>2 DEF OutInv, WasAsked, Export!NumberOf
<1> QED
  BY <1>1, <1>2, <1>3 DEF OutInv

\* An inbound request looks at no outbound file.
LEMMA OutInbound == ASSUME OutInv, Export!ReadInbound PROVE OutInv'
<1>1. /\ request.kind = "inbound" /\ request.pc = "read" /\ UNCHANGED <<content, seen, listed>>
      /\ request' = [request EXCEPT !.pc = "target", !.doc = Export!Option(request.number).rows]
  BY DEF Export!ReadInbound, Export!Reading, Export!Go, Export!inputs
<1>2. /\ request' \in Fields' /\ request'.pc = "target" /\ request'.kind = "inbound"
      /\ request'.number = request.number
  BY <1>1 DEF OutInv, Fields
<1> QED
  BY <1>1, <1>2 DEF OutInv

\* What a user puts in place is seen too.
LEMMA OutChange ==
  ASSUME OutInv, NEW f \in Outbounds, NEW c \in Export!Contents, Export!ChangeFile(f, c)
  PROVE  OutInv'
<1>1. /\ UNCHANGED <<request, listed>> /\ content' = [content EXCEPT ![f] = c]
      /\ seen' = [seen EXCEPT ![f] = @ \cup {c}]
  BY DEF Export!ChangeFile, Export!Spend
<1>2. /\ content \in [Outbounds -> Export!Contents] /\ seen = [g \in Outbounds |-> seen[g]]
      /\ request.kind = "outbound" /\ request.pc # "read" => \A g \in Outbounds : content[g] \in seen[g]
  BY DEF OutInv
<1>3. content' \in [Outbounds -> Export!Contents]
  BY <1>1, <1>2
<1>4. seen' = [g \in Outbounds |-> seen'[g]]
  BY <1>1, <1>2
<1>5. \A g \in Outbounds : seen[g] \subseteq seen'[g]
  BY <1>1, <1>2
<1>6. request.kind = "outbound" /\ request.pc # "read" => \A g \in Outbounds : content'[g] \in seen'[g]
  BY <1>1, <1>2
<1>7. \A g \in Outbounds : WasAsked(g) => WasAsked(g)'
  <2> TAKE g \in Outbounds
  <2>1. seen[g] \subseteq seen'[g] /\ request' = request
    BY <1>1, <1>5
  <2> QED BY <2>1, StillSeen
<1>8. Export!Contents' = Export!Contents /\ request' \in Fields'
  BY <1>1 DEF Export!Contents, OutInv, Fields
<1> QED
  BY <1>1, <1>3, <1>4, <1>6, <1>7, <1>8 DEF OutInv

\* A new list changes nothing for a request that has its files.
LEMMA OutSame ==
  ASSUME OutInv, UNCHANGED <<content, seen, request>>, listed' \in [Numbers -> SUBSET Outbounds]
  PROVE  OutInv'
BY DEF OutInv, Fields, WasAsked, Export!NumberOf, Export!Contents

\* Every step keeps the invariant.
LEMMA OutStep ==
  ASSUME Export!ConstantsSound, OutInv, [Export!Next]_(Export!vars)
  PROVE  OutInv'
<1>1. CASE Export!AskInbound \/ Export!AskOutbound
  BY <1>1, OutAsk DEF Export!AskInbound, Export!AskOutbound
<1>2. CASE Export!RefuseInbound \/ Export!UnknownOutbound \/ Export!Skip \/ Export!Occupied
           \/ Export!NothingToCopy \/ Export!WriteFails
  BY <1>2, OutAnswer DEF Export!RefuseInbound, Export!UnknownOutbound, Export!Skip,
                         Export!Occupied, Export!NothingToCopy, Export!WriteFails
<1>3. CASE Export!ReadInbound
  BY <1>3, OutInbound
<1>4. CASE Export!FindOutbound
  BY <1>4, OutFind
<1>5. CASE Export!Identify
  BY <1>5, OutIdentify
<1>6. CASE Export!Analyse
  BY <1>6, OutAnalyse
<1>7. CASE Export!ChooseTarget
  BY <1>7, OutChoose
<1>8. CASE Export!Write
  <2>1. Export!Write => request' = [Export!NoRequest EXCEPT !.answer = "exported"]
                        /\ UNCHANGED <<content, seen, listed>>
    BY DEF Export!Write, Export!inputs
  <2>2. request' \in Fields' /\ request'.kind = "inbound" /\ request'.pc = "idle"
    BY <1>8, <2>1 DEF Export!NoRequest, Fields
  <2> QED BY <1>8, <2>1, <2>2 DEF OutInv
<1>9. CASE Export!Relist
  <2>1. listed' \in [Numbers -> SUBSET Outbounds] /\ UNCHANGED <<content, seen, request>>
    BY <1>9 DEF Export!Relist, Export!Catalog
  <2> QED BY <2>1, OutSame
<1>10. CASE Export!Users
  <2>1. ASSUME NEW f \in Outbounds, NEW c \in Export!Contents, Export!ChangeFile(f, c)
        PROVE  OutInv'
    BY <2>1, OutChange
  <2>2. CASE UNCHANGED <<content, seen, request, listed>>
    BY <2>2, OutSame DEF OutInv
  <2> QED BY <1>10, <2>1, <2>2 DEF Export!Users, Export!ChangeDocument, Export!OpenDocument,
                                  Export!Rescan, Export!Spend, Export!inputs
<1>11. CASE UNCHANGED Export!vars
  <2>1. UNCHANGED <<content, seen, request, listed>>
    BY <1>11 DEF Export!vars, Export!inputs
  <2> QED BY <2>1, OutSame DEF OutInv
<1> QED
  BY <1>1, <1>2, <1>3, <1>4, <1>5, <1>6, <1>7, <1>8, <1>9, <1>10, <1>11 DEF Export!Next

(* The file an outbound document is made of was the asked invoice at some   *)
(* moment of the export, however old the list that named it is and          *)
(* whatever users do to the files meanwhile, for any files                  *)
(* (build_outbound_preview of projections/documents.py).                    *)
THEOREM OutboundIsOfTheAsked ==
  ASSUME Export!ConstantsSound
  PROVE  Export!Spec => []Export!OutboundIsAsked
<1>1. Export!Init => OutInv
  BY OutInitially
<1>2. OutInv /\ [Export!Next]_(Export!vars) => OutInv'
  BY OutStep
<1>3. OutInv => Export!OutboundIsAsked
  BY DEF OutInv, WasAsked, Export!OutboundIsAsked
<1> QED
  BY <1>1, <1>2, <1>3, PTL DEF Export!Spec

\* For any cost rows of any sources and any files, however they change and however old the
\* list is: a document has the rows of its invoice once, and an outbound one is of a file
\* that was the asked invoice (_inbound_detail_rows, build_outbound_preview).
THEOREM DocumentsAreTrue ==
  ASSUME Export!ConstantsSound
  PROVE  Export!Spec => []DocumentsTrue
<1>1. Export!RowsOnce /\ Export!OutboundIsAsked => DocumentsTrue
  BY DEF DocumentsTrue
<1> QED
  BY <1>1, InboundRowsOnce, OutboundIsOfTheAsked, PTL

-----------------------------------------------------------------------------
(* The ticked invoices of the list (InvoiceSelection), for any files and   *)
(* threads: what the page is told of its ticks counts every invoice once.  *)

\* The list takes the sums, counts and finite sets of the library.
LEMMA ListSum == \A f, S : List!SumFunctionOnSet(f, S) = SumFunctionOnSet(f, S)
BY DEF List!SumFunctionOnSet, List!FoldFunctionOnSet, List!MapThenFoldSet,
       SumFunctionOnSet, FoldFunctionOnSet, MapThenFoldSet

\* The same count.
LEMMA ListCount == \A S : List!Cardinality(S) = Cardinality(S)
BY DEF List!Cardinality, Cardinality

\* The same finite sets.
LEMMA ListFinite == \A S : List!IsFiniteSet(S) <=> IsFiniteSet(S)
BY DEF List!IsFiniteSet, IsFiniteSet

\* A finite set of files has a sequence in the order of the scan.
LEMMA RowsOrdered ==
  ASSUME NEW S \in SUBSET Nat, IsFiniteSet(S)
  PROVE  List!Rows(S) \in [1..Cardinality(S) -> S] /\ List!Increasing(List!Rows(S))
<1> DEFINE L == {p \in Nat \X Nat : p[1] < p[2]}
<1>1. ASSUME NEW s \in SUBSET S, s # {}
      PROVE  \E top \in s : \A y \in s : y # top => <<y, top>> \in L
  <2>1. \A x \in s : x \in Nat
    OBVIOUS
  <2>2. IsFiniteSet(s) /\ s \subseteq Int
    <3>1. \A n \in Nat : n \in Int
      OBVIOUS
    <3>2. IsFiniteSet(s)
      BY FS_Subset
    <3>3. \A x \in s : x \in Int
      BY <2>1, <3>1
    <3>4. s \subseteq Int
      BY <3>3
    <3> QED BY <3>2, <3>4
  <2>3. PICK top \in s : \A y \in s : y <= top
    BY <1>1, <2>2, GreatestExists
  <2>4. ASSUME NEW y \in s, y # top PROVE <<y, top>> \in L
    <3>1. y <= top /\ y # top
      BY <2>3, <2>4
    <3>2. y \in Nat /\ top \in Nat
      BY <2>1
    <3>3. y < top
      BY <3>1, <3>2
    <3> QED BY <3>2, <3>3
  <2> QED BY <2>4
<1> HIDE DEF L
<1>2. PICK items \in [1..Cardinality(S) -> S] :
         \A i, j \in 1..Cardinality(S) : i < j => <<items[i], items[j]>> \in L
  BY <1>1, InSequence
<1>3. List!Increasing(items)
  BY <1>2 DEF L, List!Increasing
<1>4. List!Cardinality(S) = Cardinality(S)
  BY ListCount
<1> QED
  BY <1>2, <1>3, <1>4 DEF List!Rows

-----------------------------------------------------------------------------
\* A file has a number or none, and an amount.
NumbersTyped ==
  /\ number \in [Files -> {Absent} \cup Range(Copy)] /\ amount \in [Files -> 0..2]

\* What the constants say of files and copies.
LEMMA FilesAre ==
  ASSUME List!ConstantsSound
  PROVE  /\ Files \subseteq Nat /\ IsFiniteSet(Files) /\ Absent \notin Files
         /\ \A f \in Files : Copy[f] \notin Files /\ Copy[f] # Absent /\ Copy[f] \in Range(Copy)
BY ListFinite DEF List!ConstantsSound, List!Range, Range

\* Where the numbers are true, the files of a family are those that show one invoice.
LEMMA FamilyIsSame ==
  ASSUME List!ConstantsSound, List!TrueNumbers, NEW f \in Files, NEW g \in Files
  PROVE  List!FamilyKey(f) = List!FamilyKey(g) <=> List!Same(f, g)
<1>1. number[f] \in {Absent, Copy[f]} /\ number[g] \in {Absent, Copy[g]}
      /\ FileNumber[f] \in {Absent, Copy[f]} /\ FileNumber[g] \in {Absent, Copy[g]}
  BY DEF List!TrueNumbers
<1>2. Copy[f] \notin Files /\ Copy[g] \notin Files /\ Copy[f] # Absent /\ Copy[g] # Absent
  BY FilesAre
<1>3. List!FamilyKey(f) = IF {number[f], FileNumber[f]} # {Absent} THEN Copy[f] ELSE f
  BY <1>1, <1>2 DEF List!FamilyKey
<1>4. List!FamilyKey(g) = IF {number[g], FileNumber[g]} # {Absent} THEN Copy[g] ELSE g
  BY <1>1, <1>2 DEF List!FamilyKey
<1> QED
  BY <1>2, <1>3, <1>4 DEF List!Same

\* The files ticked fall into families, each file into its own.
LEMMA FamiliesAre ==
  ASSUME List!ConstantsSound, NEW S \in SUBSET Files
  PROVE  /\ IsFiniteSet(List!Families(S)) /\ IsFiniteSet(S)
         /\ \A F \in List!Families(S) : F \subseteq S /\ F # {}
         /\ \A f \in S : List!Family(f, S) \in List!Families(S) /\ f \in List!Family(f, S)
         /\ \A F \in List!Families(S) : \A f \in F : F = List!Family(f, S)
<1>1. IsFiniteSet(S)
  BY FilesAre, FS_Subset
<1>2. IsFiniteSet(List!Families(S))
  <2>1. [f \in S |-> List!Family(f, S)] \in Surjection(S, List!Families(S))
    BY DEF Surjection, List!Families
  <2> QED BY <1>1, <2>1, FS_Surjection
<1>3. \A f \in S : List!Family(f, S) \in List!Families(S) /\ f \in List!Family(f, S)
  BY DEF List!Family, List!Families
<1>4. \A F \in List!Families(S) : F \subseteq S /\ F # {}
  BY DEF List!Family, List!Families
<1>5. \A F \in List!Families(S) : \A f \in F : F = List!Family(f, S)
  BY DEF List!Family, List!Families
<1> QED
  BY <1>1, <1>2, <1>3, <1>4, <1>5

\* A family has finitely many amounts, and its one amount when they agree.
LEMMA ValuesAre ==
  ASSUME NumbersTyped, NEW F \in SUBSET Files
  PROVE  /\ IsFiniteSet(List!Values(F)) /\ List!Values(F) \subseteq 1..2
         /\ List!Cardinality(List!Values(F)) = Cardinality(List!Values(F))
         /\ Cardinality(List!Values(F)) \in Nat
         /\ \A v : (List!Values(F) = {v}) => (Cardinality(List!Values(F)) = 1 /\ List!Max(List!Values(F)) = v)
         /\ Cardinality(List!Values(F)) = 1 => \E v \in 1..2 : List!Values(F) = {v}
<1>1. List!Values(F) \subseteq 1..2
  BY DEF List!Values, NumbersTyped
<1>2. IsFiniteSet(List!Values(F))
  <2>1. IsFiniteSet(1..2)
    <3>1. 1 \in Int /\ 2 \in Int
      OBVIOUS
    <3> QED BY <3>1, FS_Interval, Zenon
  <2> QED BY <1>1, <2>1, FS_Subset
<1>3. Cardinality(List!Values(F)) \in Nat
  BY <1>2, FS_CardinalityType
<1>4. ASSUME NEW v, List!Values(F) = {v}
      PROVE  Cardinality(List!Values(F)) = 1 /\ List!Max(List!Values(F)) = v
  <2>1. v \in 1..2
    BY <1>1, <1>4
  <2>2. List!Max({v}) = v
    <3>1. v >= v
      BY <2>1
    <3>2. List!Max({v}) \in {v}
      BY <3>1 DEF List!Max
    <3> QED BY <3>2
  <2> QED BY <1>4, <2>2, FS_Singleton
<1>5. ASSUME Cardinality(List!Values(F)) = 1
      PROVE  \E v \in 1..2 : List!Values(F) = {v}
  <2>1. PICK v : List!Values(F) = {v}
    BY <1>2, <1>5, FS_Singleton
  <2> QED BY <1>1, <2>1
<1> QED
  BY <1>1, <1>2, <1>3, <1>4, <1>5, ListCount

\* An amount that is not zero is one of the values of its family.
LEMMA ValueOf ==
  ASSUME NEW F, NEW v
  PROVE  v \in List!Values(F) <=> v # 0 /\ \E f \in F : amount[f] = v
BY DEF List!Values

\* The files that stand for the families of one value.
OneValue(S) == {F \in List!Families(S) : Cardinality(List!Values(F)) = 1}
Worth(S) == [F \in List!Families(S) |->
               IF Cardinality(List!Values(F)) = 1 THEN List!Max(List!Values(F)) ELSE 0]
Stands(S) == [F \in OneValue(S) |-> CHOOSE f \in F : amount[f] = Worth(S)[F]]

\* The file that stands for a family has the amount all its files have.
LEMMA StandsFor ==
  ASSUME List!ConstantsSound, NumbersTyped, NEW S \in SUBSET Files, NEW F \in OneValue(S)
  PROVE  /\ F \in List!Families(S) /\ Stands(S)[F] \in F
         /\ amount[Stands(S)[F]] = Worth(S)[F] /\ Worth(S)[F] \in 1..2
         /\ List!Values(F) = {Worth(S)[F]}
<1>1. F \in List!Families(S) /\ Cardinality(List!Values(F)) = 1
  BY DEF OneValue
<1>2. F \in SUBSET Files
  BY <1>1, FamiliesAre
<1>3. PICK v \in 1..2 : List!Values(F) = {v}
  BY <1>1, <1>2, ValuesAre
<1>4. Worth(S)[F] = v
  BY <1>1, <1>2, <1>3, ValuesAre DEF Worth
<1>5. \E f \in F : amount[f] = Worth(S)[F]
  BY <1>3, <1>4, ValueOf
<1>6. Stands(S)[F] = CHOOSE f \in F : amount[f] = Worth(S)[F]
  BY DEF Stands
<1> QED
  BY <1>1, <1>3, <1>4, <1>5, <1>6

\* The total is the sum of one file of each family that agrees.
LEMMA TotalIs ==
  ASSUME List!ConstantsSound, NumbersTyped, NEW S \in SUBSET Files
  PROVE  List!Total(S) = SumFunctionOnSet(amount, {Stands(S)[F] : F \in OneValue(S)})
<1> DEFINE Fs == List!Families(S)
           T == OneValue(S)
           w == Worth(S)
           r == Stands(S)
           k == [F \in T |-> amount[r[F]]]
<1>1. IsFiniteSet(Fs) /\ T \subseteq Fs /\ DOMAIN w = Fs
  BY FamiliesAre DEF OneValue, Worth
<1>2. IsFiniteSet(T) /\ IsFiniteSet(Fs \ T)
  BY <1>1, FS_Subset, FS_Difference
<1>3. \A F \in Fs : F \in T => w[F] \in Int /\ amount[r[F]] = w[F]
  BY StandsFor
<1>4. \A F \in Fs \ T : w[F] = 0
  BY DEF OneValue, Worth
<1>5. \A F \in T, G \in T : r[F] = r[G] => F = G
  BY FamiliesAre, StandsFor
<1>6. List!Total(S) = SumFunctionOnSet(w, Fs)
  <2>1. w = [F \in Fs |-> IF List!Cardinality(List!Values(F)) = 1 THEN List!Max(List!Values(F)) ELSE 0]
    BY ListCount DEF Worth
  <2> QED BY <1>1, <2>1, ListSum DEF List!Total, List!SumFunction
<1> HIDE DEF Fs, T, w, r
<1>7. \A F \in Fs : w[F] \in Int
  BY <1>3, <1>4
<1>8. SumFunctionOnSet(w, Fs) = SumFunctionOnSet(w, T) + SumFunctionOnSet(w, Fs \ T)
  BY <1>1, <1>7, SumSplit
<1>9. SumFunctionOnSet(w, Fs \ T) = 0
  BY <1>2, <1>4, SumZero
<1>10. SumFunctionOnSet(w, T) \in Int
  BY <1>1, <1>2, <1>3, SumInt
<1>11. SumFunctionOnSet(amount, {r[F] : F \in T}) = SumFunctionOnSet(k, T)
  <2>1. \A F \in T : amount[r[F]] \in Int
    BY <1>1, <1>3
  <2> QED BY <1>2, <1>5, <2>1, SumImage
<1>12. SumFunctionOnSet(k, T) = SumFunctionOnSet(w, T)
  <2>1. \A F \in T : k[F] = w[F]
    BY <1>1, <1>3
  <2> HIDE DEF k
  <2> QED BY <1>2, <2>1, SumEqual
<1>13. List!Total(S) = SumFunctionOnSet(amount, {r[F] : F \in T})
  BY <1>6, <1>8, <1>9, <1>10, <1>11, <1>12
<1> QED
  BY <1>13 DEF r, T

\* An invoice that is ticked in several formats counts once.
LEMMA CountedMoney ==
  ASSUME List!ConstantsSound, List!TrueNumbers, NumbersTyped, NEW S \in SUBSET Files
  PROVE  \E R \in SUBSET S :
            /\ List!Total(S) = List!SumFunctionOnSet(amount, R)
            /\ \A f, g \in R : List!Same(f, g) => f = g
            /\ \A f \in S : amount[f] # 0 =>
                 \/ \E g \in R : List!Same(f, g) /\ amount[g] = amount[f]
                 \/ /\ List!Cardinality(List!Conflicts(S)) > 0
                    /\ \E g \in S : List!Same(f, g) /\ amount[g] \notin {0, amount[f]}
<1> DEFINE R == {Stands(S)[F] : F \in OneValue(S)}
<1>1. R \in SUBSET S
  BY StandsFor, FamiliesAre
<1>2. List!Total(S) = List!SumFunctionOnSet(amount, R)
  BY TotalIs, ListSum
<1>3. ASSUME NEW f \in R, NEW g \in R, List!Same(f, g) PROVE f = g
  <2>1. PICK F \in OneValue(S) : f = Stands(S)[F]
    OBVIOUS
  <2>2. PICK G \in OneValue(S) : g = Stands(S)[G]
    OBVIOUS
  <2>3. F = List!Family(f, S) /\ G = List!Family(g, S)
    BY <2>1, <2>2, StandsFor, FamiliesAre
  <2>4. List!FamilyKey(f) = List!FamilyKey(g)
    <3>1. f \in Files /\ g \in Files
      BY <1>1
    <3> QED BY <1>3, <3>1, FamilyIsSame
  <2>5. F = G
    BY <2>3, <2>4 DEF List!Family
  <2> QED BY <2>1, <2>2, <2>5
<1>4. ASSUME NEW f \in S, NEW g \in List!Family(f, S) PROVE g \in S /\ List!Same(f, g)
  <2>1. g \in S /\ List!FamilyKey(g) = List!FamilyKey(f)
    BY DEF List!Family
  <2>2. f \in Files /\ g \in Files
    BY <2>1
  <2> QED BY <2>1, <2>2, FamilyIsSame
<1>5. ASSUME NEW f \in S, amount[f] # 0
      PROVE  \/ \E g \in R : List!Same(f, g) /\ amount[g] = amount[f]
             \/ /\ List!Cardinality(List!Conflicts(S)) > 0
                /\ \E g \in S : List!Same(f, g) /\ amount[g] \notin {0, amount[f]}
  <2> DEFINE F == List!Family(f, S)
             vs == List!Values(F)
  <2>1. F \in List!Families(S) /\ f \in F /\ F \in SUBSET Files
    BY FamiliesAre
  <2>2. amount[f] \in vs
    BY <1>5, <2>1, ValueOf
  <2> HIDE DEF F, vs
  <2>3. CASE Cardinality(vs) = 1
    <3>1. F \in OneValue(S)
      BY <2>1, <2>3 DEF OneValue, vs
    <3>2. vs = {Worth(S)[F]}
      BY <3>1, StandsFor DEF vs
    <3>3. amount[Stands(S)[F]] = amount[f] /\ Stands(S)[F] \in F
      BY <2>2, <3>1, <3>2, StandsFor
    <3>4. List!Same(f, Stands(S)[F])
      BY <1>4, <3>3 DEF F
    <3> QED BY <3>1, <3>3, <3>4
  <2>4. CASE Cardinality(vs) # 1
    <3>1. vs # {amount[f]}
      BY <2>1, <2>4, ValuesAre DEF vs
    <3>2. PICK v \in vs : v # amount[f]
      BY <2>2, <3>1
    <3>3. PICK g \in F : amount[g] = v /\ v # 0
      BY <3>2, ValueOf DEF vs
    <3>4. g \in S /\ List!Same(f, g)
      BY <1>4, <3>3 DEF F
    <3>5. IsFiniteSet(vs) /\ Cardinality(vs) \in Nat /\ Cardinality(vs) # 0
      BY <2>1, <2>2, ValuesAre, FS_EmptySet DEF vs
    <3>6. F \in List!Conflicts(S)
      BY <2>1, <2>4, <3>5, ListCount DEF List!Conflicts, vs
    <3>7. IsFiniteSet(List!Conflicts(S))
      <4>1. List!Conflicts(S) \subseteq List!Families(S)
        BY DEF List!Conflicts
      <4> QED BY <4>1, FamiliesAre, FS_Subset
    <3>8. Cardinality(List!Conflicts(S)) \in Nat /\ Cardinality(List!Conflicts(S)) # 0
      BY <3>6, <3>7, FS_CardinalityType, FS_EmptySet
    <3>9. List!Cardinality(List!Conflicts(S)) > 0
      BY <3>8, ListCount
    <3> QED BY <3>2, <3>3, <3>4, <3>9
  <2> QED BY <2>3, <2>4
<1> QED
  BY <1>1, <1>2, <1>3, <1>5

\* The first file of a set is one of it.
LEMMA MinIs ==
  ASSUME NEW S \in SUBSET Nat, S # {}
  PROVE  List!Min(S) \in S
<1>1. PICK n \in S : \A m \in S : n <= m
  BY LeastNatural
<1> QED
  BY <1>1 DEF List!Min

\* The page of a family is a PDF that is there and of that family.
LEMMA ChosenIs ==
  ASSUME List!ConstantsSound, NEW S \in SUBSET Files, NEW all \in SUBSET Files,
         NEW F \in List!Families(S), ~List!Blocked(F, all)
  PROVE  /\ List!Chosen(F, all) \in List!Pdfs(disk) /\ List!Chosen(F, all) \in Files
         /\ \A f \in F : List!FamilyKey(List!Chosen(F, all)) = List!FamilyKey(f)
<1> DEFINE f == CHOOSE f \in F : TRUE
           G == List!Family(f, all)
<1>1. F \subseteq S /\ F # {} /\ \A g \in F : F = List!Family(g, S)
  BY FamiliesAre
<1>2. f \in F
  BY <1>1
<1>3. \A g \in F : List!FamilyKey(g) = List!FamilyKey(f)
  <2>1. F = List!Family(f, S)
    BY <1>1, <1>2
  <2> QED BY <2>1 DEF List!Family
<1>4. \A g \in G : g \in all /\ List!FamilyKey(g) = List!FamilyKey(f)
  BY DEF List!Family
<1>5. List!Printable(F) \cup List!Printable(G) # {}
  <2>1. List!Printable(G \cup F) # {}
    BY DEF List!Blocked
  <2> QED BY <2>1 DEF List!Printable, List!Pdfs
<1>6. /\ List!Printable(F) \in SUBSET Nat /\ List!Printable(G) \in SUBSET Nat
      /\ List!Printable(F) \subseteq F /\ List!Printable(G) \subseteq G
  <2>1. F \subseteq Nat /\ G \subseteq Nat
    BY <1>1, <1>4, FilesAre
  <2> QED BY <2>1 DEF List!Printable, List!Pdfs
<1>7. List!Chosen(F, all) = IF List!Printable(F) # {} THEN List!Min(List!Printable(F))
                            ELSE List!Min(List!Printable(G))
  BY DEF List!Chosen
<1> HIDE DEF f, G
<1>8. CASE List!Printable(F) # {}
  <2>1. List!Chosen(F, all) \in List!Printable(F)
    BY <1>6, <1>7, <1>8, MinIs
  <2>2. List!Chosen(F, all) \in F
    BY <1>6, <2>1
  <2>3. List!Chosen(F, all) \in List!Pdfs(disk)
    BY <2>1 DEF List!Printable, List!Pdfs
  <2> QED BY <1>1, <1>3, <2>2, <2>3
<1>9. CASE List!Printable(F) = {}
  <2>1. List!Chosen(F, all) \in List!Printable(G)
    BY <1>5, <1>6, <1>7, <1>9, MinIs
  <2>2. List!Chosen(F, all) \in G
    BY <1>6, <2>1
  <2>3. List!Chosen(F, all) \in List!Pdfs(disk)
    BY <2>1 DEF List!Printable, List!Pdfs
  <2> QED BY <1>3, <1>4, <2>2, <2>3
<1> QED
  BY <1>8, <1>9

\* Each ticked invoice has one page.
LEMMA CountedPages ==
  ASSUME List!ConstantsSound, List!TrueNumbers, NEW S \in SUBSET Files, NEW all \in SUBSET Files,
         \A F \in List!Families(S) : ~List!Blocked(F, all),
         NEW pages, pages = {List!Chosen(F, all) : F \in List!Families(S)}
  PROVE  /\ pages \subseteq List!Pdfs(disk) /\ pages \subseteq Files
         /\ \A f \in S : List!Cardinality({p \in pages : List!Same(f, p)}) = 1
         /\ \A p \in pages : \E f \in S : List!Same(f, p)
<1>1. pages \subseteq List!Pdfs(disk) /\ pages \subseteq Files
  BY ChosenIs
<1>2. ASSUME NEW f \in S
      PROVE  List!Cardinality({p \in pages : List!Same(f, p)}) = 1
  <2> DEFINE F == List!Family(f, S)
             c == List!Chosen(F, all)
  <2>1. F \in List!Families(S) /\ f \in F
    BY FamiliesAre
  <2>2. c \in pages /\ c \in Files /\ List!FamilyKey(c) = List!FamilyKey(f)
    BY <2>1, ChosenIs
  <2>3. List!Same(f, c)
    BY <2>2, FamilyIsSame
  <2>4. ASSUME NEW p \in pages, List!Same(f, p) PROVE p = c
    <3>1. PICK G \in List!Families(S) : p = List!Chosen(G, all)
      OBVIOUS
    <3>2. p \in Files /\ G # {} /\ G \subseteq S
      BY <3>1, ChosenIs, FamiliesAre
    <3>3. PICK g \in G : g \in S
      BY <3>2
    <3>4. List!FamilyKey(p) = List!FamilyKey(g) /\ G = List!Family(g, S)
      BY <3>1, <3>3, ChosenIs, FamiliesAre
    <3>5. List!FamilyKey(f) = List!FamilyKey(p)
      BY <2>4, <3>2, FamilyIsSame
    <3>6. G = F
      BY <3>4, <3>5 DEF List!Family
    <3> QED BY <3>1, <3>6
  <2>5. {p \in pages : List!Same(f, p)} = {c}
    BY <2>2, <2>3, <2>4
  <2> QED BY <2>5, FS_Singleton, ListCount
<1>3. ASSUME NEW p \in pages
      PROVE  \E f \in S : List!Same(f, p)
  <2>1. PICK F \in List!Families(S) : p = List!Chosen(F, all)
    OBVIOUS
  <2>2. PICK f \in F : f \in S
    BY FamiliesAre
  <2>3. List!FamilyKey(p) = List!FamilyKey(f) /\ p \in Files /\ f \in Files
    BY <2>1, <2>2, ChosenIs
  <2>4. List!Same(f, p)
    BY <2>3, FamilyIsSame
  <2> QED BY <2>2, <2>4
<1> QED
  BY <1>1, <1>2, <1>3

-----------------------------------------------------------------------------
\* What an answer must be.
Counted(a) ==
  /\ a.told \subseteq Files
  /\ a.op = "sum" /\ a.ok /\ List!TrueNumbers =>
        \E R \in SUBSET a.asked :
            /\ a.total = List!SumFunctionOnSet(amount, R)
            /\ \A f, g \in R : List!Same(f, g) => f = g
            /\ \A f \in a.asked : amount[f] # 0 =>
                \/ \E g \in R : List!Same(f, g) /\ amount[g] = amount[f]
                \/ a.conflicts > 0 /\ \E g \in a.asked :
                        List!Same(f, g) /\ amount[g] \notin {0, amount[f]}
  /\ a.op = "print" /\ a.ok /\ List!TrueNumbers =>
        /\ a.told \subseteq List!Pdfs(disk)
        /\ \A f \in a.asked : List!Cardinality({p \in a.told : List!Same(f, p)}) = 1
        /\ \A p \in a.told : \E f \in a.asked : List!Same(f, p)

\* A list names no file twice; a tick names a place and the file seen there.
Good == {s \in Seq(Files) : List!IsInjective(s)}
Spots == Nat \X Files
Stations == {"idle", "stat", "compare", "read", "rows", "key", "take", "forget", "clear"}
Kinds == {"none", "list", "report", "detail", "sum", "print", "edit", "sync"}

\* What a request has, and when the state of the list is sound.
Requested == [pc : Stations, op : Kinds, asked : SUBSET Spots, stat : Nat, read : Good]

ListInv ==
  /\ NumbersTyped /\ disk \subseteq Files /\ stamp \in Nat
  /\ sheet \in Good /\ cacheRows \in Good
  /\ thread \in [Threads -> Requested]
  /\ view \subseteq Spots
  /\ Counted(reply)

\* The answer to a sum counts every invoice once (selection totals of app_state.py).
LEMMA SumCounted ==
  ASSUME List!ConstantsSound, NumbersTyped, NEW ticks \in SUBSET Spots, NEW items \in Good,
         List!StillThere(ticks, items)
  PROVE  Counted(List!SumOf(ticks, items))
<1> DEFINE S == List!Items(ticks, items)
           a == List!SumOf(ticks, items)
<1>1. S = List!Paths(ticks) /\ S \in SUBSET Files
  BY DEF List!StillThere, List!Items, List!Paths, Spots
<1>2. /\ a.op = "sum" /\ a.asked = S /\ a.total = List!Total(S) /\ a.told = {}
      /\ a.conflicts = List!Cardinality(List!Conflicts(S))
  BY <1>1 DEF List!SumOf, List!NoAnswer
<1> HIDE DEF a, S
<1>3. Counted(a)
  BY <1>1, <1>2, CountedMoney DEF Counted
<1> QED
  BY <1>3 DEF a

\* The answer to a print names one PDF for every invoice.
LEMMA PrintCounted ==
  ASSUME List!ConstantsSound, NumbersTyped, NEW ticks \in SUBSET Spots, NEW items \in Good,
         List!StillThere(ticks, items)
  PROVE  Counted(List!PrintOf(ticks, items))
<1> DEFINE S == List!Items(ticks, items)
           all == List!ToSet(items)
           a == List!PrintOf(ticks, items)
<1>1. S = List!Paths(ticks) /\ S \in SUBSET Files
  BY DEF List!StillThere, List!Items, List!Paths, Spots
<1>2. all \in SUBSET Files
  BY DEF List!ToSet, Good
<1>3. ASSUME \E F \in List!Families(S) : List!Blocked(F, all) PROVE Counted(a)
  <2>1. a.told = {} /\ ~a.ok
    BY <1>3 DEF List!PrintOf, List!Refusal, List!NoAnswer
  <2> HIDE DEF a
  <2> QED BY <2>1 DEF Counted
<1>4. ASSUME \A F \in List!Families(S) : ~List!Blocked(F, all) PROVE Counted(a)
  <2>1. a.op = "print" /\ a.asked = S /\ a.told = {List!Chosen(F, all) : F \in List!Families(S)}
    BY <1>1, <1>4 DEF List!PrintOf, List!NoAnswer
  <2> HIDE DEF a, S, all
  <2>2. a.told \subseteq Files
    BY <1>1, <1>2, <1>4, <2>1, ChosenIs
  <2>3. ASSUME List!TrueNumbers
        PROVE  /\ a.told \subseteq List!Pdfs(disk)
               /\ \A f \in S : List!Cardinality({p \in a.told : List!Same(f, p)}) = 1
               /\ \A p \in a.told : \E f \in S : List!Same(f, p)
    BY <1>1, <1>2, <1>4, <2>1, <2>3, CountedPages
  <2> QED BY <2>1, <2>2, <2>3 DEF Counted
<1> HIDE DEF a
<1>5. Counted(a)
  BY <1>3, <1>4
<1> QED
  BY <1>5 DEF a

\* An answer about rows is right when it is given.
LEMMA TakeCounted ==
  ASSUME List!ConstantsSound, ListInv, NEW t \in Threads, List!Take(t)
  PROVE  Counted(reply')
<1> DEFINE ticks == thread[t].asked
<1>1. ticks \in SUBSET Spots /\ cacheRows \in Good /\ NumbersTyped
  BY DEF ListInv, Requested
<1>2. CASE reply' = List!NoAnswer
  BY <1>2 DEF List!NoAnswer, Counted
<1>3. ASSUME NEW op, reply' = List!Refusal(op, List!Paths(ticks)) PROVE Counted(reply')
  <2>1. reply'.told = {} /\ ~reply'.ok
    BY <1>3 DEF List!Refusal, List!NoAnswer
  <2> QED BY <2>1 DEF Counted
<1>4. CASE List!StillThere(ticks, cacheRows) /\ reply' = List!SumOf(ticks, cacheRows)
  BY <1>1, <1>4, SumCounted
<1>5. CASE List!StillThere(ticks, cacheRows) /\ reply' = List!PrintOf(ticks, cacheRows)
  BY <1>1, <1>5, PrintCounted
<1>6. ASSUME reply'.op = "report", reply'.told = List!Mismatches(List!ToSet(cacheRows))
      PROVE  Counted(reply')
  <2>1. List!ToSet(cacheRows) \subseteq Files
    BY <1>1 DEF List!ToSet, Good
  <2>2. reply'.told \subseteq Files
    BY <1>6, <2>1 DEF List!Mismatches
  <2> QED BY <1>6, <2>2 DEF Counted
<1>7. \/ reply' = List!NoAnswer
      \/ \E op : reply' = List!Refusal(op, List!Paths(ticks))
      \/ List!StillThere(ticks, cacheRows)
         /\ (reply' = List!SumOf(ticks, cacheRows) \/ reply' = List!PrintOf(ticks, cacheRows))
      \/ reply'.op = "report" /\ reply'.told = List!Mismatches(List!ToSet(cacheRows))
  BY DEF List!Take, List!Silent, List!NoAnswer
<1> QED
  BY <1>2, <1>3, <1>4, <1>5, <1>6, <1>7

\* Where nothing moves, an answer stays what it must be.
LEMMA CountedSame ==
  ASSUME UNCHANGED <<number, amount, disk>>, NEW a, Counted(a), reply' = a
  PROVE  Counted(reply)'
<1>1. List!TrueNumbers' <=> List!TrueNumbers
  BY DEF List!TrueNumbers
<1>2. \A f, g : List!Same(f, g)' <=> List!Same(f, g)
  BY DEF List!Same
<1>3. List!Pdfs(disk)' = List!Pdfs(disk)
  BY DEF List!Pdfs
<1> QED
  BY <1>1, <1>2, <1>3 DEF Counted

\* A step without an answer owes nothing.
LEMMA CountedSilent == ASSUME List!Silent PROVE Counted(reply)'
<1>1. (reply').told = {} /\ ~(reply').ok
  BY DEF List!Silent, List!NoAnswer
<1> QED
  BY <1>1 DEF Counted

\* The rows of a folder are files, each of them once.
LEMMA RowsGood ==
  ASSUME List!ConstantsSound, NEW S \in SUBSET Files
  PROVE  List!Rows(S) \in Good
<1>1. S \in SUBSET Nat /\ IsFiniteSet(S)
  BY FilesAre, FS_Subset
<1>2. List!Rows(S) \in [1..Cardinality(S) -> S] /\ List!Increasing(List!Rows(S))
  BY <1>1, RowsOrdered
<1>3. Cardinality(S) \in Nat
  BY <1>1, FS_CardinalityType
<1> DEFINE items == List!Rows(S)
<1> HIDE DEF items
<1>4. items \in Seq(Files)
  BY <1>2, <1>3 DEF items
<1>5. ASSUME NEW i \in DOMAIN items, NEW j \in DOMAIN items, items[i] = items[j]
      PROVE  i = j
  <2>1. i \in Int /\ j \in Int /\ items[i] \in S /\ items[j] \in S
    BY <1>2 DEF items
  <2>3. items[i] \in Nat /\ items[j] \in Nat
    BY <1>1, <2>1
  <2>2. ~(i < j) /\ ~(j < i)
    BY <1>2, <1>5, <2>3 DEF items, List!Increasing
  <2> QED BY <2>1, <2>2
<1> QED
  BY <1>4, <1>5 DEF Good, items, List!IsInjective

\* An empty list names no file twice.
LEMMA EmptyGood == <<>> \in Good
BY DEF Good, List!IsInjective

\* The places of a list are ticks.
LEMMA NumberedSpots ==
  ASSUME NEW items \in Good
  PROVE  List!Numbered(items) \subseteq Spots
BY DEF List!Numbered, Good, Spots

\* A request that moves on keeps its fields.
LEMMA RequestTyped ==
  ASSUME NEW r \in Requested, NEW stage \in Stations
  PROVE  /\ [r EXCEPT !.pc = stage] \in Requested
         /\ \A n \in Nat : [r EXCEPT !.stat = n, !.pc = stage] \in Requested
         /\ \A s \in Good : [r EXCEPT !.read = s, !.pc = stage] \in Requested
BY DEF Requested

\* A thread without a request, and one that begins.
LEMMA IdleTyped ==
  /\ List!Idle \in Requested
  /\ \A op \in Kinds, ticks \in SUBSET Spots :
        /\ [List!Idle EXCEPT !.pc = "stat", !.op = op, !.asked = ticks] \in Requested
        /\ [List!Idle EXCEPT !.pc = "forget", !.op = op] \in Requested
BY EmptyGood DEF List!Idle, Requested, Stations, Kinds

\* A step of one thread leaves all requests well formed.
LEMMA BecomesTyped ==
  ASSUME ListInv, NEW t \in Threads, NEW new \in Requested, List!Becomes(t, new)
  PROVE  thread' \in [Threads -> Requested]
BY DEF ListInv, List!Becomes

\* The invariant holds at the start.
LEMMA ListInitially ==
  ASSUME List!ConstantsSound, List!Init
  PROVE  ListInv
<1>1. NumbersTyped /\ disk \subseteq Files /\ stamp \in Nat
  BY DEF List!Init, NumbersTyped, List!Range, Range
<1>2. sheet \in Good /\ cacheRows \in Good
  BY <1>1, RowsGood, EmptyGood DEF List!Init
<1>3. thread \in [Threads -> Requested]
  BY IdleTyped DEF List!Init
<1>4. view \subseteq Spots
  BY <1>2, NumberedSpots DEF List!Init
<1>5. Counted(reply)
  BY DEF List!Init, List!NoAnswer, Counted
<1> QED
  BY <1>1, <1>2, <1>3, <1>4, <1>5 DEF ListInv

\* Every step keeps the invariant.
LEMMA ListStep ==
  ASSUME List!ConstantsSound, ListInv, List!Next
  PROVE  ListInv'
<1> USE DEF Stations
<1>a. /\ NumbersTyped /\ disk \subseteq Files /\ stamp \in Nat /\ sheet \in Good /\ cacheRows \in Good
      /\ thread \in [Threads -> Requested] /\ view \subseteq Spots
      /\ \A t \in Threads : thread[t] \in Requested /\ thread[t].read \in Good /\ thread[t].stat \in Nat
                            /\ thread[t].asked \in SUBSET Spots
  BY DEF ListInv, Requested
<1>1. ASSUME NEW t \in Threads, NEW op \in {"list", "report", "detail", "sum", "print"},
             NEW ticks \in SUBSET Spots, List!Ask(t, op, ticks)
      PROVE  ListInv'
  <2>1. thread' \in [Threads -> Requested]
    BY <1>1, IdleTyped, BecomesTyped DEF List!Ask, Kinds
  <2>2. Counted(reply)'
    BY <1>1, CountedSilent DEF List!Ask
  <2> QED BY <1>a, <1>1, <2>1, <2>2 DEF List!Ask, ListInv, NumbersTyped, List!facts, List!cache
<1>2. ASSUME NEW t \in Threads, List!Stat(t) PROVE ListInv'
  <2>1. thread' \in [Threads -> Requested]
    BY <1>a, <1>2, RequestTyped, BecomesTyped DEF List!Stat
  <2>2. Counted(reply)'
    BY <1>2, CountedSilent DEF List!Stat
  <2> QED BY <1>a, <1>2, <2>1, <2>2 DEF List!Stat, ListInv, NumbersTyped, List!facts, List!cache
<1>3. ASSUME NEW t \in Threads, List!Compare(t) PROVE ListInv'
  <2>1. thread' \in [Threads -> Requested]
    BY <1>a, <1>3, RequestTyped, BecomesTyped DEF List!Compare, List!Go
  <2>2. Counted(reply)'
    BY <1>3, CountedSilent DEF List!Compare
  <2> QED BY <1>a, <1>3, <2>1, <2>2 DEF List!Compare, ListInv, NumbersTyped, List!facts, List!cache
<1>4. ASSUME NEW t \in Threads, List!Read(t) PROVE ListInv'
  <2>1. thread' \in [Threads -> Requested]
    BY <1>a, <1>4, RequestTyped, BecomesTyped DEF List!Read
  <2>2. Counted(reply)'
    BY <1>4, CountedSilent DEF List!Read
  <2> QED BY <1>a, <1>4, <2>1, <2>2 DEF List!Read, ListInv, NumbersTyped, List!facts, List!cache
<1>5. ASSUME NEW t \in Threads, List!SetRows(t) PROVE ListInv'
  <2>1. thread' \in [Threads -> Requested]
    BY <1>a, <1>5, RequestTyped, BecomesTyped DEF List!SetRows, List!Go
  <2>2. Counted(reply)'
    BY <1>5, CountedSilent DEF List!SetRows
  <2> QED BY <1>a, <1>5, <2>1, <2>2 DEF List!SetRows, ListInv, NumbersTyped, List!facts, List!cache
<1>6. ASSUME NEW t \in Threads, List!SetKey(t) PROVE ListInv'
  <2>1. thread' \in [Threads -> Requested]
    BY <1>a, <1>6, RequestTyped, BecomesTyped DEF List!SetKey, List!Go
  <2>2. Counted(reply)'
    BY <1>6, CountedSilent DEF List!SetKey
  <2> QED BY <1>a, <1>6, <2>1, <2>2 DEF List!SetKey, ListInv, NumbersTyped, List!facts, List!cache
<1>7. ASSUME NEW t \in Threads, List!Forget(t) PROVE ListInv'
  <2>1. thread' \in [Threads -> Requested]
    BY <1>a, <1>7, RequestTyped, BecomesTyped DEF List!Forget, List!Go
  <2>2. Counted(reply)'
    BY <1>7, CountedSilent DEF List!Forget
  <2> QED BY <1>a, <1>7, <2>1, <2>2 DEF List!Forget, ListInv, NumbersTyped, List!facts, List!cache
<1>8. ASSUME NEW t \in Threads, List!Clear(t) PROVE ListInv'
  <2>1. thread' \in [Threads -> Requested]
    BY <1>8, IdleTyped, BecomesTyped DEF List!Clear
  <2>2. (reply').told = {} /\ ~(reply').ok
    <3>1. reply' = List!NoAnswer \/ reply' = List!Refusal(thread[t].op, List!Paths(thread[t].asked))
      BY <1>8 DEF List!Clear, List!Silent
    <3>2. List!NoAnswer.told = {} /\ ~List!NoAnswer.ok
      BY DEF List!NoAnswer
    <3>3. \A op, ticks : List!Refusal(op, ticks).told = {} /\ ~List!Refusal(op, ticks).ok
      BY DEF List!NoAnswer, List!Refusal
    <3> QED BY <3>1, <3>2, <3>3
  <2>3. Counted(reply)'
    BY <2>2 DEF Counted
  <2>4. (view' = {} \/ view' = view) /\ cacheRows' = <<>>
    BY <1>8 DEF List!Clear
  <2> QED BY <1>a, <1>8, <2>1, <2>3, <2>4, EmptyGood DEF List!Clear, ListInv, NumbersTyped, List!facts, List!cache
<1>9. ASSUME NEW t \in Threads, List!Take(t) PROVE ListInv'
  <2>1. thread' \in [Threads -> Requested]
    BY <1>9, IdleTyped, BecomesTyped DEF List!Take
  <2>2. UNCHANGED <<number, amount, disk, sheet, stamp, cacheKey, cacheRows>>
    BY <1>9 DEF List!Take, List!facts, List!cache
  <2>3. Counted(reply)'
    <3>1. PICK a : a = reply'
      OBVIOUS
    <3>2. Counted(a)
      BY <1>9, <3>1, TakeCounted
    <3> QED BY <2>2, <3>1, <3>2, CountedSame
  <2>4. view' \subseteq Spots
    <3>1. List!Numbered(cacheRows) \subseteq Spots
      BY <1>a, NumberedSpots
    <3> QED BY <1>a, <1>9, <3>1 DEF List!Take, List!Filtered, List!Detail
  <2> QED BY <1>a, <2>1, <2>2, <2>3, <2>4 DEF ListInv, NumbersTyped
<1>10. ASSUME NEW t \in Threads, NEW row \in view, List!Edit(t, row) PROVE ListInv'
  <2>1. thread' \in [Threads -> Requested]
    <3>1. [List!Idle EXCEPT !.pc = "forget", !.op = "edit"] \in Requested
      BY IdleTyped DEF Kinds
    <3> QED BY <1>10, <3>1, BecomesTyped DEF List!Edit
  <2>2. Counted(reply)'
    BY <1>10, CountedSilent DEF List!Edit
  <2>3. row[2] \in Files
    BY <1>a DEF Spots
  <2>4. Copy[row[2]] \in Range(Copy)
    BY <2>3, FilesAre
  <2>5. NumbersTyped'
    BY <1>a, <1>10, <2>4 DEF List!Edit, NumbersTyped
  <2>6. stamp' \in Nat
    BY <1>a, <1>10 DEF List!Edit
  <2> QED BY <1>a, <1>10, <2>1, <2>2, <2>5, <2>6 DEF List!Edit, ListInv, List!cache
<1>11. ASSUME NEW t \in Threads \cup {Absent}, List!Rebuild(t) PROVE ListInv'
  <2>1. thread' \in [Threads -> Requested]
    <3>1. [List!Idle EXCEPT !.pc = "forget", !.op = "sync"] \in Requested
      BY IdleTyped DEF Kinds
    <3> QED BY <1>a, <1>11, <3>1, BecomesTyped DEF List!Rebuild
  <2>2. Counted(reply)'
    BY <1>11, CountedSilent DEF List!Rebuild
  <2>3. sheet' \in Good /\ stamp' \in Nat
    BY <1>a, <1>11, RowsGood DEF List!Rebuild
  <2> QED BY <1>a, <1>11, <2>1, <2>2, <2>3 DEF List!Rebuild, ListInv, NumbersTyped, List!facts, List!cache
<1>12. CASE List!RemoveSummary
  <2>2. Counted(reply)'
    BY <1>12, CountedSilent DEF List!RemoveSummary
  <2> QED BY <1>a, <1>12, <2>2, EmptyGood DEF List!RemoveSummary, ListInv, NumbersTyped, List!facts, List!cache
<1>13. ASSUME NEW f \in Files, List!MoveFile(f) PROVE ListInv'
  <2>2. Counted(reply)'
    BY <1>13, CountedSilent DEF List!MoveFile
  <2> QED BY <1>a, <1>13, <2>2 DEF List!MoveFile, ListInv, NumbersTyped, List!facts, List!cache
<1>14. CASE \E t \in Threads :
               \/ \E op \in {"list", "report"} : List!Ask(t, op, {})
               \/ \E row \in view : List!Ask(t, "detail", {row})
               \/ \E op \in {"sum", "print"}, ticks \in (SUBSET view) \ {{}} : List!Ask(t, op, ticks)
  <2>1. PICK t \in Threads :
               \/ \E op \in {"list", "report"} : List!Ask(t, op, {})
               \/ \E row \in view : List!Ask(t, "detail", {row})
               \/ \E op \in {"sum", "print"}, ticks \in (SUBSET view) \ {{}} : List!Ask(t, op, ticks)
    BY <1>14
  <2>2. ASSUME NEW op \in {"list", "report"}, List!Ask(t, op, {}) PROVE ListInv'
    BY <1>1, <2>2
  <2>3. ASSUME NEW row \in view, List!Ask(t, "detail", {row}) PROVE ListInv'
    <3>1. {row} \in SUBSET Spots
      BY <1>a
    <3> QED BY <1>1, <2>3, <3>1
  <2>4. ASSUME NEW op \in {"sum", "print"}, NEW ticks \in (SUBSET view) \ {{}}, List!Ask(t, op, ticks)
        PROVE  ListInv'
    <3>1. ticks \in SUBSET Spots
      BY <1>a
    <3> QED BY <1>1, <2>4, <3>1
  <2> QED BY <2>1, <2>2, <2>3, <2>4
<1> QED
  BY <1>2, <1>3, <1>4, <1>5, <1>6, <1>7, <1>8, <1>9, <1>10, <1>11, <1>12, <1>13, <1>14
     DEF List!Next, List!Step

\* The invariant says that ticked invoices count once.
LEMMA ListInvSays == ASSUME List!ConstantsSound, ListInv PROVE CountedOnce
<1>1. List!TypeOK
  <2>1. NumbersTyped /\ List!Paths(view) \subseteq Files /\ reply.told \subseteq Files
    BY DEF ListInv, Counted, List!Paths, Spots
  <2>2. List!ToSet(sheet) \subseteq Files /\ List!IsInjective(sheet) /\ List!IsInjective(cacheRows)
    BY DEF ListInv, Good, List!ToSet
  <2> QED BY <2>1, <2>2 DEF List!TypeOK, NumbersTyped, Range, List!Range
<1>2. List!MoneyOnce
  BY DEF ListInv, Counted, List!MoneyOnce
<1>3. List!PrintedOnce
  BY DEF ListInv, Counted, List!PrintedOnce
<1> QED
  BY <1>1, <1>2, <1>3 DEF CountedOnce

(* Every invoice ticked in the list is in the total and among the files to *)
(* print once, whatever files stand for it, however the list, the files    *)
(* and the ticks change meanwhile, for any files, threads and numbers      *)
(* (invoice totals and print selection of services/app_state.py).          *)
THEOREM TicksCountOnce == ASSUME List!ConstantsSound PROVE List!Spec => []CountedOnce
<1>1. List!Init => ListInv
  BY ListInitially
<1>2. ListInv /\ [List!Next]_(List!vars) => ListInv'
  <2>1. CASE List!Next
    BY <2>1, ListStep
  <2>2. ASSUME ListInv, UNCHANGED List!vars PROVE ListInv'
    <3>1. Counted(reply)'
      <4>1. PICK a : a = reply
        OBVIOUS
      <4> QED BY <2>2, <4>1, CountedSame DEF ListInv, List!vars, List!facts
    <3> QED BY <2>2, <3>1 DEF ListInv, List!vars, List!facts, List!cache, NumbersTyped
  <2> QED BY <2>1, <2>2
<1>3. ListInv => CountedOnce
  BY ListInvSays
<1> QED
  BY <1>1, <1>2, <1>3, PTL DEF List!Spec

-----------------------------------------------------------------------------
(* The batch rename (RenameBatch), for any folder, any new names, any      *)
(* number of refused renames and of files a person adds or deletes         *)
(* meanwhile: no rename replaces an invoice but in the cases               *)
(* NothingReplaced names, a failed batch is undone, and the corrections go *)
(* where their invoices go.                                                *)

(***************************************************************************)
(* The inductive invariant.                                                *)
(***************************************************************************)

Folders == [Names -> Invoices \union {None}]

BatchTyped ==
    /\ os \in {"posix", "windows"}
    /\ dir \in Folders /\ temp \in Folders /\ before \in Folders
    /\ summary \in Folders /\ overs \in Folders /\ entries \in Folders
    /\ plan \in [Names -> Names \union {None}]
    /\ committed \subseteq staged /\ staged \subseteq Sources /\ back \subseteq staged
    /\ user \in Nat /\ (user = 0 => fresh = {})
    /\ errors \in BOOLEAN /\ raced \in BOOLEAN

\* An invoice is in one place, and only a staged source that is not committed has a
\* temporary name.
Apart ==
    /\ \A m, n \in Names : dir[m] # None /\ dir[m] = dir[n] => m = n
    /\ \A m, n \in Names : temp[m] # None /\ temp[m] = temp[n] => m = n
    /\ \A m, n \in Names : temp[m] # None => temp[m] # dir[n]
    /\ \A n \in Names : temp[n] # None => n \in staged \ committed

\* Where the batch is decides how far it has got.
Phases ==
    /\ pc \in {"idle", "listed"} => plan = Nothing /\ temp = Nothing /\ lost = {}
    /\ pc = "idle" => user = 0 /\ ~raced
    /\ pc = "stage" => committed = {}
    /\ pc \in {"commit", "uncommit", "migrate", "rebuild"} => staged = Sources
    /\ pc \in {"migrate", "rebuild"} => committed = Sources
    /\ pc = "done" => committed = Sources
    /\ pc = "uncommit" => back \subseteq committed
    /\ pc = "unstage" => back \subseteq staged \ committed
    /\ pc \notin {"uncommit", "unstage", "failed"} => ~errors

\* The plan: sources that are there, new names that are all different and whose place is
\* free or is left by another source.
Sound ==
    /\ \A n \in Sources : /\ before[n] # None /\ plan[n] # n
                          /\ before[plan[n]] = None \/ plan[n] \in Sources
    /\ \A m, n \in Sources : plan[m] = plan[n] => m = n

\* The sources the roll back is through with, and those whose file has its new name.
Returned ==
    CASE pc = "uncommit" -> committed \ back
      [] pc = "unstage" -> staged \ back
      [] pc = "failed" -> staged
      [] OTHER -> {}

Ahead == committed \ Returned

\* Where the invoice at name x comes from, while the batch is at work.
CameFrom(x) ==
    \/ dir[x] = None \/ dir[x] \in fresh \/ x \in Returned
    \/ x \notin staged /\ dir[x] = before[x]
    \/ \E m \in committed : plan[m] = x /\ dir[x] = before[m] /\ (m \in Ahead \/ errors)

Traced ==
    pc \in {"stage", "commit", "uncommit", "unstage"} =>
        /\ \A x \in Names : CameFrom(x)
        /\ \A n \in Names : temp[n] \in fresh \union {None, before[n]}

\* What renames have replaced.
Replaced ==
    /\ os = "windows" => lost = {}
    /\ lost \subseteq fresh \union InTheWay
    /\ pc \notin {"uncommit", "unstage", "failed"} => lost \subseteq fresh

\* Where every file is when nobody interferes and nothing goes wrong in a roll back.
Calm == user = 0 /\ ~errors /\ lost = {}

Exact ==
    Calm /\ pc # "idle" =>
        /\ \A m \in Ahead : dir[plan[m]] = before[m] /\ plan[m] \notin Returned
        /\ \A x \in Names : (\A m \in Ahead : plan[m] # x)
                               => dir[x] = IF x \in staged \ Returned THEN None ELSE before[x]
        /\ \A n \in Names : temp[n] = IF n \in staged \ (committed \union Returned) THEN before[n] ELSE None

Agree(o, d) == \A n \in Names : o[n] # None /\ d[n] # None => o[n] = d[n]

\* No correction of a deleted file waits at a new path.
NoneWaits == \A n \in Sources : entries[plan[n]] = None \/ plan[n] \in Sources

\* What the corrections were made for.
Corrected ==
    ~raced /\ user = 0 =>
        /\ pc = "idle" => Agree(overs, dir)
        /\ pc \in {"listed", "stage", "commit", "migrate"} => Agree(overs, before)
        /\ pc = "migrate" => entries = overs
        /\ pc \in {"rebuild", "done"} /\ NoneWaits => Agree(overs, dir)

BatchInv == BatchTyped /\ Apart /\ Phases /\ Sound /\ Traced /\ Replaced /\ Exact /\ Corrected

(***************************************************************************)
(* The steps.                                                              *)
(***************************************************************************)

LEMMA EmptyPlan == plan = Nothing => Sources = {}
BY DEF Nothing, Sources, Present

LEMMA SourcesKept == UNCHANGED plan => Sources' = Sources
BY DEF Sources, Present

\* What Plan makes of the folder.
LEMMA PlannedSound ==
  ASSUME BatchTyped
  PROVE  /\ Planned \subseteq Names
         /\ \A n \in Planned : /\ dir[n] # None /\ Wanted(n) \in Names /\ Wanted(n) # n
                               /\ dir[Wanted(n)] = None \/ Wanted(n) \in Planned
         /\ \A m, n \in Planned : Wanted(m) = Wanted(n) => m = n
<1>1. \A n \in Names : Wanted(n) \in Names \union {None}
  BY TargetAssumption DEF Wanted, BatchTyped, Folders
<1>2. Single \subseteq Candidates /\ Candidates \subseteq Names
  BY DEF Single, Candidates, Present
<1>3. Planned \subseteq Single
  BY DEF Planned
<1>4. ASSUME NEW n \in Planned PROVE dir[Wanted(n)] = None \/ Wanted(n) \in Planned
  <2>1. PICK S \in SUBSET Single : n \in S /\ \A m \in S : Free(S, m)
    BY DEF Planned
  <2>2. S \subseteq Planned
    BY <2>1 DEF Planned
  <2> QED
    BY <2>1, <2>2 DEF Free
<1>5. \A m, n \in Planned : Wanted(m) = Wanted(n) => m = n
  BY <1>2, <1>3 DEF Single
<1> QED
  BY <1>1, <1>2, <1>3, <1>4, <1>5 DEF Candidates, Present

LEMMA StageFileKeeps ==
  ASSUME BatchInv, NEW n \in Names, StageFile(n)
  PROVE  BatchInv'
<1> USE TargetAssumption DEF BatchInv
<1>1. UNCHANGED <<os, summary, overs, plan, committed, back, pc, errors, user, before, lost, fresh, raced, entries>>
  BY DEF StageFile, files, moves, counts, history, BackFails
<1>2. Sources' = Sources
  BY <1>1, SourcesKept DEF Sources
<1>3. pc = "stage" /\ n \in Sources \ staged /\ dir[n] # None /\ staged' = staged \union {n}
  BY DEF StageFile, Least
<1>4. \A x \in Names : dir'[x] = IF x = n THEN None ELSE dir[x]
  BY DEF StageFile, BatchTyped, Folders
<1>5. \A x \in Names : temp'[x] = IF x = n THEN dir[n] ELSE temp[x]
  BY DEF StageFile, BatchTyped, Folders
<1>6. dir' \in Folders /\ temp' \in Folders
  BY DEF StageFile, BatchTyped, Folders
<1>7. Returned = {} /\ Returned' = {} /\ Ahead = {} /\ Ahead' = {}
  BY <1>1, <1>3 DEF Returned, Ahead, BatchTyped, Phases
<1>8. BatchTyped'
  BY <1>1, <1>2, <1>3, <1>4, <1>5, <1>6, <1>7 DEF BatchTyped, Folders
<1>9. Apart'
  BY <1>1, <1>2, <1>3, <1>4, <1>5, <1>6, <1>7 DEF Apart, BatchTyped, Folders
<1>10. Phases'
  BY <1>1, <1>2, <1>3, <1>4, <1>5, <1>6, <1>7 DEF Phases, BatchTyped
<1>11. Sound'
  BY <1>1, <1>2, <1>3, <1>4, <1>5, <1>6, <1>7 DEF Sound, BatchTyped
<1>12. Traced'
  BY <1>1, <1>2, <1>3, <1>4, <1>5, <1>6, <1>7 DEF Traced, CameFrom, BatchTyped, Phases
<1>13. Replaced'
  BY <1>1, <1>2, <1>3, <1>4, <1>5, <1>6, <1>7 DEF Replaced, InTheWay, Phases, BatchTyped
<1>14. Exact'
  BY <1>1, <1>2, <1>3, <1>4, <1>5, <1>6, <1>7 DEF Exact, Calm, BatchTyped, Phases, Apart
<1>15. Corrected'
  BY <1>1, <1>2, <1>3, <1>4, <1>5, <1>6, <1>7 DEF Corrected, Agree, NoneWaits, BatchTyped, Phases
<1> QED
  BY <1>8, <1>9, <1>10, <1>11, <1>12, <1>13, <1>14, <1>15

LEMMA StageFailsKeeps ==
  ASSUME BatchInv, NEW n \in Names, StageFails(n)
  PROVE  BatchInv'
<1> USE TargetAssumption DEF BatchInv
<1>1. UNCHANGED <<os, dir, temp, summary, overs, plan, staged, committed, errors, user, before, lost, fresh, raced, entries>>
  BY DEF StageFails, files, moves, counts, history, BackFails
<1>2. Sources' = Sources
  BY <1>1, SourcesKept DEF Sources
<1>3. pc = "stage" /\ pc' = "unstage" /\ back' = staged
  BY DEF StageFails
<1>4. Returned = {} /\ Returned' = {} /\ Ahead = {} /\ Ahead' = {}
  BY <1>1, <1>3 DEF Returned, Ahead, BatchTyped, Phases
<1>5. BatchTyped'
  BY <1>1, <1>2, <1>3, <1>4 DEF BatchTyped, Folders
<1>6. Apart'
  BY <1>1, <1>2, <1>3, <1>4 DEF Apart, BatchTyped, Folders
<1>7. Phases'
  BY <1>1, <1>2, <1>3, <1>4 DEF Phases, BatchTyped
<1>8. Sound'
  BY <1>1, <1>2, <1>3, <1>4 DEF Sound, BatchTyped
<1>9. Traced'
  BY <1>1, <1>2, <1>3, <1>4 DEF Traced, CameFrom, BatchTyped, Phases
<1>10. Replaced'
  BY <1>1, <1>2, <1>3, <1>4 DEF Replaced, InTheWay, Phases, BatchTyped
<1>11. Exact'
  BY <1>1, <1>2, <1>3, <1>4 DEF Exact, Calm, BatchTyped, Phases, Apart
<1>12. Corrected'
  BY <1>1, <1>2, <1>3, <1>4 DEF Corrected, Agree, NoneWaits, BatchTyped, Phases
<1> QED
  BY <1>5, <1>6, <1>7, <1>8, <1>9, <1>10, <1>11, <1>12

LEMMA AllStagedKeeps ==
  ASSUME BatchInv, AllStaged
  PROVE  BatchInv'
<1> USE TargetAssumption DEF BatchInv
<1>1. UNCHANGED <<os, dir, temp, summary, overs, plan, staged, committed, back, errors, user, before, lost, fresh, raced, entries>>
  BY DEF AllStaged, files, moves, counts, history, BackFails
<1>2. Sources' = Sources
  BY <1>1, SourcesKept DEF Sources
<1>3. pc = "stage" /\ pc' = "commit" /\ staged = Sources
  BY DEF AllStaged
<1>4. Returned = {} /\ Returned' = {} /\ Ahead = {} /\ Ahead' = {}
  BY <1>1, <1>3 DEF Returned, Ahead, BatchTyped, Phases
<1>5. BatchTyped'
  BY <1>1, <1>2, <1>3, <1>4 DEF BatchTyped, Folders
<1>6. Apart'
  BY <1>1, <1>2, <1>3, <1>4 DEF Apart, BatchTyped, Folders
<1>7. Phases'
  BY <1>1, <1>2, <1>3, <1>4 DEF Phases, BatchTyped
<1>8. Sound'
  BY <1>1, <1>2, <1>3, <1>4 DEF Sound, BatchTyped
<1>9. Traced'
  BY <1>1, <1>2, <1>3, <1>4 DEF Traced, CameFrom, BatchTyped, Phases
<1>10. Replaced'
  BY <1>1, <1>2, <1>3, <1>4 DEF Replaced, InTheWay, Phases, BatchTyped
<1>11. Exact'
  BY <1>1, <1>2, <1>3, <1>4 DEF Exact, Calm, BatchTyped, Phases, Apart
<1>12. Corrected'
  BY <1>1, <1>2, <1>3, <1>4 DEF Corrected, Agree, NoneWaits, BatchTyped, Phases
<1> QED
  BY <1>5, <1>6, <1>7, <1>8, <1>9, <1>10, <1>11, <1>12

LEMMA CommitFileKeeps ==
  ASSUME BatchInv, NEW n \in Names, CommitFile(n)
  PROVE  BatchInv'
<1> USE TargetAssumption DEF BatchInv
<1>1. UNCHANGED <<os, summary, overs, plan, staged, back, pc, errors, user, before, fresh, raced, entries>>
  BY DEF CommitFile, files, moves, counts, history, BackFails
<1>2. Sources' = Sources
  BY <1>1, SourcesKept DEF Sources
<1>3. pc = "commit" /\ n \in staged \ committed /\ committed' = committed \union {n}
  BY DEF CommitFile, Least
<1>4. \A x \in Names : dir'[x] = IF x = plan[n] THEN temp[n] ELSE dir[x]
  BY DEF CommitFile, BatchTyped, Folders
<1>5. \A x \in Names : temp'[x] = IF x = n THEN None ELSE temp[x]
  BY DEF CommitFile, Vacated, BatchTyped, Folders
<1>6. plan[n] \in Names /\ plan[n] # n
  BY <1>3 DEF BatchTyped, Sound, Sources, Present
<1>7. Returned = {} /\ Returned' = {} /\ Ahead = committed /\ Ahead' = committed'
  BY <1>1, <1>3 DEF Returned, Ahead, BatchTyped, Phases
<1>8. /\ os = "posix" \/ dir[plan[n]] = None
      /\ lost' = IF dir[plan[n]] # None THEN lost \union {dir[plan[n]]} ELSE lost
  BY DEF CommitFile, Lost, Replaces
<1>9. CameFrom(plan[n])
  BY <1>3, <1>6 DEF Traced
<1>10. dir[plan[n]] \in fresh \union {None}
  BY <1>3, <1>6, <1>7, <1>9 DEF CameFrom, Sound, BatchTyped, Phases
<1>11. dir' \in Folders /\ temp' \in Folders
  BY DEF CommitFile, Vacated, BatchTyped, Folders
<1>12. BatchTyped'
  BY <1>1, <1>2, <1>3, <1>4, <1>5, <1>6, <1>7, <1>8, <1>9, <1>10, <1>11 DEF BatchTyped, Folders
<1>13. Apart'
  BY <1>1, <1>2, <1>3, <1>4, <1>5, <1>6, <1>7, <1>8, <1>9, <1>10, <1>11 DEF Apart, BatchTyped, Folders
<1>14. Phases'
  BY <1>1, <1>2, <1>3, <1>4, <1>5, <1>6, <1>7, <1>8, <1>9, <1>10, <1>11 DEF Phases, BatchTyped
<1>15. Sound'
  BY <1>1, <1>2, <1>3, <1>4, <1>5, <1>6, <1>7, <1>8, <1>9, <1>10, <1>11 DEF Sound, BatchTyped
<1>16. Traced'
  BY <1>1, <1>2, <1>3, <1>4, <1>5, <1>6, <1>7, <1>8, <1>9, <1>10, <1>11 DEF Traced, CameFrom, BatchTyped, Phases
<1>17. Replaced'
  BY <1>1, <1>2, <1>3, <1>4, <1>5, <1>6, <1>7, <1>8, <1>9, <1>10, <1>11 DEF Replaced, InTheWay, Phases, BatchTyped
<1>18. Exact'
  <2> SUFFICES ASSUME Calm'
               PROVE  /\ \A m \in Ahead' : dir'[plan[m]] = before[m]
                      /\ \A x \in Names : (\A m \in Ahead' : plan[m] # x)
                             => dir'[x] = IF x \in staged THEN None ELSE before[x]
                      /\ \A x \in Names : temp'[x] = IF x \in staged \ committed' THEN before[x] ELSE None
    BY <1>1, <1>7 DEF Exact
  <2>1. Calm /\ dir[plan[n]] = None
    BY <1>1, <1>8, <1>10 DEF Calm, BatchTyped
  <2>2. /\ \A m \in committed : dir[plan[m]] = before[m]
        /\ \A x \in Names : (\A m \in committed : plan[m] # x)
               => dir[x] = IF x \in staged THEN None ELSE before[x]
        /\ \A x \in Names : temp[x] = IF x \in staged \ committed THEN before[x] ELSE None
    BY <2>1, <1>3, <1>7 DEF Exact
  <2>3. temp[n] = before[n]
    BY <1>3, <2>2
  <2>4. ASSUME NEW m \in committed, m # n PROVE plan[m] # plan[n]
    BY <1>3, <2>4 DEF Sound, BatchTyped
  <2>5. ASSUME NEW m \in committed PROVE plan[m] \in Names
    BY <1>3 DEF BatchTyped, Sources, Present
  <2>6. \A m \in Ahead' : dir'[plan[m]] = before[m]
    BY <1>3, <1>4, <1>6, <1>7, <2>2, <2>3, <2>4, <2>5
  <2>7. \A x \in Names : (\A m \in Ahead' : plan[m] # x)
           => dir'[x] = IF x \in staged THEN None ELSE before[x]
    BY <1>3, <1>4, <1>7, <2>2
  <2>8. \A x \in Names : temp'[x] = IF x \in staged \ committed' THEN before[x] ELSE None
    BY <1>3, <1>5, <2>2
  <2> QED
    BY <2>6, <2>7, <2>8
<1>19. Corrected'
  BY <1>1, <1>2, <1>3, <1>4, <1>5, <1>6, <1>7, <1>8, <1>9, <1>10, <1>11 DEF Corrected, Agree, NoneWaits, BatchTyped, Phases
<1> QED
  BY <1>12, <1>13, <1>14, <1>15, <1>16, <1>17, <1>18, <1>19

LEMMA CommitFailsKeeps ==
  ASSUME BatchInv, NEW n \in Names, CommitFails(n)
  PROVE  BatchInv'
<1> USE TargetAssumption DEF BatchInv
<1>1. UNCHANGED <<os, dir, temp, summary, overs, plan, staged, committed, errors, user, before, lost, fresh, raced, entries>>
  BY DEF CommitFails, files, moves, counts, history, BackFails
<1>2. Sources' = Sources
  BY <1>1, SourcesKept DEF Sources
<1>3. pc = "commit" /\ pc' = "uncommit" /\ back' = committed
  BY DEF CommitFails
<1>4. Returned = {} /\ Returned' = {} /\ Ahead = committed /\ Ahead' = committed
  BY <1>1, <1>3 DEF Returned, Ahead, BatchTyped, Phases
<1>5. BatchTyped'
  BY <1>1, <1>2, <1>3, <1>4 DEF BatchTyped, Folders
<1>6. Apart'
  BY <1>1, <1>2, <1>3, <1>4 DEF Apart, BatchTyped, Folders
<1>7. Phases'
  BY <1>1, <1>2, <1>3, <1>4 DEF Phases, BatchTyped
<1>8. Sound'
  BY <1>1, <1>2, <1>3, <1>4 DEF Sound, BatchTyped
<1>9. Traced'
  BY <1>1, <1>2, <1>3, <1>4 DEF Traced, CameFrom, BatchTyped, Phases
<1>10. Replaced'
  BY <1>1, <1>2, <1>3, <1>4 DEF Replaced, InTheWay, Phases, BatchTyped
<1>11. Exact'
  BY <1>1, <1>2, <1>3, <1>4 DEF Exact, Calm, BatchTyped, Phases, Apart
<1>12. Corrected'
  BY <1>1, <1>2, <1>3, <1>4 DEF Corrected, Agree, NoneWaits, BatchTyped, Phases
<1> QED
  BY <1>5, <1>6, <1>7, <1>8, <1>9, <1>10, <1>11, <1>12

LEMMA UncommitFileKeeps ==
  ASSUME BatchInv, NEW n \in Names, UncommitFile(n)
  PROVE  BatchInv'
<1> USE TargetAssumption DEF BatchInv
<1>1. UNCHANGED <<os, temp, summary, overs, plan, staged, committed, pc, errors, user, before, fresh, raced, entries>>
  BY DEF UncommitFile, files, moves, counts, history, BackFails
<1>2. Sources' = Sources
  BY <1>1, SourcesKept DEF Sources
<1>3. pc = "uncommit" /\ Greatest(n, back) /\ n \in committed /\ n \in back /\ back' = back \ {n} /\ dir[plan[n]] # None
  BY DEF UncommitFile, Greatest, Phases
<1>4. plan[n] # n /\ plan[n] \in Names
  BY <1>3 DEF BatchTyped, Sound, Sources, Present
<1>5. \A x \in Names : dir'[x] = IF x = plan[n] THEN None ELSE IF x = n THEN dir[plan[n]] ELSE dir[x]
  BY <1>4 DEF UncommitFile, BatchTyped, Folders
<1>6. dir' \in Folders
  BY <1>4 DEF UncommitFile, BatchTyped, Folders
<1>7. Returned = committed \ back /\ Returned' = Returned \union {n} /\ Ahead = back /\ Ahead' = back \ {n}
  BY <1>1, <1>3 DEF Returned, Ahead, BatchTyped, Phases
<1>8. /\ os = "posix" \/ dir[n] = None
      /\ lost' = IF dir[n] # None THEN lost \union {dir[n]} ELSE lost
  BY DEF UncommitFile, Lost, Replaces
<1>9. dir[n] \in fresh \union InTheWay \union {None}
  BY <1>3, <1>7 DEF Greatest, Traced, CameFrom, InTheWay, Sound, BatchTyped, Phases
<1>10. BatchTyped'
  BY <1>1, <1>2, <1>3, <1>4, <1>5, <1>6, <1>7, <1>8, <1>9 DEF BatchTyped, Folders
<1>11. Apart'
  <2>2. ASSUME NEW x \in Names, NEW y \in Names, dir'[x] # None, dir'[x] = dir'[y] PROVE x = y
    BY <1>4, <1>5, <2>2 DEF Apart
  <2>3. ASSUME NEW x \in Names, NEW y \in Names, temp[x] # None PROVE temp[x] # dir'[y]
    BY <1>4, <1>5, <2>3 DEF Apart
  <2> QED
    BY <1>1, <2>2, <2>3 DEF Apart
<1>12. Phases'
  BY <1>1, <1>2, <1>3, <1>4, <1>5, <1>6, <1>7, <1>8, <1>9 DEF Phases, BatchTyped
<1>13. Sound'
  BY <1>1, <1>2, <1>3, <1>4, <1>5, <1>6, <1>7, <1>8, <1>9 DEF Sound, BatchTyped
<1>14. Traced'
  BY <1>1, <1>2, <1>3, <1>4, <1>5, <1>6, <1>7, <1>8, <1>9 DEF Traced, CameFrom, BatchTyped, Phases
<1>15. Replaced'
  BY <1>1, <1>2, <1>3, <1>4, <1>5, <1>6, <1>7, <1>8, <1>9 DEF Replaced, InTheWay, Phases, BatchTyped
<1>16. Exact'
  <2> SUFFICES ASSUME Calm'
               PROVE  /\ \A m \in back' : dir'[plan[m]] = before[m] /\ plan[m] \notin Returned'
                      /\ \A x \in Names : (\A m \in back' : plan[m] # x)
                             => dir'[x] = IF x \in staged \ Returned' THEN None ELSE before[x]
                      /\ \A x \in Names : temp'[x] = IF x \in staged \ (committed \union Returned') THEN before[x] ELSE None
    BY <1>1, <1>3, <1>7 DEF Exact
  <2>1. Calm /\ dir[n] = None
    BY <1>1, <1>8 DEF Calm, BatchTyped
  <2>2. /\ \A m \in back : dir[plan[m]] = before[m] /\ plan[m] \notin Returned
        /\ \A x \in Names : (\A m \in back : plan[m] # x)
               => dir[x] = IF x \in staged \ Returned THEN None ELSE before[x]
        /\ \A x \in Names : temp[x] = IF x \in staged \ (committed \union Returned) THEN before[x] ELSE None
    BY <2>1, <1>3, <1>7 DEF Exact
  <2>3. \A m \in back : m \in Sources /\ plan[m] \in Names /\ before[m] # None
    BY <1>3 DEF BatchTyped, Sound, Sources, Present
  <2>4. \A m \in back : plan[m] # n
    BY <2>1, <2>2, <2>3
  <2>5. \A m \in back' : plan[m] # plan[n]
    BY <1>3, <2>3 DEF Sound
  <2>6. \A m \in back' : dir'[plan[m]] = before[m] /\ plan[m] \notin Returned'
    BY <1>3, <1>5, <1>7, <2>2, <2>3, <2>4, <2>5
  <2>7. ASSUME NEW x \in Names, \A m \in back' : plan[m] # x
        PROVE  dir'[x] = IF x \in staged \ Returned' THEN None ELSE before[x]
    <3>1. CASE x = n
      BY <1>3, <1>4, <1>5, <1>7, <2>2, <3>1
    <3>2. CASE x = plan[n]
      <4>1. x \notin Returned' /\ dir'[x] = None
        BY <1>3, <1>4, <1>5, <1>7, <2>2, <3>2
      <4>2. CASE x \in Sources
        BY <1>3, <4>1, <4>2 DEF Phases
      <4>3. CASE x \notin Sources
        <5>1. n \in Sources
          BY <1>3, <2>3
        <5>2. before[x] = None
          BY <3>2, <4>3, <5>1 DEF Sound
        <5> QED
          BY <4>1, <5>2
      <4> QED
        BY <4>2, <4>3
    <3>3. CASE x # n /\ x # plan[n]
      BY <1>3, <1>5, <1>7, <2>2, <2>7, <3>3
    <3> QED
      BY <3>1, <3>2, <3>3
  <2>8. \A x \in Names : temp'[x] = IF x \in staged \ (committed \union Returned') THEN before[x] ELSE None
    BY <1>1, <1>3, <1>7, <2>2
  <2> QED
    BY <2>6, <2>7, <2>8
<1>17. Corrected'
  BY <1>1, <1>2, <1>3, <1>4, <1>5, <1>6, <1>7, <1>8, <1>9 DEF Corrected, Agree, NoneWaits, BatchTyped, Phases
<1> QED
  BY <1>10, <1>11, <1>12, <1>13, <1>14, <1>15, <1>16, <1>17

LEMMA UncommitFailsKeeps ==
  ASSUME BatchInv, NEW n \in Names, UncommitFails(n)
  PROVE  BatchInv'
<1> USE TargetAssumption DEF BatchInv
<1>1. UNCHANGED <<os, dir, temp, summary, overs, plan, staged, committed, pc, user, before, lost, fresh, raced, entries>>
  BY DEF UncommitFails, files, moves, counts, history, BackFails
<1>2. Sources' = Sources
  BY <1>1, SourcesKept DEF Sources
<1>3. pc = "uncommit" /\ n \in committed /\ n \in back /\ back' = back \ {n} /\ errors'
  BY DEF UncommitFails, BackFails, Greatest, Phases
<1>4. Returned = committed \ back /\ Returned' = Returned \union {n} /\ Ahead = back /\ Ahead' = back \ {n}
  BY <1>1, <1>3 DEF Returned, Ahead, BatchTyped, Phases
<1>5. BatchTyped'
  BY <1>1, <1>2, <1>3, <1>4 DEF BatchTyped, Folders
<1>6. Apart'
  BY <1>1, <1>2, <1>3, <1>4 DEF Apart, BatchTyped, Folders
<1>7. Phases'
  BY <1>1, <1>2, <1>3, <1>4 DEF Phases, BatchTyped
<1>8. Sound'
  BY <1>1, <1>2, <1>3, <1>4 DEF Sound, BatchTyped
<1>9. Traced'
  BY <1>1, <1>2, <1>3, <1>4 DEF Traced, CameFrom, BatchTyped, Phases
<1>10. Replaced'
  <2>1. InTheWay \subseteq InTheWay'
    BY <1>1, <1>2, <1>3 DEF InTheWay
  <2> QED
    BY <1>1, <1>3, <2>1 DEF Replaced
<1>11. Exact'
  BY <1>1, <1>2, <1>3, <1>4 DEF Exact, Calm, BatchTyped, Phases, Apart
<1>12. Corrected'
  BY <1>1, <1>2, <1>3, <1>4 DEF Corrected, Agree, NoneWaits, BatchTyped, Phases
<1> QED
  BY <1>5, <1>6, <1>7, <1>8, <1>9, <1>10, <1>11, <1>12

LEMMA AllUncommittedKeeps ==
  ASSUME BatchInv, AllUncommitted
  PROVE  BatchInv'
<1> USE TargetAssumption DEF BatchInv
<1>1. UNCHANGED <<os, dir, temp, summary, overs, plan, staged, committed, errors, user, before, lost, fresh, raced, entries>>
  BY DEF AllUncommitted, files, moves, counts, history, BackFails
<1>2. Sources' = Sources
  BY <1>1, SourcesKept DEF Sources
<1>3. pc = "uncommit" /\ pc' = "unstage" /\ back = {} /\ back' = staged \ committed
  BY DEF AllUncommitted
<1>4. Returned = committed /\ Returned' = committed /\ Ahead = {} /\ Ahead' = {}
  BY <1>1, <1>3 DEF Returned, Ahead, BatchTyped, Phases
<1>5. BatchTyped'
  BY <1>1, <1>2, <1>3, <1>4 DEF BatchTyped, Folders
<1>6. Apart'
  BY <1>1, <1>2, <1>3, <1>4 DEF Apart, BatchTyped, Folders
<1>7. Phases'
  BY <1>1, <1>2, <1>3, <1>4 DEF Phases, BatchTyped
<1>8. Sound'
  BY <1>1, <1>2, <1>3, <1>4 DEF Sound, BatchTyped
<1>9. Traced'
  BY <1>1, <1>2, <1>3, <1>4 DEF Traced, CameFrom, BatchTyped, Phases
<1>10. Replaced'
  BY <1>1, <1>2, <1>3, <1>4 DEF Replaced, InTheWay, Phases, BatchTyped
<1>11. Exact'
  BY <1>1, <1>2, <1>3, <1>4 DEF Exact, Calm, BatchTyped, Phases, Apart
<1>12. Corrected'
  BY <1>1, <1>2, <1>3, <1>4 DEF Corrected, Agree, NoneWaits, BatchTyped, Phases
<1> QED
  BY <1>5, <1>6, <1>7, <1>8, <1>9, <1>10, <1>11, <1>12

LEMMA UnstageFileKeeps ==
  ASSUME BatchInv, NEW n \in Names, UnstageFile(n)
  PROVE  BatchInv'
<1> USE TargetAssumption DEF BatchInv
<1>1. UNCHANGED <<os, summary, overs, plan, staged, committed, pc, errors, user, before, fresh, raced, entries>>
  BY DEF UnstageFile, files, moves, counts, history, BackFails
<1>2. Sources' = Sources
  BY <1>1, SourcesKept DEF Sources
<1>3. pc = "unstage" /\ n \in staged \ committed /\ n \in back /\ back' = back \ {n}
  BY DEF UnstageFile, Greatest, Phases
<1>4. \A x \in Names : dir'[x] = IF x = n THEN temp[n] ELSE dir[x]
  BY DEF UnstageFile, BatchTyped, Folders
<1>5. \A x \in Names : temp'[x] = IF x = n THEN None ELSE temp[x]
  BY DEF UnstageFile, Vacated, BatchTyped, Folders
<1>6. dir' \in Folders /\ temp' \in Folders
  BY DEF UnstageFile, Vacated, BatchTyped, Folders
<1>7. Returned = staged \ back /\ Returned' = Returned \union {n} /\ Ahead = {} /\ Ahead' = {}
  BY <1>1, <1>3 DEF Returned, Ahead, BatchTyped, Phases
<1>8. /\ os = "posix" \/ dir[n] = None
      /\ lost' = IF dir[n] # None THEN lost \union {dir[n]} ELSE lost
  BY DEF UnstageFile, Lost, Replaces
<1>9. dir[n] \in fresh \union InTheWay \union {None}
  BY <1>3, <1>7 DEF Traced, CameFrom, InTheWay, Sound, BatchTyped, Phases
<1>10. BatchTyped'
  BY <1>1, <1>2, <1>3, <1>4, <1>5, <1>6, <1>7, <1>8, <1>9 DEF BatchTyped, Folders
<1>11. Apart'
  BY <1>1, <1>2, <1>3, <1>4, <1>5, <1>6, <1>7, <1>8, <1>9 DEF Apart, BatchTyped, Folders
<1>12. Phases'
  BY <1>1, <1>2, <1>3, <1>4, <1>5, <1>6, <1>7, <1>8, <1>9 DEF Phases, BatchTyped
<1>13. Sound'
  BY <1>1, <1>2, <1>3, <1>4, <1>5, <1>6, <1>7, <1>8, <1>9 DEF Sound, BatchTyped
<1>14. Traced'
  BY <1>1, <1>2, <1>3, <1>4, <1>5, <1>6, <1>7, <1>8, <1>9 DEF Traced, CameFrom, BatchTyped, Phases
<1>15. Replaced'
  BY <1>1, <1>2, <1>3, <1>4, <1>5, <1>6, <1>7, <1>8, <1>9 DEF Replaced, InTheWay, Phases, BatchTyped
<1>16. Exact'
  BY <1>1, <1>2, <1>3, <1>4, <1>5, <1>6, <1>7, <1>8, <1>9 DEF Exact, Calm, BatchTyped, Phases, Apart
<1>17. Corrected'
  BY <1>1, <1>2, <1>3, <1>4, <1>5, <1>6, <1>7, <1>8, <1>9 DEF Corrected, Agree, NoneWaits, BatchTyped, Phases
<1> QED
  BY <1>10, <1>11, <1>12, <1>13, <1>14, <1>15, <1>16, <1>17

LEMMA UnstageFailsKeeps ==
  ASSUME BatchInv, NEW n \in Names, UnstageFails(n)
  PROVE  BatchInv'
<1> USE TargetAssumption DEF BatchInv
<1>1. UNCHANGED <<os, dir, temp, summary, overs, plan, staged, committed, pc, user, before, lost, fresh, raced, entries>>
  BY DEF UnstageFails, files, moves, counts, history, BackFails
<1>2. Sources' = Sources
  BY <1>1, SourcesKept DEF Sources
<1>3. pc = "unstage" /\ n \in staged \ committed /\ n \in back /\ back' = back \ {n} /\ errors'
  BY DEF UnstageFails, BackFails, Greatest, Phases
<1>4. Returned = staged \ back /\ Returned' = Returned \union {n} /\ Ahead = {} /\ Ahead' = {}
  BY <1>1, <1>3 DEF Returned, Ahead, BatchTyped, Phases
<1>5. BatchTyped'
  BY <1>1, <1>2, <1>3, <1>4 DEF BatchTyped, Folders
<1>6. Apart'
  BY <1>1, <1>2, <1>3, <1>4 DEF Apart, BatchTyped, Folders
<1>7. Phases'
  BY <1>1, <1>2, <1>3, <1>4 DEF Phases, BatchTyped
<1>8. Sound'
  BY <1>1, <1>2, <1>3, <1>4 DEF Sound, BatchTyped
<1>9. Traced'
  BY <1>1, <1>2, <1>3, <1>4 DEF Traced, CameFrom, BatchTyped, Phases
<1>10. Replaced'
  <2>1. InTheWay \subseteq InTheWay'
    BY <1>1, <1>2, <1>3 DEF InTheWay
  <2> QED
    BY <1>1, <1>3, <2>1 DEF Replaced
<1>11. Exact'
  BY <1>1, <1>2, <1>3, <1>4 DEF Exact, Calm, BatchTyped, Phases, Apart
<1>12. Corrected'
  BY <1>1, <1>2, <1>3, <1>4 DEF Corrected, Agree, NoneWaits, BatchTyped, Phases
<1> QED
  BY <1>5, <1>6, <1>7, <1>8, <1>9, <1>10, <1>11, <1>12

LEMMA AllUnstagedKeeps ==
  ASSUME BatchInv, AllUnstaged
  PROVE  BatchInv'
<1> USE TargetAssumption DEF BatchInv
<1>1. UNCHANGED <<os, dir, temp, summary, overs, plan, staged, committed, back, errors, user, before, lost, fresh, raced, entries>>
  BY DEF AllUnstaged, files, moves, counts, history, BackFails
<1>2. Sources' = Sources
  BY <1>1, SourcesKept DEF Sources
<1>3. pc = "unstage" /\ pc' = "failed" /\ back = {}
  BY DEF AllUnstaged
<1>4. Returned = staged /\ Returned' = staged /\ Ahead = {} /\ Ahead' = {}
  BY <1>1, <1>3 DEF Returned, Ahead, BatchTyped, Phases
<1>5. BatchTyped'
  BY <1>1, <1>2, <1>3, <1>4 DEF BatchTyped, Folders
<1>6. Apart'
  BY <1>1, <1>2, <1>3, <1>4 DEF Apart, BatchTyped, Folders
<1>7. Phases'
  BY <1>1, <1>2, <1>3, <1>4 DEF Phases, BatchTyped
<1>8. Sound'
  BY <1>1, <1>2, <1>3, <1>4 DEF Sound, BatchTyped
<1>9. Traced'
  BY <1>1, <1>2, <1>3, <1>4 DEF Traced, CameFrom, BatchTyped, Phases
<1>10. Replaced'
  BY <1>1, <1>2, <1>3, <1>4 DEF Replaced, InTheWay, Phases, BatchTyped
<1>11. Exact'
  BY <1>1, <1>2, <1>3, <1>4 DEF Exact, Calm, BatchTyped, Phases, Apart
<1>12. Corrected'
  BY <1>1, <1>2, <1>3, <1>4 DEF Corrected, Agree, NoneWaits, BatchTyped, Phases
<1> QED
  BY <1>5, <1>6, <1>7, <1>8, <1>9, <1>10, <1>11, <1>12

LEMMA AllCommittedKeeps ==
  ASSUME BatchInv, AllCommitted
  PROVE  BatchInv'
<1> USE TargetAssumption DEF BatchInv
<1>1. UNCHANGED <<os, dir, temp, summary, overs, plan, staged, committed, back, errors, user, before, lost, fresh, raced>>
  BY DEF AllCommitted, files, moves, counts, history, BackFails
<1>2. Sources' = Sources
  BY <1>1, SourcesKept DEF Sources
<1>3. pc = "commit" /\ pc' = "migrate" /\ committed = staged /\ entries' = overs
  BY DEF AllCommitted
<1>4. Returned = {} /\ Returned' = {} /\ Ahead = committed /\ Ahead' = committed
  BY <1>1, <1>3 DEF Returned, Ahead, BatchTyped, Phases
<1>5. BatchTyped'
  BY <1>1, <1>2, <1>3, <1>4 DEF BatchTyped, Folders
<1>6. Apart'
  BY <1>1, <1>2, <1>3, <1>4 DEF Apart, BatchTyped, Folders
<1>7. Phases'
  BY <1>1, <1>2, <1>3, <1>4 DEF Phases, BatchTyped
<1>8. Sound'
  BY <1>1, <1>2, <1>3, <1>4 DEF Sound, BatchTyped
<1>9. Traced'
  BY <1>1, <1>2, <1>3, <1>4 DEF Traced, CameFrom, BatchTyped, Phases
<1>10. Replaced'
  BY <1>1, <1>2, <1>3, <1>4 DEF Replaced, InTheWay, Phases, BatchTyped
<1>11. Exact'
  BY <1>1, <1>2, <1>3, <1>4 DEF Exact, Calm, BatchTyped, Phases, Apart
<1>12. Corrected'
  BY <1>1, <1>2, <1>3, <1>4 DEF Corrected, Agree, NoneWaits, BatchTyped, Phases
<1> QED
  BY <1>5, <1>6, <1>7, <1>8, <1>9, <1>10, <1>11, <1>12

LEMMA RebuildKeeps ==
  ASSUME BatchInv, Rebuild
  PROVE  BatchInv'
<1> USE TargetAssumption DEF BatchInv
<1>1. UNCHANGED <<os, dir, temp, overs, plan, staged, committed, back, errors, user, before, lost, fresh, raced, entries>>
  BY DEF Rebuild, files, moves, counts, history, BackFails
<1>2. Sources' = Sources
  BY <1>1, SourcesKept DEF Sources
<1>3. pc = "rebuild" /\ pc' = "done" /\ summary' \in Folders
  BY DEF Rebuild, BatchTyped
<1>4. Returned = {} /\ Returned' = {} /\ Ahead = committed /\ Ahead' = committed
  BY <1>1, <1>3 DEF Returned, Ahead, BatchTyped, Phases
<1>5. BatchTyped'
  BY <1>1, <1>2, <1>3, <1>4 DEF BatchTyped, Folders
<1>6. Apart'
  BY <1>1, <1>2, <1>3, <1>4 DEF Apart, BatchTyped, Folders
<1>7. Phases'
  BY <1>1, <1>2, <1>3, <1>4 DEF Phases, BatchTyped
<1>8. Sound'
  BY <1>1, <1>2, <1>3, <1>4 DEF Sound, BatchTyped
<1>9. Traced'
  BY <1>1, <1>2, <1>3, <1>4 DEF Traced, CameFrom, BatchTyped, Phases
<1>10. Replaced'
  BY <1>1, <1>2, <1>3, <1>4 DEF Replaced, InTheWay, Phases, BatchTyped
<1>11. Exact'
  BY <1>1, <1>2, <1>3, <1>4 DEF Exact, Calm, BatchTyped, Phases, Apart
<1>12. Corrected'
  BY <1>1, <1>2, <1>3, <1>4 DEF Corrected, Agree, NoneWaits, BatchTyped, Phases
<1> QED
  BY <1>5, <1>6, <1>7, <1>8, <1>9, <1>10, <1>11, <1>12

LEMMA PreflightKeeps ==
  ASSUME BatchInv, Preflight
  PROVE  BatchInv'
<1> USE TargetAssumption DEF BatchInv
<1>1. UNCHANGED <<os, dir, temp, overs, plan, staged, committed, back, errors, user, lost, fresh, raced, entries>>
  BY DEF Preflight, files, moves, counts, history, BackFails
<1>2. Sources' = Sources
  BY <1>1, SourcesKept DEF Sources
<1>3. pc = "idle" /\ pc' \in {"listed", "failed"} /\ summary' \in Folders /\ before' = dir
  BY DEF Preflight, BatchTyped
<1>4. plan = Nothing /\ Sources = {} /\ staged = {} /\ committed = {} /\ temp = Nothing /\ lost = {}
  BY <1>3, EmptyPlan DEF Phases, BatchTyped
<1>5. Returned = {} /\ Returned' = {} /\ Ahead = {} /\ Ahead' = {}
  BY <1>1, <1>3, <1>4 DEF Returned, Ahead
<1>6. BatchTyped'
  BY <1>1, <1>2, <1>3, <1>4, <1>5 DEF BatchTyped, Folders
<1>7. Apart'
  BY <1>1, <1>2, <1>3, <1>4, <1>5 DEF Apart, BatchTyped, Folders
<1>8. Phases'
  BY <1>1, <1>2, <1>3, <1>4, <1>5 DEF Phases, BatchTyped
<1>9. Sound'
  BY <1>1, <1>2, <1>3, <1>4, <1>5 DEF Sound, BatchTyped
<1>10. Traced'
  BY <1>1, <1>2, <1>3, <1>4, <1>5 DEF Traced, CameFrom, BatchTyped, Phases
<1>11. Replaced'
  BY <1>1, <1>2, <1>3, <1>4, <1>5 DEF Replaced, InTheWay, Phases, BatchTyped
<1>12. Exact'
  BY <1>1, <1>2, <1>3, <1>4, <1>5 DEF Exact, Calm, BatchTyped, Phases, Apart
<1>13. Corrected'
  BY <1>1, <1>2, <1>3, <1>4, <1>5 DEF Corrected, Agree, NoneWaits, BatchTyped, Phases
<1> QED
  BY <1>6, <1>7, <1>8, <1>9, <1>10, <1>11, <1>12, <1>13

LEMMA PlanKeeps ==
  ASSUME BatchInv, Plan
  PROVE  BatchInv'
<1> USE TargetAssumption DEF BatchInv
<1>1. UNCHANGED <<os, dir, temp, summary, overs, staged, committed, back, errors, user, lost, fresh, raced, entries>>
  BY DEF Plan, files, moves, counts, history, BackFails
<1>2. Sources' = Planned
  BY PlannedSound DEF Plan, Sources, Present, BatchTyped
<1>3. pc = "listed" /\ pc' \in {"stage", "done"} /\ before' = dir /\ (pc' = "done" => Planned = {})
  BY DEF Plan
<1>4. plan = Nothing /\ Sources = {} /\ staged = {} /\ committed = {} /\ back = {} /\ temp = Nothing /\ lost = {} /\ ~errors
  BY <1>3, EmptyPlan DEF Phases, BatchTyped
<1>5. plan' \in [Names -> Names \union {None}] /\ \A n \in Planned : plan'[n] = Wanted(n)
  BY PlannedSound DEF Plan
<1>6. Returned = {} /\ Returned' = {} /\ Ahead = {} /\ Ahead' = {}
  BY <1>1, <1>3, <1>4 DEF Returned, Ahead
<1>7. Sound'
  BY <1>2, <1>3, <1>5, PlannedSound DEF Sound
<1>8. user = 0 => \A x \in Names : dir[x] = before[x]
  BY <1>3, <1>4, <1>6 DEF Exact, Calm
<1>9. \A x \in Names : temp[x] = None
  BY <1>4 DEF Nothing
<1>10. BatchTyped'
  BY <1>1, <1>2, <1>3, <1>4, <1>5, <1>6, <1>7, <1>8, <1>9 DEF BatchTyped, Folders
<1>11. Apart'
  BY <1>1, <1>2, <1>3, <1>4, <1>5, <1>6, <1>7, <1>8, <1>9 DEF Apart, BatchTyped, Folders
<1>12. Phases'
  BY <1>1, <1>2, <1>3, <1>4, <1>5, <1>6, <1>7, <1>8, <1>9 DEF Phases, BatchTyped
<1>13. Sound'
  BY <1>1, <1>2, <1>3, <1>4, <1>5, <1>6, <1>7, <1>8, <1>9 DEF Sound, BatchTyped
<1>14. Traced'
  BY <1>1, <1>2, <1>3, <1>4, <1>5, <1>6, <1>7, <1>8, <1>9 DEF Traced, CameFrom, BatchTyped, Phases
<1>15. Replaced'
  BY <1>1, <1>2, <1>3, <1>4, <1>5, <1>6, <1>7, <1>8, <1>9 DEF Replaced, InTheWay, Phases, BatchTyped
<1>16. Exact'
  BY <1>1, <1>2, <1>3, <1>4, <1>5, <1>6, <1>7, <1>8, <1>9 DEF Exact, Calm, BatchTyped, Phases, Apart
<1>17. Corrected'
  BY <1>1, <1>2, <1>3, <1>4, <1>5, <1>6, <1>7, <1>8, <1>9 DEF Corrected, Agree, NoneWaits, BatchTyped, Phases
<1> QED
  BY <1>10, <1>11, <1>12, <1>13, <1>14, <1>15, <1>16, <1>17

LEMMA MigrateKeeps ==
  ASSUME BatchInv, Migrate
  PROVE  BatchInv'
<1> USE TargetAssumption DEF BatchInv
<1>1. UNCHANGED <<os, dir, temp, summary, plan, staged, committed, back, errors, user, before, lost, fresh, raced, entries>>
  BY DEF Migrate, files, moves, counts, history, BackFails
<1>2. Sources' = Sources
  BY <1>1, SourcesKept DEF Sources
<1>3. pc = "migrate" /\ pc' \in {"rebuild", "astray"} /\ overs' \in Folders
  BY DEF Migrate, Folders
<1>4. Returned = {} /\ Returned' = {} /\ Ahead = committed /\ Ahead' = committed /\ committed = Sources
  BY <1>1, <1>3 DEF Returned, Ahead, BatchTyped, Phases
<1>5. BatchTyped'
  BY <1>1, <1>2, <1>3, <1>4 DEF BatchTyped, Folders
<1>6. Apart'
  BY <1>1, <1>2, <1>3, <1>4 DEF Apart, BatchTyped, Folders
<1>7. Phases'
  BY <1>1, <1>2, <1>3, <1>4 DEF Phases, BatchTyped
<1>8. Sound'
  BY <1>1, <1>2, <1>3, <1>4 DEF Sound, BatchTyped
<1>9. Traced'
  BY <1>1, <1>2, <1>3, <1>4 DEF Traced, CameFrom, BatchTyped, Phases
<1>10. Replaced'
  BY <1>1, <1>2, <1>3, <1>4 DEF Replaced, InTheWay, Phases, BatchTyped
<1>11. Exact'
  BY <1>1, <1>2, <1>3, <1>4 DEF Exact, Calm, BatchTyped, Phases, Apart
<1>12. Corrected'
  <2> SUFFICES ASSUME ~raced, user = 0, pc' = "rebuild", NoneWaits,
                       NEW x \in Names, overs'[x] # None, dir[x] # None
               PROVE  overs'[x] = dir[x]
    BY <1>1, <1>2, <1>3 DEF Corrected, Agree, NoneWaits
  <2>1. Calm
    BY <1>3 DEF Calm, BatchTyped, Phases, Replaced
  <2>2. Agree(overs, before) /\ entries = overs
    BY <1>3 DEF Corrected
  <2>3. /\ \A m \in Sources : dir[plan[m]] = before[m]
        /\ (\A m \in Sources : plan[m] # x) => dir[x] = IF x \in staged THEN None ELSE before[x]
    BY <2>1, <1>3, <1>4 DEF Exact
  <2>4. staged = Sources /\ \A m \in Sources : m \in Names /\ before[m] # None
    BY <1>3 DEF Phases, Sound, Sources, Present
  <2>5. ASSUME NEW m \in Sources, plan[m] = x, entries[m] # None PROVE entries[m] = dir[x]
    BY <2>2, <2>3, <2>4, <2>5 DEF Agree
  <2>6. ASSUME x \notin Sources, entries[x] # None PROVE entries[x] = dir[x]
    <3>1. \A m \in Sources : plan[m] # x
      BY <2>6 DEF NoneWaits
    <3> QED
      BY <2>2, <2>3, <2>4, <2>6, <3>1 DEF Agree
  <2>7. CASE \E m \in committed : entries[m] # None
    <3>1. overs'[x] \in Moved(x)
      BY <2>7 DEF Migrate
    <3> QED
      BY <1>4, <2>5, <2>6, <3>1 DEF Moved, Arrivals
  <2>8. CASE ~\E m \in committed : entries[m] # None
    <3>1. overs' = overs
      BY <2>8 DEF Migrate
    <3> QED
      BY <1>4, <2>2, <2>6, <2>8, <3>1
  <2> QED
    BY <2>7, <2>8
<1> QED
  BY <1>5, <1>6, <1>7, <1>8, <1>9, <1>10, <1>11, <1>12

LEMMA AbsorbKeeps ==
  ASSUME BatchInv, NEW n \in Names, Absorb(n)
  PROVE  BatchInv'
<1> USE TargetAssumption DEF BatchInv
<1>1. UNCHANGED <<os, dir, temp, summary, plan, staged, committed, back, pc, errors, user, before, lost, fresh, entries>>
  BY DEF Absorb, files, moves, counts, history, BackFails
<1>2. Sources' = Sources
  BY <1>1, SourcesKept DEF Sources
<1>3. overs' \in Folders /\ raced' = TRUE
  BY DEF Absorb, BatchTyped, Folders
<1>4. pc \notin {"idle", "done", "failed", "astray"}
  BY DEF Absorb, Running
<1>5. Returned' = Returned /\ Ahead' = Ahead
  BY <1>1 DEF Returned, Ahead
<1>6. BatchTyped'
  BY <1>1, <1>2, <1>3, <1>4, <1>5 DEF BatchTyped, Folders
<1>7. Apart'
  BY <1>1, <1>2, <1>3, <1>4, <1>5 DEF Apart, BatchTyped, Folders
<1>8. Phases'
  BY <1>1, <1>2, <1>3, <1>4, <1>5 DEF Phases, BatchTyped
<1>9. Sound'
  BY <1>1, <1>2, <1>3, <1>4, <1>5 DEF Sound, BatchTyped
<1>10. Traced'
  BY <1>1, <1>2, <1>3, <1>4, <1>5 DEF Traced, CameFrom, BatchTyped, Phases
<1>11. Replaced'
  BY <1>1, <1>2, <1>3, <1>4, <1>5 DEF Replaced, InTheWay, Phases, BatchTyped
<1>12. Exact'
  BY <1>1, <1>2, <1>3, <1>4, <1>5 DEF Exact, Calm, BatchTyped, Phases, Apart
<1>13. Corrected'
  BY <1>1, <1>2, <1>3, <1>4, <1>5 DEF Corrected, Agree, NoneWaits, BatchTyped, Phases
<1> QED
  BY <1>6, <1>7, <1>8, <1>9, <1>10, <1>11, <1>12, <1>13

LEMMA AddFileKeeps ==
  ASSUME BatchInv, NEW n \in Names, NEW i \in Invoices, AddFile(n, i)
  PROVE  BatchInv'
<1> USE TargetAssumption DEF BatchInv
<1>1. UNCHANGED <<os, temp, summary, overs, plan, staged, committed, back, pc, errors, before, lost, raced, entries>>
  BY DEF AddFile, files, moves, counts, history, BackFails
<1>2. Sources' = Sources
  BY <1>1, SourcesKept DEF Sources
<1>3. dir[n] = None /\ i \notin Somewhere /\ fresh' = fresh \union {i} /\ user' = user + 1
  BY DEF AddFile
<1>4. \A x \in Names : dir'[x] = IF x = n THEN i ELSE dir[x]
  BY DEF AddFile, BatchTyped, Folders
<1>5. dir' \in Folders
  BY DEF AddFile, BatchTyped, Folders
<1>6. pc \notin {"idle", "done", "failed", "astray"}
  BY DEF AddFile, Running
<1>7. Returned' = Returned /\ Ahead' = Ahead
  BY <1>1 DEF Returned, Ahead
<1>8. \A x \in Names : dir[x] # i /\ temp[x] # i
  BY <1>3 DEF Somewhere
<1>9. BatchTyped'
  BY <1>1, <1>2, <1>3, <1>4, <1>5, <1>6, <1>7, <1>8 DEF BatchTyped, Folders
<1>10. Apart'
  BY <1>1, <1>2, <1>3, <1>4, <1>5, <1>6, <1>7, <1>8 DEF Apart, BatchTyped, Folders
<1>11. Phases'
  BY <1>1, <1>2, <1>3, <1>4, <1>5, <1>6, <1>7, <1>8 DEF Phases, BatchTyped
<1>12. Sound'
  BY <1>1, <1>2, <1>3, <1>4, <1>5, <1>6, <1>7, <1>8 DEF Sound, BatchTyped
<1>13. Traced'
  BY <1>1, <1>2, <1>3, <1>4, <1>5, <1>6, <1>7, <1>8 DEF Traced, CameFrom, BatchTyped, Phases
<1>14. Replaced'
  BY <1>1, <1>2, <1>3, <1>4, <1>5, <1>6, <1>7, <1>8 DEF Replaced, InTheWay, Phases, BatchTyped
<1>15. Exact'
  BY <1>1, <1>2, <1>3, <1>4, <1>5, <1>6, <1>7, <1>8 DEF Exact, Calm, BatchTyped, Phases, Apart
<1>16. Corrected'
  BY <1>1, <1>2, <1>3, <1>4, <1>5, <1>6, <1>7, <1>8 DEF Corrected, Agree, NoneWaits, BatchTyped, Phases
<1> QED
  BY <1>9, <1>10, <1>11, <1>12, <1>13, <1>14, <1>15, <1>16

LEMMA DeleteFileKeeps ==
  ASSUME BatchInv, NEW n \in Names, DeleteFile(n)
  PROVE  BatchInv'
<1> USE TargetAssumption DEF BatchInv
<1>1. UNCHANGED <<os, temp, summary, overs, plan, staged, committed, back, pc, errors, before, lost, fresh, raced, entries>>
  BY DEF DeleteFile, files, moves, counts, history, BackFails
<1>2. Sources' = Sources
  BY <1>1, SourcesKept DEF Sources
<1>3. user' = user + 1
  BY DEF DeleteFile
<1>4. \A x \in Names : dir'[x] = IF x = n THEN None ELSE dir[x]
  BY DEF DeleteFile, BatchTyped, Folders
<1>5. dir' \in Folders
  BY DEF DeleteFile, BatchTyped, Folders
<1>6. pc \notin {"idle", "done", "failed", "astray"}
  BY DEF DeleteFile, Running
<1>7. Returned' = Returned /\ Ahead' = Ahead
  BY <1>1 DEF Returned, Ahead
<1>8. BatchTyped'
  BY <1>1, <1>2, <1>3, <1>4, <1>5, <1>6, <1>7 DEF BatchTyped, Folders
<1>9. Apart'
  BY <1>1, <1>2, <1>3, <1>4, <1>5, <1>6, <1>7 DEF Apart, BatchTyped, Folders
<1>10. Phases'
  BY <1>1, <1>2, <1>3, <1>4, <1>5, <1>6, <1>7 DEF Phases, BatchTyped
<1>11. Sound'
  BY <1>1, <1>2, <1>3, <1>4, <1>5, <1>6, <1>7 DEF Sound, BatchTyped
<1>12. Traced'
  BY <1>1, <1>2, <1>3, <1>4, <1>5, <1>6, <1>7 DEF Traced, CameFrom, BatchTyped, Phases
<1>13. Replaced'
  BY <1>1, <1>2, <1>3, <1>4, <1>5, <1>6, <1>7 DEF Replaced, InTheWay, Phases, BatchTyped
<1>14. Exact'
  BY <1>1, <1>2, <1>3, <1>4, <1>5, <1>6, <1>7 DEF Exact, Calm, BatchTyped, Phases, Apart
<1>15. Corrected'
  BY <1>1, <1>2, <1>3, <1>4, <1>5, <1>6, <1>7 DEF Corrected, Agree, NoneWaits, BatchTyped, Phases
<1> QED
  BY <1>8, <1>9, <1>10, <1>11, <1>12, <1>13, <1>14, <1>15

LEMMA BatchInvStep == BatchInv /\ [Next]_vars => BatchInv'
<1> SUFFICES ASSUME BatchInv, [Next]_vars PROVE BatchInv'
  OBVIOUS
<1>1. CASE Preflight \/ Plan \/ AllStaged \/ AllUncommitted \/ AllUnstaged
  BY <1>1, PreflightKeeps, PlanKeeps, AllStagedKeeps, AllUncommittedKeeps, AllUnstagedKeeps
<1>2. CASE AllCommitted \/ Migrate \/ Rebuild
  BY <1>2, AllCommittedKeeps, MigrateKeeps, RebuildKeeps
<1>3. ASSUME NEW n \in Names, Rename(n) PROVE BatchInv'
  BY <1>3, StageFileKeeps, StageFailsKeeps, CommitFileKeeps, CommitFailsKeeps, UncommitFileKeeps,
     UncommitFailsKeeps, UnstageFileKeeps, UnstageFailsKeeps DEF Rename
<1>4. ASSUME NEW n \in Names, Absorb(n) \/ DeleteFile(n) PROVE BatchInv'
  BY <1>4, AbsorbKeeps, DeleteFileKeeps
<1>5. ASSUME NEW n \in Names, NEW i \in Invoices, AddFile(n, i) PROVE BatchInv'
  BY <1>5, AddFileKeeps
<1>6. CASE UNCHANGED vars
  BY <1>6 DEF vars, files, moves, counts, history, BatchInv, BatchTyped, Folders, Apart, Phases, Sound, Traced,
     CameFrom, Replaced, InTheWay, Exact, Calm, Corrected, Agree, NoneWaits, Ahead, Returned,
     Sources, Present, Nothing
<1> QED
  BY <1>1, <1>2, <1>3, <1>4, <1>5, <1>6 DEF Next

LEMMA BatchInvInit == Init => BatchInv
<1> SUFFICES ASSUME Init PROVE BatchInv
  OBVIOUS
<1> USE TargetAssumption
<1>1. plan = Nothing /\ temp = Nothing /\ Sources = {} /\ pc = "idle"
  BY EmptyPlan DEF Init
<1>2. BatchTyped
  BY <1>1 DEF Init, BatchTyped, Folders, Nothing
<1>3. Apart
  BY DEF Init, Apart, Nothing, Present
<1>4. Returned = {} /\ Ahead = {}
  BY DEF Init, Returned, Ahead
<1>5. Phases /\ Sound /\ Traced /\ Replaced /\ Exact
  BY <1>1 DEF Init, Phases, Sound, Traced, Replaced, Exact
<1>6. Corrected
  BY DEF Init, Corrected, Agree
<1> QED
  BY <1>2, <1>3, <1>5, <1>6 DEF BatchInv

LEMMA BatchInvHolds == Spec => []BatchInv
BY BatchInvInit, BatchInvStep, PTL DEF Spec

\* What the invariant says of one state.
LEMMA BatchInvSays == BatchInv => BatchUndone
<1> SUFFICES ASSUME BatchInv PROVE BatchUndone
  OBVIOUS
<1>1. TypeOK
  BY DEF BatchInv, TypeOK, BatchTyped, Folders, Apart
<1>2. NothingReplaced
  BY DEF BatchInv, NothingReplaced, BatchTyped, Replaced
<1>3. FailureUndone
  <2> SUFFICES ASSUME pc = "failed", Calm PROVE dir = before /\ temp = Nothing
    BY DEF FailureUndone, Calm
  <2>1. Returned = staged /\ Ahead = {}
    BY DEF BatchInv, BatchTyped, Returned, Ahead
  <2>2. \A x \in Names : dir[x] = before[x] /\ temp[x] = None
    BY <2>1 DEF BatchInv, Exact
  <2> QED
    BY <2>2 DEF BatchInv, BatchTyped, Folders, Nothing
<1>4. CorrectionsFollow
  BY DEF BatchInv, CorrectionsFollow, Corrected, Agree, NoneWaits
<1> QED
  BY <1>1, <1>2, <1>3, <1>4 DEF BatchUndone

\* Whatever the names, the invoices and the new names, whatever rename is refused and whoever
\* adds or deletes files: a batch that failed is undone, no rename replaces an invoice but as
\* NothingReplaced says, the corrections go along (rename_invoice_files,
\* _migrate_renamed_manual_overrides).
THEOREM BatchIsUndone == Spec => []BatchUndone
BY BatchInvHolds, BatchInvSays, PTL
=============================================================================
