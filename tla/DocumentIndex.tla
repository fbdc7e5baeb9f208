---------------------------- MODULE DocumentIndex ----------------------------
(***************************************************************************)
(* The index behind the documents page (services/document_index.py): a     *)
(* worker process per job reads the cost details and the folder of issued  *)
(* invoices and writes a catalog into the folder of its scope; the server  *)
(* starts, reads and cancels jobs.  A worker outlives a server that        *)
(* crashed until it notices, and writes into the same folder.              *)
(*                                                                         *)
(* A scope is a folder of issued invoices with one invoice in it; content  *)
(* is the number of its version, an even one for a file that is gone.      *)
(***************************************************************************)
EXTENDS Naturals, FiniteSets

CONSTANTS Scopes, None,
          MaxJobs,     \* bound: jobs of all servers
          MaxChanges,  \* bound: changes of the details, the invoices and the servers
          Faults       \* subset of {"crash", "spawn", "worker", "scanner"}

Jobs == 1..MaxJobs

VARIABLES csv, disk,             \* versions of the cost details and of the invoice of a scope
          scope, job, signature, \* DocumentIndex: scope, job_id, input_signature,
          last, catalog,         \*    last_status, outbound_catalog
          statusFile, inbound, outbound, rows,   \* the files of a scope's folder
          worker,                \* the process of each job
          call,                  \* the request that holds the lock
          answer,                \* what the last request was told
          began, withdrawn,      \* ghosts: what each job found, the jobs cancelled
          changes

ConstantsSound == MaxJobs \in Nat /\ MaxChanges \in Nat /\ None \notin Scopes

server == <<scope, job, signature, last, catalog>>
files == <<statusFile, inbound, outbound, rows>>
world == <<csv, disk, changes>>
ghosts == <<began, withdrawn>>
vars == <<world, server, files, worker, call, answer, ghosts>>

States == {"idle", "running", "ready", "failed", "interrupted", "cancelled"}
Exists(v) == v % 2 = 1

NoStatus == [job |-> 0, state |-> "idle"]
NoCatalog == [job |-> 0, items |-> 0]
NoRow == [print |-> 0, record |-> 0, seen |-> 0]
Worker(pc, s) == [pc |-> pc, scope |-> s, before |-> 0, print |-> 0, record |-> 0]
NoWorker == Worker("none", None)
NewCall(pc) == [pc |-> pc, state |-> "idle", inb |-> 0]
NoCall == NewCall("none")
NoAnswer == [job |-> 0, state |-> "idle", inb |-> 0, out |-> 0]

Init ==
    /\ csv = 1 /\ disk = [s \in Scopes |-> 1] /\ changes = 0
    /\ scope = None /\ job = 0 /\ signature = 0 /\ last = NoStatus /\ catalog = NoCatalog
    /\ statusFile = [s \in Scopes |-> NoStatus]
    /\ inbound = [s \in Scopes |-> [print |-> 0, items |-> 0]]
    /\ outbound = [s \in Scopes |-> NoCatalog]
    /\ rows = [s \in Scopes |-> NoRow]
    /\ worker = [j \in Jobs |-> NoWorker]
    /\ call = NoCall /\ answer = NoAnswer
    /\ began = [j \in Jobs |-> 0] /\ withdrawn = {}

Alive(j) == j # 0 /\ worker[j].pc \notin {"none", "gone"}
Used == Cardinality({j \in Jobs : worker[j].pc # "none"})
Mine(s) == {j \in Jobs : Alive(j) /\ worker[j].scope = s}

-----------------------------------------------------------------------------
(* The server.                                                             *)

\* A read that the worker's replacement, or a scanner, denies finds nothing.
Readable == {TRUE} \cup
    IF scope # None /\ ("scanner" \in Faults \/ Mine(scope) # {}) THEN {FALSE} ELSE {}

Owned(readable) ==
    IF readable /\ scope # None /\ job # 0 /\ statusFile[scope].job = job
    THEN statusFile[scope] ELSE last

Status(readable) ==
    IF Owned(readable).state = "running" /\ ~Alive(job) THEN "interrupted"
    ELSE Owned(readable).state

Stopped == IF job = 0 THEN worker ELSE [worker EXCEPT ![job].pc = "gone"]

\* ensure: a cancelled job comes back on demand or for another scope only.
Restarts(state, s, restart, expired) ==
    \/ restart \/ s # scope
    \/ (csv # signature \/ expired) /\ state # "cancelled"

StartJob(s, j) ==
    /\ scope' = s /\ job' = j /\ catalog' = NoCatalog
    /\ last' = [job |-> j, state |-> "running"]
    /\ signature' = csv
    /\ began' = [began EXCEPT ![j] = disk[s]]

Ensure(s, restart, revalidate) ==
    /\ call.pc = "none"
    /\ \E readable \in Readable, over60 \in BOOLEAN :
        LET state == Status(readable)
            seen == Owned(readable)
            expired == revalidate /\ over60 /\ state = "ready"
        IN IF Restarts(state, s, restart, expired)
           THEN /\ Used < MaxJobs
                /\ StartJob(s, Used + 1)
                /\ \/ /\ worker' = [Stopped EXCEPT ![Used + 1] = Worker("begin", s)]
                      /\ statusFile' = [statusFile EXCEPT ![s] = [job |-> Used + 1, state |-> "running"]]
                      /\ call' = NewCall("status")
                   \/ /\ "spawn" \in Faults
                      /\ worker' = [Stopped EXCEPT ![Used + 1] = Worker("gone", None)]
                      /\ statusFile' = [statusFile EXCEPT ![s] = [job |-> Used + 1, state |-> "failed"]]
                      /\ UNCHANGED call
           ELSE /\ last' = seen
                /\ call' = NewCall("status")
                /\ UNCHANGED <<scope, job, signature, catalog, statusFile, worker, began>>
    /\ answer' = NoAnswer
    /\ UNCHANGED <<world, inbound, outbound, rows, withdrawn>>

\* The rest of ensure: the worker goes on between its reads.
ReadStatus ==
    /\ call.pc = "status"
    /\ \E readable \in Readable :
        /\ last' = Owned(readable)
        /\ call' = [call EXCEPT !.pc = "inbound", !.state = Status(readable)]
    /\ UNCHANGED <<world, scope, job, signature, catalog, files, worker, answer, ghosts>>

ReadInbound ==
    /\ call.pc = "inbound"
    /\ \E readable \in Readable :
        call' = [call EXCEPT !.pc = "outbound",
                    !.inb = IF readable /\ inbound[scope].print = signature
                            THEN inbound[scope].items ELSE 0]
    /\ UNCHANGED <<world, server, files, worker, answer, ghosts>>

\* The catalog of another job is as good as none.
Catalog(readable) ==
    IF readable /\ outbound[scope].job = job THEN outbound[scope] ELSE NoCatalog

ReadOutbound ==
    /\ call.pc = "outbound"
    /\ \E readable \in Readable :
        LET held == IF call.state = "ready" /\ catalog = NoCatalog
                    THEN Catalog(readable) ELSE catalog
            state == IF call.state = "ready" /\ held = NoCatalog THEN "failed" ELSE call.state
        IN /\ catalog' = held
           /\ answer' = [job |-> job, state |-> state, inb |-> call.inb,
                         out |-> IF state = "ready" THEN held.items ELSE 0]
    /\ call' = NoCall
    /\ UNCHANGED <<world, scope, job, signature, last, files, worker, ghosts>>

Cancel ==
    /\ call.pc = "none" /\ job # 0
    /\ worker' = Stopped
    /\ last' = Owned(TRUE)
    /\ statusFile' = [statusFile EXCEPT ![scope] = [job |-> job, state |-> "cancelled"]]
    /\ withdrawn' = withdrawn \cup {job}
    /\ UNCHANGED <<world, scope, job, signature, catalog, inbound, outbound, rows, call, answer, began>>

\* The end of a server takes its memory; a clean one stops the worker too.
ServerEnds(crash) ==
    /\ crash => "crash" \in Faults
    /\ crash \/ call.pc = "none"
    /\ changes < MaxChanges /\ changes' = changes + 1
    /\ worker' = IF crash THEN worker ELSE Stopped
    /\ scope' = None /\ job' = 0 /\ signature' = 0 /\ last' = NoStatus /\ catalog' = NoCatalog
    /\ call' = NoCall /\ answer' = NoAnswer
    /\ UNCHANGED <<csv, disk, files, ghosts>>

-----------------------------------------------------------------------------
(* The worker of job j.                                                    *)

At(j, pc) == worker[j].pc = pc
Go(j, pc) == worker' = [worker EXCEPT ![j].pc = pc]
Writes(j, state) ==
    statusFile' = [statusFile EXCEPT ![worker[j].scope] = [job |-> j, state |-> state]]

\* The details already read under this signature are not read again.
Begin(j) ==
    /\ At(j, "begin")
    /\ Writes(j, "running")
    /\ worker' = [worker EXCEPT ![j].before = csv,
                    ![j].pc = IF inbound[worker[j].scope].print = csv THEN "discover" ELSE "read"]
    /\ UNCHANGED <<world, server, inbound, outbound, rows, call, answer, ghosts>>

ReadDetails(j) ==
    /\ At(j, "read")
    /\ worker' = [worker EXCEPT ![j].record = csv, ![j].pc = "reread"]
    /\ UNCHANGED <<world, server, files, call, answer, ghosts>>

\* Mutant: a file is not looked at again after it was read.
Unchanged_Never(v, print) == TRUE
Unchanged(v, print) == v = print

Fails(j) ==
    /\ Writes(j, "failed") /\ Go(j, "gone")
    /\ UNCHANGED <<inbound, outbound, rows>>

KeepDetails(j) ==
    /\ At(j, "reread")
    /\ \/ /\ ~Unchanged(csv, worker[j].before)
          /\ Fails(j)
       \/ /\ Unchanged(csv, worker[j].before)
          /\ inbound' = [inbound EXCEPT ![worker[j].scope] =
                            [print |-> worker[j].before, items |-> worker[j].record]]
          /\ Go(j, "discover")
          /\ UNCHANGED <<statusFile, outbound, rows>>
    /\ UNCHANGED <<world, server, call, answer, ghosts>>

Discover(j) ==
    /\ At(j, "discover")
    /\ Writes(j, "running")
    /\ worker' = [worker EXCEPT ![j].record = 0,
                    ![j].pc = IF Exists(disk[worker[j].scope]) THEN "look" ELSE "publish"]
    /\ UNCHANGED <<world, server, inbound, outbound, rows, call, answer, ghosts>>

\* A row is reused while the invoice is the one it was extracted from.
Look(j) ==
    LET s == worker[j].scope
        known == rows[s].print = disk[s]
    IN /\ At(j, "look")
       /\ worker' = [worker EXCEPT ![j].print = disk[s],
                        ![j].record = IF known THEN rows[s].record ELSE 0,
                        ![j].pc = IF known THEN "store" ELSE "extract"]
       /\ UNCHANGED <<world, server, files, call, answer, ghosts>>

\* An invoice that is gone or cannot be read counts as an error and is left out.
Extract(j) ==
    /\ At(j, "extract")
    /\ worker' = IF Exists(disk[worker[j].scope])
                 THEN [worker EXCEPT ![j].record = disk[worker[j].scope], ![j].pc = "check"]
                 ELSE [worker EXCEPT ![j].pc = "publish"]
    /\ UNCHANGED <<world, server, files, call, answer, ghosts>>

CheckExtracted(j) ==
    /\ At(j, "check")
    /\ worker' = IF Unchanged(disk[worker[j].scope], worker[j].print)
                 THEN [worker EXCEPT ![j].pc = "store"]
                 ELSE [worker EXCEPT ![j].record = 0, ![j].pc = "publish"]
    /\ UNCHANGED <<world, server, files, call, answer, ghosts>>

Store(j) ==
    /\ At(j, "store")
    /\ rows' = [rows EXCEPT ![worker[j].scope] =
                    [print |-> worker[j].print, record |-> worker[j].record, seen |-> j]]
    /\ Go(j, "publish")
    /\ UNCHANGED <<world, server, statusFile, inbound, outbound, call, answer, ghosts>>

\* Rows of other jobs go, then the catalog is in place before the state says so.
Publish(j) ==
    LET s == worker[j].scope
    IN /\ At(j, "publish")
       /\ rows' = [rows EXCEPT ![s] = IF rows[s].seen = j THEN rows[s] ELSE NoRow]
       /\ outbound' = [outbound EXCEPT ![s] = [job |-> j, items |-> worker[j].record]]
       /\ Go(j, "ready")
       /\ UNCHANGED <<world, server, statusFile, inbound, call, answer, ghosts>>

Complete(j) ==
    /\ At(j, "ready")
    /\ Writes(j, "ready") /\ Go(j, "gone")
    /\ UNCHANGED <<world, server, inbound, outbound, rows, call, answer, ghosts>>

\* An error ends the job as failed; a kill, or a refused last write, without a word.
WorkerBreaks(j) ==
    /\ "worker" \in Faults
    /\ Alive(j) /\ changes < MaxChanges /\ changes' = changes + 1
    /\ \/ Fails(j)
       \/ Go(j, "gone") /\ UNCHANGED files
    /\ UNCHANGED <<csv, disk, server, call, answer, ghosts>>

\* _watch_parent: a worker whose server is gone ends within a second.
OrphanEnds(j) ==
    /\ Alive(j) /\ j # job
    /\ Go(j, "gone")
    /\ UNCHANGED <<world, server, files, call, answer, ghosts>>

Work(j) ==
    \/ Begin(j) \/ ReadDetails(j) \/ KeepDetails(j) \/ Discover(j) \/ Look(j)
    \/ Extract(j) \/ CheckExtracted(j) \/ Store(j) \/ Publish(j) \/ Complete(j)

-----------------------------------------------------------------------------
(* The user and the synchroniser.                                          *)

DetailsChange ==
    /\ changes < MaxChanges /\ changes' = changes + 1
    /\ csv' = csv + 1
    /\ UNCHANGED <<disk, server, files, worker, call, answer, ghosts>>

InvoiceChanges(s) ==
    /\ changes < MaxChanges /\ changes' = changes + 1
    /\ \E by \in {1, 2} : disk' = [disk EXCEPT ![s] = @ + by]
    /\ UNCHANGED <<csv, server, files, worker, call, answer, ghosts>>

Next ==
    \/ \E s \in Scopes, restart, revalidate \in BOOLEAN : Ensure(s, restart, revalidate)
    \/ ReadStatus \/ ReadInbound \/ ReadOutbound
    \/ Cancel
    \/ \E crash \in BOOLEAN : ServerEnds(crash)
    \/ \E j \in Jobs : Work(j) \/ WorkerBreaks(j) \/ OrphanEnds(j)
    \/ DetailsChange
    \/ \E s \in Scopes : InvoiceChanges(s)

Spec == Init /\ [][Next]_vars
-----------------------------------------------------------------------------
(* Properties.                                                             *)

TypeOK ==
    /\ csv \in 1..(MaxChanges + 1) /\ disk \in [Scopes -> 1..(2 * MaxChanges + 1)]
    /\ scope \in Scopes \cup {None} /\ job \in Jobs \cup {0} /\ signature \in 0..csv
    /\ last.state \in States /\ catalog.job \in {0, job}
    /\ \A s \in Scopes : statusFile[s].state \in States
    /\ withdrawn \subseteq Jobs

\* What a request lists is what it says: the details of the signature the job
\* was started with, and invoices as the current job found them, never a version
\* from before that job, whatever other jobs left in the folder.
AnswerTrue ==
    /\ answer.inb # 0 => answer.inb = signature
    /\ answer.out # 0 =>
        /\ answer.state = "ready" /\ answer.job = job
        /\ Exists(answer.out) /\ answer.out >= began[job]

\* A row of the cache is what was extracted from the version it names.
RowsTrue == \A s \in Scopes : rows[s].record = rows[s].print

\* The lists of documents are of the present job and of the files it read.
ListsTrue == TypeOK /\ AnswerTrue /\ RowsTrue

\* A job that the user cancelled is not started over by a refresh of the page
\* while no other server's worker writes into its folder: only a restart or
\* another scope starts a new job.
CancelKept ==
    [][\A s \in Scopes :
        job \in withdrawn /\ scope = s /\ Mine(s) = {} /\ statusFile[s].job = job =>
            ~\E revalidate \in BOOLEAN : Ensure(s, FALSE, revalidate) /\ job' # job]_vars
=============================================================================
