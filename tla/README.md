# InvoiceHub: TLA+ models, model checking and proofs

InvoiceHub watches a folder of invoices (PDF, OFD, XML), extracts them into a
summary (CSV and Excel workbook) and a cost analysis, lets a person correct the
extracted fields in Excel or in a detail page, and hands approved accounting
vouchers to an external ledger. It is a local program with surprisingly many
actors on the same files: a monitor daemon, the web server and its threads, a
child process for the startup sync, a desktop host, Excel and the user.

This directory holds TLA+ specifications of the parts where those actors meet,
TLC configurations that check them on small instances, and TLAPS proofs of what
matters most for every instance. Paths below are relative to the repository,
under `src/invoice_hub/` where no other root is named.

    tlc -workers 2 -config bookkeeping.cfg MCBookkeeping    # any run of section 3
    tlapm Bookkeeping_proofs.tla                            # the proofs of section 8

## 1. Inventory

| Part | Source | State it keeps | What is hard | What makes it correct | Module |
|---|---|---|---|---|---|
| Profile synchroniser | `monitoring/sync.py`, `monitoring/state.py`, `projections/summary.py`, `storage/files.py`, `services/app_state.py` | summary csv and xlsx, `manual_overrides.json`, `processed_files.json`, status | nine files written one after the other while folder and workbook change, writes fail, processes die | what is recorded as processed is in the summary; corrections are neither lost nor invented; no row of a deleted invoice | `ProfileSync` |
| Monitor lifecycle, command line | `monitoring/daemon.py`, `monitoring/state.py`, `monitoring/control.py`, `services/monitor_bridge.py` | lock file, stop flag, status file, processes | processes that share only files; dead and reused pids, deadlines, signals | one monitor; the bridge's answers are true | `MonitorLifecycle` |
| Startup background sync | `services/app_state.py` 223-599 | generation, current and retiring children, status | superseded generations, children that hang | an obsolete result is never published; no child is forgotten | `BackgroundSync` |
| Batch rename | `services/app_state.py` 1674-1923 | invoice names, overrides | a refusal in the middle, people who add and delete files | a failed batch is undone; corrections follow | `RenameBatch` |
| Invoice list, totals, selection | `services/app_state.py` 1554-2100, 3788 | the cache of summary rows, shown positions | unlocked cache, rows named by position | what is summed or printed was ticked, and once | `InvoiceSelection` |
| Document index | `services/document_index.py` | job, status and list files, worker process | workers of cancelled jobs and crashed servers | lists are of the present job; cancelled stays cancelled | `DocumentIndex` |
| Warehouse documents | `projections/documents.py`, `services/app_state.py` | documents in a folder | files replaced between list and export | rows once, amount in words, nothing replaced unasked | `DocumentExport` |
| Preview and printing | `services/file_preview.py`, `invoice_printing.py`, `ofd_rendering.py` | jobs and pages in memory | eviction, expiry and files changing under a request | a page is of the file that was selected; the least used goes | `FilePreview` |
| Cost analysis | `projections/cost_analysis.py`, `projections/costs.py` | rows, checks, selections | layouts, several files of one invoice | trusted rows are those of the invoice; a selection has each row once | `CostRows`, `CostDetail` |
| Reference status of cost rows | `projections/costs.py`, `projections/cost_analysis.py` | JSON, sheet and rows | three copies, any write may be the last | a row shows what was asked for it last | `CostReferences` |
| Bookkeeping store and batches | `bookkeeping/status.py`, `batches.py`, `repository.py`, `services/app_state.py` | vouchers, batches, receipts, files | unknown outcomes, retries, revisions, files beside the store | at most one posting per voucher; nothing enters that was not approved as it is | `Bookkeeping`, `VoucherLedger` |
| Voucher lines | `bookkeeping/vouchers.py`, `decisions.py`, `validator.py` | lines, allocations, tax treatment | fractions of a cent, decisions after decisions | a decision balances and lasts | `VoucherLines` |
| Account mapping | `bookkeeping/mapping.py`, `mapping_migration.py` | rules, revision, legacy file | stale previews, repeated commands, interrupted migration | a person's rule goes only for another of a person; nothing migrated posts by itself | `MappingRules` |
| Server shutdown, settings | `services/app_state.py` 685-709, 2905-3037, `api/app.py` | shutdown flags, state and pid file | switch against start, a successor's files | monitors go with the folder and the server; an accepted end comes | `ServerShutdown` |
| Update service | `services/update_service.py` | cache with ETag, gate, approval | two checks at once, hanging fetches | what is said is of the feed that was served | `Updates` |
| Desktop host | `src-tauri/src/monitor_recovery.rs`, `update_coordinator.rs`, `backend.rs`, `main.rs` | marker file, lease, backend | failure before or after the effect of any call | a monitor stopped for an update runs again or is marked | `MonitorRecovery` |

Not modelled: the polling observer (its events are hints the periodic sync does
not need), parsing and classification of extracted text (data), document
rendering, skins and icons, the HTTP routes beyond the event streams, the event
log (a failing append is a fault of its caller's model), path computation,
platform dialogs, release tooling, the web and macOS clients. `PROJECT.json`
lists each with its reason, and, for parts modelled partly, what is left out.

How they interact: the daemon, the startup child and the server's request
threads all run the synchroniser, under one file lock per profile
(`sync_write_lock`). The server starts and stops the daemon with
`MonitorBridge`, through files and signals only. A switch of the folder stops
the old monitor and starts a background sync of the new profile; a rename ends
in a manual rebuild; shutdown and the updater stop and restore the monitor. The
pages read what a sync has written, by position and by path; bookkeeping drafts
are made of the cost rows and the answers of the mapping. Excel writes the same
workbook without any lock.

Locks are taken in one order wherever two are held: the application's lock, then
that of the bookkeeping store or of the profile, then that of the status file.
No model is about deadlock between them for that reason.

## 2. Modules and composition

Each part has a module of its own with its state as VARIABLES, one action per
step of an operation that others can interleave with, and its properties at the
end. Five modules put parts side by side that the pages or the process have in
common and that share no state, and name what they promise together:

- `Folder` (`ProfileSync` extended, `FilePreview` as `Pages`),
- `Rules` (`MappingRules` extended, `VoucherLines` as `Voucher`),
- `Pages` (`InvoiceSelection` as `List`, `DocumentIndex` as `Index`,
  `DocumentExport` as `Export`) and `Costs` (`CostReferences` as `References`),
- `Application` (`ServerShutdown` as `End`, `Updates` as `Update`,
  `MonitorRecovery` as `Recovery`).

Their constants are left open: the `MC` modules give them small values for TLC,
the `_proofs` modules prove about all values. In a run of `MCRules`, `MCPages`,
`MCCosts`, `MCHost` or `MCFolder` a behaviour is of one part, chosen by the
initial state, while the others stay as they started: since no step of one part
reads or writes another's variables, interleaving them would only multiply
states.

Real interaction is inside a module: all writers of the profile's files in
`ProfileSync`; daemons, callers and their files in `MonitorLifecycle`; worker,
child, retiring threads and switches in `BackgroundSync`; the reviewer, the
operations, the accounting program and its late reports in `Bookkeeping`; host,
backend, monitor and person in `MonitorRecovery`.

**Abstract specification.** `VoucherLedger` says what bookkeeping promises
without files, batches and messages: a voucher is proposed, approved, submitted
with the content that was approved, posted at most once, and a verdict is true
and final. Its ledger is the sequence of postings of each voucher, so that a second
posting, of the same content or of another, is a step it does not have. `Bookkeeping` implements it under the refinement mapping `Stage`,
`Content` (a status of the store becomes one of five stages, a draft without
approval has no content); `KeepsPromise == Ledger!Spec` is a PROPERTY of run
`bookkeeping` and the theorem `ImplementsPromise`.

**Circumstances.** A constant `Allowed` (or `Faults`) names what the environment
of an instance may do. Where a property does not hold under one of them, the
theorem says so as an assumption and the run leaves the name out. Each is an
interleaving or failure the code admits; adding the name to the cfg of the run
shows the counterexample. The names of `ProfileSync` and `MonitorLifecycle` are
in sections 4 and 5; the others:

| Module | Name | Circumstance | What it breaks |
|---|---|---|---|
| `Bookkeeping` | `fsync` | the store is replaced and the flush of its directory fails, so that the files of a registered batch are removed | `BatchesTrue` |
| | `earlyread` | somebody reads the ledger back while the import session is open and reports absence | `Settleable`, `KeepsPromise` |
| `DocumentIndex` | `scanner` | a virus scanner denies the server its status file | the half of `ChoicesKept` about cancelled jobs (`cancel` leaves `last_status`, `document_index.py` 241-248) |
| | `crash`, `spawn`, `worker` | server dies, worker cannot start or fails | none |
| `BackgroundSync` | `late`, `stubborn`, `spawn`, `crash` | deadlines pass, a child outlives its kill, cannot start, crashes | none |
| `ServerShutdown` | `stop`, `write`, `event` | a monitor stays, the state or the log cannot be written | none |

## 3. Runs

| Run | Instance | Distinct states | What it shows |
|---|---|---|---|
| `life_three` | 3 daemons, 2 callers, POSIX; `kill`, `syncfails`, `slowstart` | 3,075,443 | `OneMonitor`, `ReadyTruth`, `StartedIsTrue`: three daemons and two controllers on a POSIX system, with daemons killed, syncs that fail and starts that give up early: one monitor, what the files call ready has scanned twice, and a start that answers was told by a monitor that worked during the call, although lock, pid and status are read one after the other. |
| `folder` | 2 invoices, 1 field, `MaxClock = 4`, 3 edits, no faults; previews: 2 files, 2 requests of which one at a time makes a job, 2 of 3 jobs, 2 ticks, 1 change | 1,713,963 | `PreviewTrue`, `RowsFollow`, `OverridesFollow`, `EditsNotLost`, `LeastUsedGo`: two invoices and one field, no failed write and no crash: syncs, manual rebuilds, PATCHes and Excel edits between jobs, files added, changed and deleted around every step of a rebuild; no row is of an invoice that is gone and no correction is lost. In other behaviours a PDF and an OFD, two requests at a time and three jobs of either service, one of which must go for room or for its age, and an OFD that changes at any step of a request: a page that is shown is of the file that was asked, and a job goes only when it is the least used. |
| `sync_live` | 2 invoices, `MaxClock = 2`, 1 edit, 1 fault; `ioerror`, `crash`, `pendingRebuild`, `pendingPatch`, `brief`; `FairSpec` | 1,586,819 | `TypeOK`, `SourceTracked`, `CatchesUp`: a crash or a failed write at any step, rebuilds and PATCHes over unabsorbed edits: a signature recorded as processed stands for the row in the summary, and after the last change the periodic sync brings every invoice and edit in. |
| `life_live` | 2 daemons, 2 callers, POSIX; `slowstop`, 1 `reuse`, starts while nothing starts; `LiveSpec` | 509,096 | `MonitorIsFound`, `StopWorks`: stops whose deadline passes while the daemon is still in a sync, and pids that are used again: the lock of a monitor that works is never cleaned up under it, and a monitor a stop has found running ends, whatever other starts and stops do to the flag meanwhile. |
| `bookkeeping` | 2 vouchers, 1 change of the world, nothing in `Allowed` | 548,585 | `BatchesTrue`, `Settleable`, `KeepsPromise`: two vouchers from the draft to the settled import, with one change of the world under it, also between the check of an import and its begin, and failures of every step: the bookkeeping implements VoucherLedger, where a second posting of a voucher is no step, and every import can be settled. |
| `rules` | 1 cost row of 12 sets of amounts, 2 allocations, 3 accounts, of which one is closed, one no liability, one asks for an auxiliary value; 3 scopes, 3 writes, 2 commands | 62,752 | `DecisionsRight`, `MigrationSafe`, `ChoicesLast`, `ManualKept`: a voucher of one cost row of exact, inexact, missing or negative amounts under any sequence of decisions, with accounts that are closed, no liability or ask for an auxiliary value; and the mapping rules under stale previews, migrations and repeated commands: what a person decided passes but for what the decision cannot know, and lasts. |
| `host` | 2 folders, 2 generations, a feed below a later version or any over the first, 2 calls, 3 requests to end, 2 updates, 2 buttons, 3 faults; every name of `Faults` and `EndFaults` | 340,590 | `ReadyAndHeld`, `MonitorsFollow`, `ChecksTold`, `ChildrenEnd`, `AcceptedEnds`, `PidFileTold`, `OwedReturns`, `FeedInstalled`: two generations of the first synchronisation with children that hang or crash; updates of two callers, hosted or not, and their installation with a monitor to give back; two folders, monitor buttons, switches and shutdown requests that fail at any call: ready is true, no child or monitor is left to itself, the end is reached, the pid file of a successor stays but in the window of the removal, the host installs what was accepted and what it stopped for it runs again. |
| `pages` | 3 names, 4 files of 2 invoices, 2 threads, 3 requests; 2 refused renames; 2 jobs, in 2 scopes with 1 change or in 1 with 2; 2 exports | 1,626,043 | `BatchUndone`, `CountedOnce`, `ListsTrue`, `DocumentsTrue`, `WordsTrue`, `ChoicesKept`: a batch rename with refused renames and files of others; four files of two invoices ticked from two threads; two folders of documents with worker crashes; exports over existing documents: what is renamed, summed, printed, listed and exported is what was asked. |
| `costs` | 3 files of 2 invoices or 162 layouts of one; 2 rows, 2 requests, 3 steps | 122,509 | `AskedShown`, `TrustedTrue`, `SelectionTrue`, `PartKept`: three files of two invoices in any of a few states, or one PDF with any of 162 layouts, analysed, checked and selected; and two rows that come and go under two requests and rebuilds, each of whose writes may be the last one. |
| `find_edit` | 4 files, budget 4 | violated | `EditAsked`: a correction sent for a position of the list lands on the invoice that has moved there. |
| `find_rename` | 4 names, 1 refused rename | violated | `FailureUndoneAlways`: a failed batch whose new names are old names of others rolls one file back on top of another. |
| `find_host` | 1 update, 1 fault; `HostSpec` | violated | `HostFollowsBackend`: the backend dies while an update is downloaded: the exit the host asks for is refused, nobody asks again, and the host stays. |

**Bounds.** Every bound is a CONSTANT that a guard names. Two of everything that
can be confused with another (invoices, vouchers, folders, callers, threads) and
a third where something is handed on twice (daemons inheriting a lock, names of
a rename chain). One more change than there are steps that must notice one:
three edits, four signatures in `folder`; one change of the world at any step
between draft and import in `bookkeeping`, since a second one is noticed or not
by the same comparison. `MaxFails = 2` in `pages` because only a second refusal
brings a roll back to the case `NothingReplaced` excepts. Symmetry is used for
sets of model values that no operator orders, and in no run that checks a
liveness property.

**Fairness.** What has begun goes on: jobs (`WF(JobStep)`), daemons and calls,
workers and threads, the end of an accepted shutdown, streams that are told to
end, the steps of the host. Deadlines that a step waits for pass
(`SF(Overdue)`: a deadline that is disabled while a result is read stays due).
The daemon's timer starts a sync again and again (`WF(StartSync)`, the loop of
`run_monitor`, at least every `sync_interval_seconds`). `MonitorRecovery` alone
assumes people: an application whose updater has failed is quit, and one that is
gone is launched again; the code relies on it, since nothing else reads the
marker. `find_host` uses `HostSpec`, without people: the host's own steps only.
Nothing is assumed of edits, rebuilds, buttons or failures.

## 4. The profile synchroniser (`ProfileSync`)

**State.** The invoice folder is `disk`: for each path the signature
(`mtime_ns`, size) of the file, a tick of `clock`, 0 when it is absent. `csv`
and `xlsx` are the two summary files: for each path no row, or a row with the
signature it was extracted from and a value for every editable field.
`overrides`, `processed`, `detail`, `book` and `status` are the other files.
`made` says which outputs exist, `torn` which an interrupted in-place write left
unreadable. The remaining variables are the memory of the one job that holds the
profile lock (`op`, `pc`, buffers) and history (`intent`, `typed`) used only to
state properties.

**Actions.** A job is one of `run_sync` (`StartSync`), `bridge_rebuild`
(`StartRebuild`) and `update_manual_fields` (`StartPatch`). Every read or write
of a file is a step: absorbing Excel edits (`sync_excel_manual_edits`), deciding
whether anything changed (`Detect`), listing, extracting file by file, writing
csv and xlsx, putting the overrides back, the cost analysis, the snapshot of the
signatures (`rebuild_processed_from_summary`) and its save. Between any two of
them the user saves or deletes invoices and saves the workbook from Excel, a
write raises `OSError` (`FailWrite`), or the process is killed (`Crash`).
JSON and csv of the summary are replaced atomically; the workbook and both cost
files are written in place, so an interrupted write of theirs may leave them
torn.

Extraction is data: what is extracted from a file is the signature it had. What
a rebuild writes is therefore comparable with what is on disk, which is all the
properties need. A value a person types is from `Manual`.

Circumstances (`Allowed`):

| Name | Circumstance | Property it breaks |
|---|---|---|
| `race` | a file is saved between its extraction and the snapshot: `rebuild_processed_from_summary` takes signatures when the rebuild ends, records the new one with the old row, and no later sync reads the file | `SourceTracked`, `RowsFollow` |
| `unreadable` | the extraction of a file that is there reads nothing | `SourceTracked` |
| `brief` | a file only the cost analysis has seen goes | `RowsFollow` |
| `ioerror` | a write raises | `RowsFollow`, `OverridesFollow`, `EditsNotLost` |
| `crash` | the process is killed; in the in-place write of the cost csv, the next sync takes the truncated file for one of an old schema and settles with no rows | the same |
| `excelrace` | Excel saves the workbook while a job runs | `EditsNotLost` |
| `pendingRebuild`, `pendingPatch` | that job starts over an edit that waits in the workbook: neither absorbs edits, and both write the workbook | `EditsNotLost` |
| `partial` | a PATCH submits one field only | `EditsNotLost` |

Run `folder` has none of them: nothing is lost, invented or left behind. Run
`sync_live` has the five that do not concern what is recorded as processed:
`SourceTracked` survives every interruption, and after the last change the
periodic sync brings every invoice and edit in (`CatchesUp`).

Two invoices are needed for a rebuild that has extracted one and not the other;
several signatures for a file that changes twice, once before and once during a
rebuild; two edits for one that overwrites another. One field shows every
conflict between extracted, typed and saved values (a row's fields are handled
independently, except by `partial`).

**Fairness.** `FairSpec` assumes that a job which runs goes on, and that the
daemon starts a sync again and again. The first is the operating system's; the
second is the loop of `run_monitor` (`next_periodic`, at least every
`sync_interval_seconds`) together with a daemon being up. Nothing is assumed of
the user, of rebuilds or of failures. `CatchesUp` is a property of behaviours in
which changes and faults end, which the bounds ensure.

## 5. The monitor lifecycle (`MonitorLifecycle`)

**State.** A daemon is a pid and runs once; a controller is any caller of
`MonitorBridge` (a server thread, `monitoring.control`). `at[a]` is an actor's
place. They share `lock` (who created the lock file, and whether the pid is
written in it), `flag` (the stop flag) and `status` (pid and ready of the status
file). `alive`, `reused` and `term` are the system's: processes that run, dead
pids that name a process again, SIGTERMs sent. `seen`, `op`, `target`, `reply`
and `last` are the local variables of the calls; `wasReady` is history: the daemons
that worked, past both scans, at some moment of a start.

**Actions.** `acquire_lock` is four steps (`CleanRead`, `CleanMove`,
`CheckLock`, `CreateLock`) and the filling of the file (`FillLock`);
`run_monitor` goes on with `ClearFlag`, `Announce`, two `Scan`s, `MarkReady`,
`LeaveLoop` and the `finally` block (`MarkStopped`, `ReleaseLock`, `LastClear`).
`HandleTerm` is the signal handler. `MonitorBridge.status` is three steps of the
call that asks for it: the lock file is read (`ReadLock`), its pid looked up
(`MayRun`, `MayNotRun`; status looks once more whether there is a lock) and the
status file read (`SaysReady`); anything may happen in between. `StartCall` to
`WaitAgain` are `MonitorBridge.start` with `_wait_for_ready`, `StopCall` to
`StopClear` are `stop`, `Answer` returns. The deadline of a start may pass at
any moment when `slowstart` is allowed, that of a stop when `slowstop` is. On
POSIX a kill is a SIGTERM, which ends a daemon without a handler and only sets
the flag in one with it; on Windows `taskkill /F` ends the process, and a file
that is open cannot be moved.

| Name in `Allowed` | Circumstance | Property it breaks |
|---|---|---|
| `emptylock` | a cleanup reads the lock between `os.open(O_EXCL)` and the writing of the pid, and takes pid 0 for dead | `OneMonitor`, `MonitorIsFound` |
| `stalelock` | a lock is created between a cleanup's read of a stale one and its move | `OneMonitor`, `MonitorIsFound` |
| `reuse` | the pid of a dead daemon names another process | `ReadyTruth`, `StartedIsTrue` |
| `slowstart` | the deadline of a start passes while the daemon still starts | none |
| `slowstop` | the deadline of a stop passes while the daemon is still in a sync; on POSIX `stop` answers half a second after a SIGTERM which the daemon honours after its sync | none: what then holds is that the monitor ends (`StopWorks`) and keeps its lock until it does (`MonitorIsFound`) |
| `kill`, `syncfails` | a daemon dies, a sync raises | none |

Two things one might expect are not true of the code and not claimed. A stop that
answers "not running" may have a daemon that runs on for the rest of its sync
(`slowstop`). And a start may answer "started" with a monitor that a stop has
answered for in the meantime: it reads the lock and the pid, the monitor is
killed, the stop answers, and the start reads a ready status of before.
`StartedIsTrue` says what is left: the monitor a start names did work, past both
scans, at some moment of that very call.

Run `life_three` has three daemons so that a lock is inherited twice; run
`life_live` two, with stops that give up early and reused pids, where a monitor
found running by a stop ends although starts and other stops clear the flag it
may not have seen, and no cleanup of theirs takes its lock. That run checks `LiveSpec` of `MCMonitorLifecycle`: `FairSpec` with
three bounds on the steps nobody is obliged to take. A start is called while no
other is under way and every daemon alive has come to its scans (two starts at
once, or over a daemon that takes its lock, are in `life_three`), next to any
stops; one pid may be given to another process; and once it is there is one call
at a time. Every step of a daemon and of a call that has begun, and its
fairness, is that of `FairSpec`.

**Fairness.** Daemons and calls that have begun go on (processes and threads
run; every wait in the code has a timeout). Nobody is assumed to call start or
stop, no signal is assumed to be sent except by a call.

## 6. The other modules

**`Bookkeeping`.** The store is `item` (status, hash and batch of each voucher,
the hash standing for the facts a draft was made of) and `batch`; `disk` holds
the files of batches, `ledger` and `session` are the accounting program,
`late` its reports that have not come yet, and `file`, `rows`, `rule`, `prof`,
`tmpl` the world under it, each a version. Every operation runs under the
company's write lock and is one action, but for those that write two things
(`doing`): a generation that merges, an export that publishes its directory and
then registers it. A crash or a failed registration comes between. The begin of
an import is two as well (`CheckImport`, `BeginImport`): the source files are
hashed, which nothing protects, and the store is written afterwards, while files
and rows change. `rows` may be behind `file` at any step. `ledger` is the sequence
of postings of each voucher. Reports
arrive late, twice and in any order. The reviewer's `page` may be older than the
store.

**`VoucherLines`.** One action per decision on a voucher whose cost rows are
given: tax treatment, allocation, template, choice of accounts. Rows count half
cents, the draft rounds, everything after it is in cents. The validator's line
blockers include those a decision does not look at: a credit account that is no
liability, an auxiliary value that is missing (`LetThrough`); `DecisionsRight`
says that nothing else is left. **`MappingRules`.**
Preview and save of a rule (`page`, under revision, profile and impact), learnt
suggestions, the migration from version 1 in its steps (`plan`, `pending`,
backup, receipts) with commands that are repeated.

**`RenameBatch`.** Stage, commit and the two roll backs, one rename a step; a
rename may be refused, people add and delete files, and on POSIX a rename
replaces. The corrections move at the end, against a sync that saves one.
**`InvoiceSelection`.** Each request is the steps of `list_invoices` around the
two unlocked cache fields; rows move and the facts of files vary.
**`DocumentIndex`.** The request that holds the lock is one step between its
reads of files; the worker process of each job goes through its phases by
itself, and goes on when its server has crashed. **`DocumentExport`.** The
export looks, chooses a name and writes in steps while users tick, replace and
lock files; rows of a document and its amount in words are operators checked on
all inputs of the initial states. **`FilePreview`.** Two requests at a time on
three jobs of either service, steps where the code takes and leaves its lock.
**`CostRows`, `CostDetail`.** How rows come out of a page is an operator on
words with a place; analysis, check and selection are actions.
**`CostReferences`.** A request, a rebuild or a refresh writes JSON, sheet and
rows in turn; `written` says which write was the last.

**`BackgroundSync`.** Worker, child and retiring threads of each generation, by
place; the pipe is `outcome`, the exit `code`. **`ServerShutdown`.** Requests
run one at a time on the event loop, the monitor buttons in threads that read
the folder first; the pid file is read and removed in two steps, between which a
launcher may write a successor's (`late`). **`Updates`.** A check of each caller by place, with the gate
of the fetch thread, the ETag cache and the host's candidate.
**`MonitorRecovery`.** Each call to the backend or the marker store may fail
before or after its effect, and any process may die; two updates, two buttons,
three faults.

## 7. Where the code and its documents disagree

`PROJECT.json` quotes the sentences; in each run TLC finds the counterexample.

- `find_edit`: `update_manual_fields` takes the key of the page for a position
  in the rows of the moment and compares no path: after the summary was written
  again, a correction lands on another invoice.
- `find_rename`: a batch whose new names are old names of others is rolled back
  name by name in reverse order; on POSIX one file replaces another without an
  error, and the batch reports itself undone.
- `find_host`: the backend dies while an update downloads; the exit the watcher
  asks for once is refused and the host stays.

Weaknesses met while modelling, which the properties name or except:

- `cost_analysis.py` 610-612: a number above 1 is taken for a percentage
  wherever it is read, so that a rate of more than 100 % is divided by 100 once
  more (`Normal` in `CostReferences`; `RequestsKept` compares with it).
- `cost_analysis.py` 1240 and 1914: a cost row names its source by the base name
  of the file; files of one name in two folders lend their rows to each other's
  check and selection (`NamesDiffer` in `CostDetail`).
- `validator.py` 404: a draft binds the hash of the present file to rows that
  were read of an older one (`file` and `rows` in `Bookkeeping`).
- `app_state.py` 5386-5396: the source files of an import are hashed before the
  store is written, so that a file replaced in between goes in with the content
  of before (`CheckImport` and `BeginImport`); what holds is that what is posted
  was approved.
- `app_state.py` 526-540: a child that outlives its kill leaves the status
  `running` until the next generation; it is not forgotten (`ReadyAndHeld`).
- `document_index.py` 241-248: `cancel` writes the status file and leaves
  `last_status`; while that file cannot be read, the page is told the status of
  before, and a refresh may start the job over (`scanner`).
- `monitor_recovery.rs` 327-333: a monitor found in its last sync is taken for
  restored (the ghost `missed` of `MonitorRecovery`).

## 8. Proofs

Eight modules hold theorems (`Sums`, the lemmas on sums over finite sets, and
the seven below), for every set of files, vouchers, callers, ... and
every bound. A safety theorem is proved from an inductive invariant that says
more than the property; TLC has checked each such invariant on a run first.

| Module | Theorem | Establishes | Under |
|---|---|---|---|
| `Folder` | `TypeCorrect` (`TypeOK`) | The files and the memory of every job keep their types, whatever fails. | nothing more |
| `Folder` | `ProcessedIsTracked` (`SourceTracked`) | For any invoices, fields, crashes and failed writes: when no file changes between extraction and snapshot and every extraction reads its file, a recorded signature stands for a row extracted from that very file. | no `race`, `unreadable` |
| `Folder` | `RowsFollowFiles` (`RowsFollow`) | For any invoices and edits: when no write fails, no process is killed, no file changes between extraction and snapshot and none is deleted that only the cost analysis has read, a sync that would find nothing to do finds every invoice in the cost outputs as it is and no row of one that is gone. | `Orderly`: no `ioerror`, `crash`, `race`, `brief` |
| `Folder` | `OverridesAreShown` (`OverridesFollow`) | When no write fails and no process is killed, a settled summary shows every override, and nothing but what a person typed ever becomes one, whatever Excel, PATCHes and rebuilds do meanwhile. | no `ioerror`, `crash` |
| `Folder` | `EditsAreKept` (`EditsNotLost`) | When moreover Excel saves between jobs only, jobs other than the sync start with no edit waiting and the page submits every field, the last value a person gave is an override, or held by the job that saves it, or waiting in the workbook. | `Careful`: no `ioerror`, `crash`, `excelrace`, `pendingRebuild`, `pendingPatch`, `partial` |
| `Folder` | `PreviewsAreTrue` (`PreviewTrue`) | For any files, sizes, limits, requests and changes of files: the number of jobs, the pages of one job and those of all keep their limits whatever requests come together, and a page that is shown or kept is of the version that was selected. | `Pages!ConstantsSound` |
| `Folder` | `LeastUsedGoFirst` (`LeastUsedGo`) | For the same: a job that was used within its lifetime goes only for room, and then none that stays was used before it but the one that gets the room. | `Pages!ConstantsSound` |
| `MonitorLifecycle` | `TypeCorrect` | The lock, the status and the place of every process and caller keep their types. | nothing more |
| `MonitorLifecycle` | `MonitorIsAlone` (`OneMonitor`) | For any number of daemons and callers: apart from the two windows of the lock file, at most one daemon is past the lock. | no `emptylock`, `stalelock` |
| `MonitorLifecycle` | `ReadyIsTrue` (`ReadyTruth`) | When moreover no pid is reused, what the files call ready has made its second scan. | the same, no `reuse` |
| `MonitorLifecycle` | `LockIsKept` (`MonitorIsFound`) | For any number of daemons and callers, kills, late deadlines and reused pids: apart from the two windows of the lock file, the lock of a monitor that works is there and names it, whatever the others release and clean up. | no `emptylock`, `stalelock` |
| `MonitorLifecycle` | `StartSaysTrue` (`StartedIsTrue`) | When moreover no pid is reused, a start that answers names a monitor that worked, past both scans, at some moment of the call, although it reads lock, pid and status one after the other and monitors end and are killed in between. | no `emptylock`, `stalelock`, `reuse` |
| `Bookkeeping` | `ImplementsPromise` (`KeepsPromise`) | For any vouchers, any store they come with and any changes of the world, the bookkeeping implements VoucherLedger, whose ledger is the sequence of postings of each voucher: what the accounting program holds was approved and submitted with this content, no voucher is posted a second time, neither with the same content nor with another, and a confirmed verdict is true and final - as long as nobody reads the ledger back while the import session is still open. | no `earlyread` |
| `Bookkeeping` | `AlwaysSettleable` (`Settleable`) | Once the session of an import is over, the report that says of each voucher what the ledger holds is accepted, whatever was reported before. | no `earlyread` |
| `Bookkeeping` | `BatchesAreTrue` (`BatchesTrue`) | A batch agrees with its vouchers, which belong to it alone, and has its file on disk, through failed registrations, crashes and reports in any order, unless the flush after a replacement fails. | no `fsync` |
| `Bookkeeping` | `TypeCorrect` | The store, the world and the ledger keep their types under every circumstance of Allowed. | nothing more |
| `Bookkeeping` | `BatchesAgree` | Under every circumstance of Allowed, the state of a batch is that of its vouchers. | nothing more |
| `Bookkeeping` | `VerdictsAreTrue` | Only what was submitted is posted, and what is recorded as imported is in the ledger with the content that was approved. | no `earlyread` |
| `Rules` | `MigrationIsSafe` (`MigrationSafe`) | For any categories, accounts and profiles, any rules the store comes with and any order of edits, learning and migrations: what the migration leaves of version 1 never posts by itself, whether the old process learnt from it or a process was killed in between. | `ConstantsSound` |
| `Rules` | `ManualRulesStay` (`ManualKept`) | For the same: a rule a person saved goes only when a person saves another in its place, one rule at a time, whatever is learnt or migrated around it. | `ConstantsSound` |
| `Rules` | `ChoicesAreKept` (`ChoicesLast`) | For any sources, allocations and accounts: the account a person chose for a line, or a source and role, outlasts every decision that does not name it, tax treatments without that line included. | nothing more |
| `Rules` | `DecisionsAreRight` (`DecisionsRight`) | For any sources with any amounts of cents, any allocations and any accounts, those that are no liability or ask for auxiliary values included: a division of the invoice is accepted if and only if every cost row balances in cents, is of some amount and has nothing negative; and what a person's decision materialises, once its tax is settled, is blocked by the validator only for a line without an amount, a credit account that is no liability or a missing auxiliary value, which the decision does not check. | `Voucher!ConstantsSound` |
| `Application` | `ReadyIsTrueAndHeld` (`ReadyAndHeld`) | For any folders, any number of generations and any faults: the application says ready only of its present folder and only after that folder's child has synchronised it, and every living child is in the hands of a worker, a thread or the next generation. | nothing more |
| `Application` | `MonitorsGoWithTheServer` (`MonitorsFollow`) | For any folders, pages and pressed buttons, and whatever stop, write or event fails: a monitor of a folder that is not served, or of a server that ended with its monitor, was left by a stop that failed or a start that came late; the state file says stopped only of a server that is. | nothing more |
| `Application` | `PidFilesAreTold` (`PidFileTold`) | For any folders, pages, failed requests and successors: a server that said it stopped has removed its own pid file, and takes a successor's away only when that was written between the look and the removal, or before a second request. | `Absent` is no pid |
| `Application` | `OwedIsMarked` | For any number of updates, buttons, failed calls and kills of the desktop host or its backend: a monitor an update took is marked on disk until it runs again or a person decides otherwise, but for one found in its last sync (the safety half of OwedReturns). | nothing more |
| `Application` | `ChecksAreTold` (`ChecksTold`) | For any versions, callers, answers, ETags and restarts: what a check takes for the feed is the feed that was served, unless one once came without ETag, and the page says checking only while a check runs. | `ConstantsSound` |
| `Application` | `FeedIsInstalled` (`FeedInstalled`) | For the same: the host installs only the version of the feed that the last check accepted, and a check that fails leaves the last good feed in the cache. | `ConstantsSound` |
| `Pages` | `BatchIsUndone` (`BatchUndone`) | For any names, invoices and new names, any refused renames and any files added or deleted meanwhile: a batch that failed without an error of its roll back has put every file back, a rename replaces an invoice only where NothingReplaced says, and the corrections go with their invoices. | nothing more |
| `Pages` | `ListsAreTrue` (`ListsTrue`) | For any scopes, jobs, changes of files and faults: what a request lists was read by the present job from the details of its signature and from invoices no older than the job, and a cached row is of the version it names, whatever workers of other jobs and crashed servers leave behind. | `ConstantsSound` |
| `Pages` | `CancelIsKept` | While no worker of another server writes into its folder and nothing else denies it its status file, no refresh starts a cancelled job over (the half of ChoicesKept about the index). | `ConstantsSound`, no `scanner` |
| `Pages` | `DocumentsAreKept` | For any numbers and copies and whatever users do to the folder before the export looks: an export that skips or copies replaces no document that was there when it looked (the half of ChoicesKept about exports). | `Copies` is a number |
| `Pages` | `PagesKeepChoices` (`ChoicesKept`) | For any folders, jobs, invoices and changes of users, while no worker of another server writes into the folder and nothing else denies the server its status file: no refresh of the page starts a cancelled job over, and no export that skips or copies replaces a document that was there when it looked. | those of the two before |
| `Pages` | `TicksCountOnce` (`CountedOnce`) | For any files, families, amounts and requests of any number of threads: where numbers are true, a total has each ticked invoice once, whichever of its files were ticked, and leaves one out only where its copies disagree and it says so; a print has exactly one PDF for each and no other. | `List!ConstantsSound` |
| `Pages` | `DocumentsAreTrue` (`DocumentsTrue`) | For any cost rows of any sources and any files, however they change and however old the list is: an inbound document that is not blocked has every line as often as each of its sources says, and the file an outbound document is made of was the asked invoice at some moment of the export. | `Export!ConstantsSound` |
| `Costs` | `AskedIsShown` (`AskedShown`) | For any rows, quantities, prices and rates: a row shows what the last granted request asked for it, and a workbook that was finished shows the same, whichever of its writes was the last of a request or a rebuild. | `ConstantsSound` |
| `Costs` | `PartIsKept` (`PartKept`) | For the same: the amount of what was invoiced changes only with its quantity, on request, or when the status file is lost. | `ConstantsSound` |
| `Costs` | `SelectionIsTrue` (`SelectionTrue`) | For any files, names, headers and readings whose values are of their columns, and any selections: an invoice gives the rows of one file, the best read; a check that passes is of the rows of its invoice where names differ; a selection has no row twice and all rows of an invoice ticked as a whole; and every price lies between the prices of the rows it stands for. | `ConstantsSound`, `Readable` |

The assumptions named `ConstantsAssumption` and the like are on the constants
(bounds are numbers, `None` is none of the values). Where a module is reached
through INSTANCE they are operators (`ConstantsSound` of `References`, `Update`,
`Index`, `Export`, `List`, `Voucher` and `Pages`); the `MC` modules assume them of
their values, so that TLC evaluates them.

**The inductive invariants, and why they are needed.**

- `Folder`, the synchroniser. `SourceTracked` speaks of a profile at rest; a job in the
  middle has replaced `csv` and not yet `processed`, or the reverse. `IInv` is
  `TypeOK`, `CostSigs` and conjuncts that follow a signature through the job: no
  signature is recorded before it is given out (`Fresh`); a file that is there
  was extracted as it is, waits to be, or is not the one recorded (`Listed`);
  the rows written are of the files as they are (`RowsCurrent`); a job that
  rewrites values keeps the rows (`SameRows`); what is about to be saved is in
  the csv (`SigsTracked`). `InvO`, `InvE` and `InvR` do the same for overrides,
  for the last value a person gave each field, and for the cost outputs: each
  says at which places of a job memory holds what the files do not show yet.
- `MonitorLifecycle`. `Base` ties an actor's place to its process; `Own` says
  that a daemon past the lock created the file that is there; `Report` that the
  status names the daemon that works. `Credit` follows a start through the reads of
  its status: a daemon that is past its scans is in `wasReady`, hence so is the one
  whose pid was found alive and whose status then said ready.
- `Bookkeeping`. The vouchers of a batch went together until the first report
  and agree with its state after; files on disk are those of batches or of the
  one being made; what the ledger holds was submitted with the item's content;
  nothing is confirmed while the session is open; a report's evidence is true
  when it is delivered, however late. Each of the five groups is inductive on
  top of those before it. The refinement maps each action to a step of
  `VoucherLedger` or a stutter.
- Batch rename (in `Pages`). Beside types: an invoice is in one place (`Apart`), the place
  of the batch says how far it got (`Phases`), the plan is a partial permutation
  onto free names (`Sound`), and every file under a name came from the source
  that was to go there, is where it started, or was added (`Traced`). The first
  `NothingReplaced` was false with two refused renames, which the proof showed
  and TLC confirmed: a file that could not go back may be replaced by one rolled
  back after it. The exception `InTheWay` names it.
- Background synchronisation (in `Application`). A success was sent by the child of the worker that has it
  (`Honest`); the threads that hold a child are at most its followers and the
  two hand-overs by its worker (`Counted`, which bounds a counter for every
  `MaxGen`); a living child is current, retiring, or held.
- `Rules`. One rule for a scope; a mapping of version 1 has none; a screen shows
  what was read at its revision; a pending migration goes on as planned.
  `ChoicesAreKept` needs no invariant: the templates are carried over at the
  moment of the decision.
- `Application`. The end: what the state file says at each place (`StateSays`),
  and that a thread acts on a folder; what was read of the pid file is there or a
  successor wrote since (`PidInv`). Recovery: while an update publishes its
  own marker there is none of another, else a failed publication would lose it
  (`Marked`). Updates: only the caller with the lock is checking; an approval is
  of the last accepted feed; the cache holds a feed under its own ETag.
- `Pages`. Index: a worker has read its details and invoices since its job began
  (`Working`), lists name the job that wrote them, jobs number the workers.
  Export: the chosen name was free when the export looked.
- `Costs`, reference status. JSON, sheet and row agree up to the last write under
  way (`BookAgrees`, `Kept`).
- `Costs`, analysis. Nothing is written twice: a family that is done has left
  `left`, and the rows of its best file stand in the detail one after another and
  nowhere else (`Placed`), so that what is checked under the name of a file is,
  where names differ, what was read of it; check and answer are functions of the
  whole detail (`ShownSound`). The families of ticked files are disjoint, hence
  the least one that matches a row is the only one that takes it. A price is
  compared by multiplying out: were it above (or below) the price of every row,
  adding the rows up would make a sum less than itself (`WeightedBetween`,
  `MeanBetween`, with the lemmas on sums and products). The theorem asks of the
  readers that a value is a number or missing (`Readable`), which `TrustedTrue`
  has TLC check of every layout of its run.
- Voucher decisions (in `Rules`). The cost rows stay, and a voucher that a person
  decided has the lines of a division that covers them (`VoucherInv`). The rest
  is sums over the cost rows, from the lemmas of `Sums`: a division that is
  accepted exists exactly when the one by rows is, which needs a name of an
  allocation for each row, and the lines of such a division add up on both sides.
- Selections (in `Pages`). No list in memory or on disk names a file twice
  (`Good`), and the last answer has one file of every family it was asked for
  (`Counted`): `SumGroups` adds a total up family by family.
- Documents (in `Pages`). Rows of an inbound document are grouped by source, and
  sources that agree are counted once, which is a fact of the operators. The file
  of an outbound document was seen as what was asked since the export began
  (`OutInv`, `WasAsked`).
- Previews (in `Folder`). `PageInv`: a job's entries have the version that was
  selected and a page of that version or none; `idle` is the age of every job;
  a request at work knows a job of its number with the same selection, and a
  version it rendered lies between the selected one and the present one, so that
  finding the file unchanged means both are that version (`Recent`). Numbers of
  jobs under creation are of one request alone (`Apart`). Room is made before
  anything is added, which bounds the sums by `MaxCacheBytes` (`Added`, `Paged`).

**Only model-checked.** Liveness (`CatchesUp`, `StopWorks`, `ChildrenEnd`,
`AcceptedEnds`, the second half of `OwedReturns`), which is out of the prover's
reach. Sequences computed over data, which would need an induction over them:
that an amount is said in words (`WordsTrue`), and the rows read from a page
(`TrustedTrue`), which moreover is true of layouts that printers make and not of
every one.

## 9. What is not modelled, and why

- Contents: parsing, layout of workbooks, recognition of numbers. They are
  functions of one file and tested as such.
- `run_sync(force=True)`, notifications, the event log, progress display: no
  state the properties relate.
- `VoucherLines` leaves out blockers about masters (suppliers, projects,
  periods) that no amount depends on, and AUX_VALUE_NOT_FOUND, which a decision
  cannot raise: `_decided_line` refuses such a value itself (`decisions.py` 311-314).
- `MonitorRecovery` leaves out a host whose updater is disabled, Linux, markers
  that cannot be read or are of another scope, and failures of opening the
  store. Start of the backend: the choice of port and the health probe.
- A file has one page in `FilePreview`; a rule of `MappingRules` has the parts
  its rank compares.
- The parts of section 1 that name no module: `PROJECT.json` gives each reason.
