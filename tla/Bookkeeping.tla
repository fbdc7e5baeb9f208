---------------------------- MODULE Bookkeeping ----------------------------
(***************************************************************************)
(* The bookkeeping store of a company: drafts, decisions, reviews, export  *)
(* batches, the import of a batch into the accounting program and the      *)
(* reconciliation of its result (bookkeeping/status.py, decisions.py,      *)
(* validator.py, batches.py and the operations of services/app_state.py    *)
(* over them).  Every operation runs under the write lock of the company,  *)
(* so it is atomic but for what it writes: an operation that writes two    *)
(* files, or files and then the store, is two steps, and a crash may come  *)
(* between them.  What is not under the lock is the page a reviewer looks  *)
(* at, the source files, the projection of their rows, the accounting      *)
(* program and the reports about it that arrive late or twice.             *)
(***************************************************************************)
EXTENDS Naturals, FiniteSets, Sequences

CONSTANTS Vouchers,   \* posting keys
          LegacyStatuses, \* statuses of the vouchers of a store of version 1
          MaxChanges, \* bound: changes of files, rules, profile and template
          Allowed     \* circumstances the code does not exclude, of these:
                      \*  "fsync"      the store is replaced and the flush of its
                      \*               directory fails
                      \*  "earlyread"  somebody reads the ledger back while the
                      \*               import session is still open

ASSUME ChangesAssumption == MaxChanges \in Nat

VARIABLES
    \* the world
    file,     \* [Vouchers -> Nat]  version of the source file of the voucher
    rows,     \* [Vouchers -> Nat]  version its cost detail rows were read from
    rule,     \* [Vouchers -> Nat]  the account mapping's answer for its lines
    prof,     \* revision of the ledger profile, with the catalogues it binds
    tmpl,     \* version of the import template facts
    ledger,   \* [Vouchers -> the revisions posted of it, in order]
    session,  \* [batch -> state of the import session in the accounting program]
    late,     \* a report under way, or NoReport
    \* the company's files
    schema,   \* of the status store, 1 or 2
    item,     \* [Vouchers -> status item]
    batch,    \* [batch -> [state, id]], the batches of the store
    bound,    \* profile revision the mapping store is bound to, 0 for none
    disk,     \* ids of the batches whose files are on disk
    \* the service
    doing,    \* an operation between its two writes
    page      \* what a reviewer's page shows

world == <<file, rows, rule, prof, tmpl>>
store == <<schema, item, batch>>
vars == <<file, rows, rule, prof, tmpl, ledger, session, late, schema, item,
          batch, bound, disk, doing, page>>

Batches == (SUBSET Vouchers) \ {{}}
NoBatch == {}
\* A revision of a voucher: what it was drafted from, and the decision about it.
Hash(f, r, m, p, d) == [file |-> f, rows |-> r, rule |-> m, prof |-> p, dec |-> d]
NoHash == Hash(0, 0, 0, 0, "none")
\* The revision hash of a snapshot taken over from a store of version 1.
Legacy == Hash(0, 0, 0, 0, "legacy")
NoReport == [mode |-> "none"]
Idle == [op |-> "idle"]
Page(fresh, hash) == [fresh |-> fresh, hash |-> hash]
NoPage == Page(FALSE, <<>>)
Stale == Page(FALSE, page.hash)
Batch(s, id) == [state |-> s, id |-> id]
NoBatchRecord == Batch("none", [items |-> <<>>, prof |-> 0, tmpl |-> 0])

Item(s, h, a, b) == [status |-> s, hash |-> h, appr |-> a, batch |-> b]
Absent == Item("absent", NoHash, NoHash, NoBatch)
LegacyItem(s) == Item(s, Legacy, NoHash, NoBatch)
WithStatus(i, s) == Item(s, i.hash, i.appr, i.batch)

LockedStatuses == {"approved", "exported", "importing", "imported", "import_failed",
                   "import_failed_confirmed", "import_unknown"}
RecomputableStatuses == {"draft", "rejected"}
EditableStatuses == {"draft", "review_pending", "rejected"}
ActiveBatchStates == {"prepared", "awaiting_authorization", "applying", "partial", "unknown"}
ConfirmedStatuses == {"imported", "import_failed_confirmed"}

Changes == (prof - 1) + (tmpl - 1)
           + Cardinality({v \in Vouchers : file[v] > 1})
           + Cardinality({v \in Vouchers : rule[v] > 1})

Init ==
    /\ file = [v \in Vouchers |-> 1] /\ rows = file
    /\ rule = [v \in Vouchers |-> 1]
    /\ prof = 1 /\ tmpl = 1
    /\ schema \in {1, 2}
    /\ item \in [Vouchers ->
                   IF schema = 2 THEN {Absent}
                   ELSE {LegacyItem(s) : s \in LegacyStatuses}]
    /\ ledger \in [Vouchers -> {<<>>, <<Legacy>>}]
    /\ \A v \in Vouchers : ledger[v] # <<>> => item[v].status \in {"imported", "import_failed"}
    /\ \A v \in Vouchers : item[v].status = "imported" => ledger[v] # <<>>
    /\ session = [S \in Batches |-> "none"]
    /\ batch = [S \in Batches |-> NoBatchRecord]
    /\ bound = 0 /\ disk = {}
    /\ late = NoReport /\ doing = Idle
    /\ page = NoPage

-----------------------------------------------------------------------------
\* The write lock of the company, held between the two writes of an operation.
LockFree == doing = Idle

\* A store of version 1 is read and not written.
Migrated == schema = 2

(* The world outside the lock.                                             *)

FileChanges(v) ==
    /\ Changes < MaxChanges /\ file[v] = 1
    /\ file' = [file EXCEPT ![v] = 2]
    /\ UNCHANGED <<rows, rule, prof, tmpl, ledger, session, late, schema, item,
                   batch, bound, disk, doing, page>>

\* The monitor's synchronisation reads the changed files again.
Synchronise ==
    /\ rows # file
    /\ rows' = file
    /\ UNCHANGED <<file, rule, prof, tmpl, ledger, session, late, schema, item,
                   batch, bound, disk, doing, page>>

TemplateChanges ==
    /\ Changes < MaxChanges /\ tmpl = 1
    /\ tmpl' = 2
    /\ UNCHANGED <<file, rows, rule, prof, ledger, session, late, schema, item,
                   batch, bound, disk, doing, page>>

\* The operator confirms the ledger profile again; nothing else is written.
SaveProfile ==
    /\ LockFree /\ Changes < MaxChanges /\ prof = 1
    /\ prof' = 2
    /\ UNCHANGED <<file, rows, rule, tmpl, ledger, session, late, schema, item,
                   batch, bound, disk, doing, page>>

-----------------------------------------------------------------------------
(* Drafts.  Generation, a new mapping rule and a recomputation all compute *)
(* drafts first and merge them into the store with their last write.       *)

DraftUnder(v, m) == Hash(file[v], rows[v], m, prof, "none")
DraftHash(v) == DraftUnder(v, rule[v])

\* The posting keys merge_voucher_drafts leaves alone are those locked or under review.
Merged(drafts) ==
    [v \in Vouchers |->
       IF v \in DOMAIN drafts /\ item[v].status \notin LockedStatuses \union {"review_pending"}
       THEN Item("draft", drafts[v], NoHash, NoBatch)
       ELSE item[v]]

\* Binds the mapping store when it is not bound; a mapping bound to another
\* profile or catalogue stops the generation.
GenerateVoucherDrafts ==
    /\ LockFree /\ Migrated
    /\ bound \in {0, prof}
    /\ bound' = prof
    /\ doing' = [op |-> "merge", drafts |-> [v \in Vouchers |-> DraftHash(v)]]
    /\ UNCHANGED <<file, rows, rule, prof, tmpl, ledger, session, late, schema, item,
                   batch, disk, page>>

SourceBasisKept(v) == item[v].hash.file = file[v] /\ item[v].hash.rows = rows[v]

\* A new rule changes the answer for the vouchers of A.  It is refused when one of
\* them could be recomputed but its sources changed since it was drafted; the rule
\* file is written first, the changed drafts afterwards.
AppendMappingRule(A) ==
    /\ LockFree
    /\ Changes + Cardinality(A) <= MaxChanges /\ \A v \in A : rule[v] = 1
    /\ bound \in {0, prof}
    /\ LET affected == {v \in A : item[v].status \in RecomputableStatuses}
       IN /\ schema = 2 => \A v \in affected : SourceBasisKept(v)
          /\ schema = 1 => affected = {}
          /\ rule' = [v \in Vouchers |-> IF v \in A THEN 2 ELSE rule[v]]
          /\ doing' = IF affected = {} THEN Idle
                      ELSE [op |-> "merge",
                            drafts |-> [v \in affected |-> DraftUnder(v, 2)]]
    /\ bound' = prof
    /\ UNCHANGED <<file, rows, prof, tmpl, ledger, session, late, schema, item,
                   batch, disk, page>>

\* Only drafts and rejected vouchers may be recomputed; one that stays the same is not written.
RecomputeDrafts(A) ==
    /\ LockFree /\ Migrated /\ bound = prof
    /\ \A v \in A : item[v].status \in RecomputableStatuses
    /\ LET changed == {v \in A : item[v].hash # DraftHash(v)}
       IN /\ changed # {}
          /\ doing' = [op |-> "merge", drafts |-> [v \in changed |-> DraftHash(v)]]
    /\ UNCHANGED <<file, rows, rule, prof, tmpl, ledger, session, late, schema, item,
                   batch, bound, disk, page>>

\* merge_voucher_drafts: one durable replacement of the store.
MergeDrafts ==
    /\ doing.op = "merge"
    /\ item' = Merged(doing.drafts)
    /\ doing' = Idle
    /\ page' = Stale
    /\ UNCHANGED <<file, rows, rule, prof, tmpl, ledger, session, late, schema,
                   batch, bound, disk>>

-----------------------------------------------------------------------------
(* The reviewer's page, of one voucher.   Its commands carry the store      *)
(* revision the page was loaded with; "fresh" says that nothing was        *)
(* written since, that is, that the two revisions are equal.               *)

LoadPage(v) ==
    /\ item[v].status \in EditableStatuses
    /\ page' = Page(TRUE, [w \in {v} |-> item[w].hash])
    /\ UNCHANGED <<file, rows, rule, prof, tmpl, ledger, session, late, schema, item,
                   batch, bound, disk, doing>>

RevisionSeen == page.fresh

HashSeen(v) == v \in DOMAIN page.hash /\ page.hash[v] = item[v].hash

Decided(v, d) ==
    LET h == item[v].hash IN Hash(h.file, h.rows, h.rule, h.prof, d)

\* apply_voucher_decision: a decision, complete or with points left open, on what the page shows.
SaveDecision(v, d) ==
    /\ LockFree /\ Migrated
    /\ RevisionSeen
    /\ item[v].status \in EditableStatuses
    /\ HashSeen(v) /\ item[v].hash # Legacy
    /\ item' = [item EXCEPT ![v] = Item("review_pending", Decided(v, d), NoHash, NoBatch)]
    /\ page' = NoPage
    /\ UNCHANGED <<file, rows, rule, prof, tmpl, ledger, session, late, schema,
                   batch, bound, disk, doing>>

(* The validator, by its groups of blockers.                               *)

ContextReady(v) == Migrated /\ bound = prof /\ item[v].hash.prof = prof

SourcesCurrent(v) == item[v].hash.file = file[v]

MappingCurrent(v) == item[v].hash.rule = rule[v]

DecisionComplete(v) == item[v].hash.dec = "full"

NoOtherBatch(v, phase) ==
    \A S \in Batches : (batch[S].state \in ActiveBatchStates /\ v \in S)
                          => item[v].batch = S /\ phase # "approve"

RevisionApproved(v, phase) == phase = "export" => item[v].appr = item[v].hash

Executable(v, phase) ==
    /\ ContextReady(v)
    /\ SourcesCurrent(v)
    /\ MappingCurrent(v)
    /\ DecisionComplete(v)
    /\ NoOtherBatch(v, phase)
    /\ RevisionApproved(v, phase)

Approve(v) ==
    /\ LockFree /\ RevisionSeen
    /\ item[v].status = "review_pending"
    /\ HashSeen(v)
    /\ Executable(v, "approve")
    /\ item' = [item EXCEPT ![v] = Item("approved", item[v].hash, page.hash[v], NoBatch)]
    /\ page' = NoPage
    /\ UNCHANGED <<file, rows, rule, prof, tmpl, ledger, session, late, schema,
                   batch, bound, disk, doing>>

Reject(v) ==
    /\ LockFree /\ Migrated /\ RevisionSeen
    /\ item[v].status \in {"draft", "review_pending"}
    /\ item' = [item EXCEPT ![v] = WithStatus(item[v], "rejected")]
    /\ page' = NoPage
    /\ UNCHANGED <<file, rows, rule, prof, tmpl, ledger, session, late, schema,
                   batch, bound, disk, doing>>

-----------------------------------------------------------------------------
(* Export: the files of the batch first, its registration afterwards.      *)

\* The fingerprint of a batch: its items, and the profile and template it is made with.
BatchId(S) == [items |-> [v \in S |-> item[v].hash], prof |-> prof, tmpl |-> tmpl]

ExportBatch(S) ==
    /\ LockFree
    /\ \A v \in S : item[v].status = "approved" /\ Executable(v, "export")
    /\ disk' = disk \union {BatchId(S)}
    /\ doing' = [op |-> "register", batch |-> S, id |-> BatchId(S),
                 created |-> BatchId(S) \notin disk]
    /\ UNCHANGED <<file, rows, rule, prof, tmpl, ledger, session, late, schema, item,
                   batch, bound, page>>

Registered(S) ==
    [v \in Vouchers |-> IF v \in S THEN Item("exported", item[v].hash, item[v].appr, S)
                        ELSE item[v]]

RegisterBatch ==
    /\ doing.op = "register"
    /\ item' = Registered(doing.batch)
    /\ batch' = [batch EXCEPT ![doing.batch] = Batch("prepared", doing.id)]
    /\ doing' = Idle
    /\ page' = Stale
    /\ UNCHANGED <<file, rows, rule, prof, tmpl, ledger, session, late, schema,
                   bound, disk>>

\* The registration raises, before the store is replaced or, with "fsync", after it;
\* the files this export made are removed.
RegistrationFails ==
    /\ doing.op = "register"
    /\ \/ UNCHANGED <<item, batch, page>>
       \/ /\ "fsync" \in Allowed
          /\ item' = Registered(doing.batch)
          /\ batch' = [batch EXCEPT ![doing.batch] = Batch("prepared", doing.id)]
          /\ page' = Stale
    /\ disk' = IF doing.created THEN disk \ {doing.id} ELSE disk
    /\ doing' = Idle
    /\ UNCHANGED <<file, rows, rule, prof, tmpl, ledger, session, late, schema, bound>>

\* The service dies between the two writes of an operation, or between check and write.
Crash ==
    /\ doing # Idle
    /\ doing' = Idle
    /\ UNCHANGED <<file, rows, rule, prof, tmpl, ledger, session, late, schema, item,
                   batch, bound, disk, page>>

FilePresent(S) == batch[S].id \in disk

\* record_batch_dry_run, with a runner that read the file it was given.
RecordDryRun(S) ==
    /\ LockFree
    /\ batch[S].state = "prepared"
    /\ FilePresent(S)
    /\ batch' = [batch EXCEPT ![S] = Batch("awaiting_authorization", batch[S].id)]
    /\ page' = Stale
    /\ UNCHANGED <<file, rows, rule, prof, tmpl, ledger, session, late, schema, item,
                   bound, disk, doing>>

\* begin_bookkeeping_import_batch: the template, the profile and every voucher are
\* checked again.  Nothing keeps the source files as they were hashed, so the world
\* goes on until the store is written; the write lock keeps out every other operation.
CheckImport(S) ==
    /\ LockFree
    /\ batch[S].state = "awaiting_authorization"
    /\ batch[S].id.tmpl = tmpl /\ batch[S].id.prof = prof
    /\ \A v \in S : Executable(v, "export")
    /\ doing' = [op |-> "begin", batch |-> S]
    /\ UNCHANGED <<file, rows, rule, prof, tmpl, ledger, session, late, schema, item,
                   batch, bound, disk, page>>

Importing(S) ==
    /\ item' = [v \in Vouchers |-> IF v \in S THEN WithStatus(item[v], "importing")
                                   ELSE item[v]]
    /\ batch' = [batch EXCEPT ![S] = Batch("applying", batch[S].id)]
    /\ session' = [session EXCEPT ![S] = "open"]
    /\ doing' = Idle
    /\ page' = Stale
    /\ UNCHANGED <<file, rows, rule, prof, tmpl, ledger, late, schema, bound, disk>>

\* Mutant: an import whose outcome is unknown may be begun again.
BeginImport_Again(S) ==
    /\ \/ /\ doing.op = "begin" /\ doing.batch = S
          /\ FilePresent(S)
          /\ \A v \in S : item[v].status = "exported" /\ item[v].batch = S
       \/ doing = Idle /\ batch[S].state = "unknown"
    /\ Importing(S)

\* begin_import_batch writes the store; the import session opens with the authorisation.
BeginImport(S) ==
    /\ doing.op = "begin" /\ doing.batch = S
    /\ FilePresent(S)
    /\ \A v \in S : item[v].status = "exported" /\ item[v].batch = S
    /\ Importing(S)

-----------------------------------------------------------------------------
(* The accounting program and the runner that drives it.                   *)

\* The runner commits the file; the program may keep a part of it only.
Commit(S, T) ==
    /\ session[S] = "open" /\ T \subseteq S
    /\ session' = [session EXCEPT ![S] = "tried"]
    /\ ledger' = [v \in Vouchers |-> IF v \in T THEN Append(ledger[v], batch[S].id.items[v])
                                     ELSE ledger[v]]
    /\ UNCHANGED <<file, rows, rule, prof, tmpl, late, schema, item, batch, bound,
                   disk, doing, page>>

\* The session ends, after a commit or without one.
EndSession(S) ==
    /\ session[S] \in {"open", "tried"}
    /\ session' = [session EXCEPT ![S] = IF session[S] = "tried" THEN "ended" ELSE "aborted"]
    /\ UNCHANGED <<file, rows, rule, prof, tmpl, ledger, late, schema, item, batch,
                   bound, disk, doing, page>>

Over(S) == session[S] \in {"aborted", "ended"}

InLedger(S) == {v \in S : ledger[v] # <<>>}

\* What somebody may report about a batch now.  Any claim may be made, but evidence
\* is honest: a signature is read from the ledger, absence is confirmed for what the
\* ledger does not hold and "commit not attempted" when no commit was tried.
Reports(S) ==
    {m \in [mode: {"apply", "reconcile_only"},
            outcome: {"confirmed_success", "failed_before_commit", "partial", "unknown"},
            obs: UNION {[T -> ConfirmedStatuses \union {"import_unknown"}] : T \in SUBSET S},
            readback: BOOLEAN,
            absence: {FALSE} \union {a \in {TRUE} : Over(S) \/ "earlyread" \in Allowed},
            notTried: {FALSE} \union {n \in {TRUE} : session[S] = "aborted"},
            signed: {InLedger(S)}] :
        m.absence => \A v \in DOMAIN m.obs :
                        m.obs[v] = "import_failed_confirmed" => v \notin InLedger(S)}

Failed(m) == {v \in DOMAIN m.obs : m.obs[v] = "import_failed_confirmed"}
Imported(m) == {v \in DOMAIN m.obs : m.obs[v] = "imported"}

\* Mutant: a batch that was imported in part cannot be settled.
ModeAllowed_UnknownOnly(S, m) ==
    \/ batch[S].state = "applying"
    \/ batch[S].state = "unknown" /\ m.mode = "reconcile_only"

ModeAllowed(S, m) ==
    \/ batch[S].state = "applying"
    \/ batch[S].state \in {"unknown", "partial"} /\ m.mode = "reconcile_only"

SuccessProved(S, m) ==
    m.outcome = "confirmed_success" =>
       /\ Imported(m) = S
       /\ ~m.notTried /\ ~m.absence
       /\ m.readback

ObservationsProved(m) ==
    /\ Imported(m) # {} => m.readback
    /\ Failed(m) # {} => m.readback /\ m.absence

FailureProved(S, m) ==
    m.outcome = "failed_before_commit" =>
       \/ batch[S].state = "applying" /\ m.mode = "apply" /\ m.notTried /\ DOMAIN m.obs = {}
       \/ m.mode = "reconcile_only" /\ m.readback /\ m.absence /\ Failed(m) = S

\* The status an item is given when it is not confirmed yet.
NextStatus(v, m) ==
    CASE m.outcome = "confirmed_success" -> "imported"
      [] m.outcome = "failed_before_commit" -> "import_failed_confirmed"
      [] m.outcome = "unknown" -> "import_unknown"
      [] m.outcome = "partial" -> IF v \in DOMAIN m.obs THEN m.obs[v] ELSE "import_unknown"

\* Mutant: a verdict is taken for a voucher whatever content it is of.
ItemAccepts_Unsigned(v, m) ==
    /\ item[v].status \in ConfirmedStatuses \union {"importing", "import_unknown"}
    /\ (item[v].status \in ConfirmedStatuses /\ v \in DOMAIN m.obs)
          => NextStatus(v, m) = item[v].status

\* A confirmed item keeps its status: a report that observes it must agree.
ItemAccepts(v, m) ==
    /\ item[v].status \in ConfirmedStatuses \union {"importing", "import_unknown"}
    /\ (item[v].status \in ConfirmedStatuses /\ v \in DOMAIN m.obs)
          => NextStatus(v, m) = item[v].status
    /\ (NextStatus(v, m) = "imported"
          /\ ~(item[v].status \in ConfirmedStatuses /\ v \notin DOMAIN m.obs)) => v \in m.signed

Resulting(v, m) ==
    IF item[v].status \in ConfirmedStatuses THEN item[v].status ELSE NextStatus(v, m)

\* Mutant: one unknown voucher makes the whole batch unknown.
BatchState_AnyUnknown(states) ==
    CASE states = {"imported"} -> "reconciled"
      [] states = {"import_failed_confirmed"} -> "failed_before_commit"
      [] "import_unknown" \in states -> "unknown"
      [] OTHER -> "partial"

BatchState(states) ==
    CASE states = {"imported"} -> "reconciled"
      [] states = {"import_failed_confirmed"} -> "failed_before_commit"
      [] states = {"import_unknown"} -> "unknown"
      [] OTHER -> "partial"

Accepts(S, m) ==
    /\ ModeAllowed(S, m)
    /\ SuccessProved(S, m)
    /\ ObservationsProved(m)
    /\ FailureProved(S, m)
    /\ \A v \in S : ItemAccepts(v, m)

Verdicts(S, m) == [v \in S |-> Resulting(v, m)]

\* finalize_import_batch: a report is accepted for all items of the batch or for none.
Finalize(S, verdicts) ==
    /\ LockFree
    /\ item' = [v \in Vouchers |-> IF v \in S THEN WithStatus(item[v], verdicts[v])
                                   ELSE item[v]]
    /\ batch' = [batch EXCEPT ![S] = Batch(BatchState({verdicts[v] : v \in S}), batch[S].id)]
    /\ page' = Stale
    /\ UNCHANGED <<file, rows, rule, prof, tmpl, ledger, session, late, schema, bound,
                   disk, doing>>

Reportable(S) == batch[S].state \in {"applying", "unknown", "partial"}

FinalizeNow(S) ==
    /\ Reportable(S) /\ LockFree
    /\ \E verdicts \in {Verdicts(S, m) : m \in {r \in Reports(S) : Accepts(S, r)}} :
          Finalize(S, verdicts)

\* A report is written, and delivered later, once, twice or never.  A report delivered
\* again answers with its receipt and changes nothing: what it may change is confirmed.
\* Bound: of the reports that say the same, one arrives late.
Plain(m) ==
    /\ m.readback /\ (m.absence <=> Failed(m) # {}) /\ (m.mode = "apply" <=> m.notTried)
    /\ m.outcome = "unknown" => DOMAIN m.obs = {}

WriteReport(S) ==
    /\ late = NoReport /\ Reportable(S)
    /\ \E m \in Reports(S) : Accepts(S, m) /\ Plain(m) /\ late' = [batch |-> S, report |-> m]
    /\ UNCHANGED <<file, rows, rule, prof, tmpl, ledger, session, schema, item, batch,
                   bound, disk, doing, page>>

DeliverReport ==
    /\ late # NoReport /\ Accepts(late.batch, late.report)
    /\ Finalize(late.batch, Verdicts(late.batch, late.report))

LoseReport ==
    /\ late # NoReport
    /\ late' = NoReport
    /\ UNCHANGED <<file, rows, rule, prof, tmpl, ledger, session, schema, item, batch,
                   bound, disk, doing, page>>

\* apply_voucher_status_migration, once the mapping is bound to the profile.
MigrateStore ==
    /\ LockFree /\ schema = 1 /\ bound = prof
    /\ schema' = 2
    /\ item' = [v \in Vouchers |-> IF item[v].status = "import_failed"
                                   THEN WithStatus(item[v], "import_unknown")
                                   ELSE item[v]]
    /\ page' = Stale
    /\ UNCHANGED <<file, rows, rule, prof, tmpl, ledger, session, late, batch, bound,
                   disk, doing>>

-----------------------------------------------------------------------------
World ==
    \/ \E v \in Vouchers : FileChanges(v)
    \/ Synchronise
    \/ TemplateChanges

Operator ==
    \/ SaveProfile
    \/ GenerateVoucherDrafts
    \/ \E A \in SUBSET Vouchers : AppendMappingRule(A)
    \/ \E A \in SUBSET Vouchers : RecomputeDrafts(A)
    \/ \E v \in Vouchers : LoadPage(v)
    \/ \E v \in Vouchers, d \in {"full", "open"} : SaveDecision(v, d)
    \/ \E v \in Vouchers : Approve(v) \/ Reject(v)
    \/ \E S \in Batches : ExportBatch(S) \/ RecordDryRun(S) \/ CheckImport(S)
    \/ MigrateStore

SecondWrite ==
    \/ MergeDrafts \/ RegisterBatch \/ RegistrationFails
    \/ \E S \in Batches : BeginImport(S)
    \/ Crash

Import ==
    \/ \E S \in Batches : \E T \in SUBSET S : Commit(S, T)
    \/ \E S \in Batches : EndSession(S) \/ FinalizeNow(S) \/ WriteReport(S)
    \/ DeliverReport
    \/ LoseReport

Next == World \/ Operator \/ SecondWrite \/ Import

Spec == Init /\ [][Next]_vars

-----------------------------------------------------------------------------
(* Properties.                                                             *)

Statuses == LockedStatuses \union EditableStatuses \union {"absent"}
\* A store of version 1 comes with its statuses.
ASSUME LegacyAssumption == LegacyStatuses \subseteq Statuses

BatchStates == ActiveBatchStates \union {"none", "reconciled", "failed_before_commit"}

Hashes == [file: 1..2, rows: 1..2, rule: 1..2, prof: 1..2, dec: {"none", "open", "full"}]
            \union {Legacy}
SomeHash == Hashes \union {NoHash}

\* The store and the world keep their types.
TypeOK ==
    /\ file \in [Vouchers -> 1..2] /\ rows \in [Vouchers -> 1..2]
    /\ rule \in [Vouchers -> 1..2] /\ prof \in 1..2 /\ tmpl \in 1..2
    /\ ledger \in [Vouchers -> Seq(Hashes)]
    /\ session \in [Batches -> {"none", "open", "tried", "ended", "aborted"}]
    /\ schema \in 1..2 /\ bound \in 0..2
    /\ \A v \in Vouchers :
          /\ item[v].status \in Statuses
          /\ item[v].hash \in SomeHash /\ item[v].appr \in SomeHash
          /\ item[v].batch \in Batches \union {NoBatch}
    /\ \A S \in Batches : batch[S].state \in BatchStates
    /\ doing.op \in {"idle", "merge", "register", "begin"}

\* The bookkeeping implements the promise: what the accounting program holds was
\* submitted with the content a reviewer approved, it has posted no voucher twice,
\* neither with the same content nor with another, and a verdict that is confirmed is
\* true and final.
Stage(v) ==
    CASE item[v].status \in EditableStatuses \union {"absent"} -> "open"
      [] item[v].status \in {"approved", "exported"} -> "approved"
      [] item[v].status \in {"importing", "import_unknown", "import_failed"} -> "submitted"
      [] item[v].status = "imported" -> "posted"
      [] item[v].status = "import_failed_confirmed" -> "absent"

Content(v) == IF Stage(v) = "open" THEN NoHash ELSE item[v].hash

Ledger == INSTANCE VoucherLedger WITH
    Contents <- Hashes,
    NoContent <- NoHash,
    stage <- [v \in Vouchers |-> Stage(v)],
    content <- [v \in Vouchers |-> Content(v)],
    ledger <- ledger

KeepsPromise == Ledger!Spec

\* The state of a batch is that of its vouchers, which belong to this batch alone,
\* whichever reports about it came in which order.
BatchAgrees ==
    \A S \in Batches : batch[S].state # "none" =>
       LET statuses == {item[v].status : v \in S}
       IN /\ \A v \in S : item[v].batch = S /\ item[v].hash = batch[S].id.items[v]
          /\ batch[S].state \in {"prepared", "awaiting_authorization"} <=> statuses = {"exported"}
          /\ batch[S].state = "applying" <=> statuses = {"importing"}
          /\ batch[S].state = "reconciled" <=> statuses = {"imported"}
          /\ batch[S].state = "failed_before_commit" <=> statuses = {"import_failed_confirmed"}
          /\ batch[S].state = "unknown" <=> statuses = {"import_unknown"}

\* A batch of the store has its files, through failed registrations and crashes
\* between the files and the store.
BatchHasFiles == \A S \in Batches : batch[S].state # "none" => FilePresent(S)

\* A batch and its vouchers agree on how far it got, and an import has a file.
BatchesTrue == TypeOK /\ BatchAgrees /\ BatchHasFiles

\* An import can always be settled: once its session is over, the report that tells
\* of each voucher what the ledger holds is accepted, whatever was reported before.
Honest(S) ==
    [mode |-> "reconcile_only", outcome |-> "partial",
     obs |-> [v \in S |-> IF ledger[v] = <<>> THEN "import_failed_confirmed" ELSE "imported"],
     readback |-> TRUE, absence |-> InLedger(S) # S, notTried |-> FALSE,
     signed |-> InLedger(S)]

Settleable ==
    \A S \in Batches :
       (Over(S) /\ batch[S].state \in {"applying", "unknown", "partial"})
          => Accepts(S, Honest(S))
=============================================================================
