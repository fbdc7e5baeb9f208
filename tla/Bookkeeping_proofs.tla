-------------------------- MODULE Bookkeeping_proofs --------------------------
(***************************************************************************)
(* Proofs about the bookkeeping of a company, for any set of vouchers, any *)
(* store it may come with and any number of changes of the world.          *)
(***************************************************************************)
EXTENDS Bookkeeping, TLAPS

Sessions == {"none", "open", "tried", "ended", "aborted"}
Outcomes == {"confirmed_success", "failed_before_commit", "partial", "unknown"}
Verdict == ConfirmedStatuses \cup {"import_unknown"}
Items == [status : Statuses, hash : SomeHash, appr : SomeHash, batch : SUBSET Vouchers]

(* The shape of a report.                                                  *)
ReportTyped(S, m) ==
  /\ S \in Batches /\ m.outcome \in Outcomes
  /\ DOMAIN m.obs \subseteq S /\ \A v \in DOMAIN m.obs : m.obs[v] \in Verdict

World2 ==
  /\ file \in [Vouchers -> 1..2] /\ rows \in [Vouchers -> 1..2]
  /\ rule \in [Vouchers -> 1..2] /\ prof \in 1..2 /\ tmpl \in 1..2

Store ==
  /\ schema \in 1..2 /\ bound \in 0..2
  /\ item \in [Vouchers -> Items]
  /\ \A v \in Vouchers : item[v].status # "absent" => item[v].hash \in Hashes
  /\ DOMAIN batch = Batches
  /\ \A S \in Batches : batch[S].state \in BatchStates

Program ==
  /\ ledger \in [Vouchers -> Seq(Hashes)]
  /\ session \in [Batches -> Sessions]
  /\ late # NoReport => ReportTyped(late.batch, late.report)

Doing ==
  /\ doing.op \in {"idle", "merge", "register", "begin"}
  /\ doing.op = "merge" =>
       /\ DOMAIN doing.drafts \subseteq Vouchers
       /\ \A v \in DOMAIN doing.drafts : doing.drafts[v] \in Hashes
  /\ doing.op = "register" =>
       /\ doing.batch \in Batches
       /\ \A v \in doing.batch :
            item[v].status = "approved" /\ doing.id.items[v] = item[v].hash
  /\ doing.op = "begin" =>
       doing.batch \in Batches /\ batch[doing.batch].state = "awaiting_authorization"

Typed == World2 /\ Store /\ Program /\ Doing

(* A voucher that is not exported belongs to no batch; those of a batch    *)
(* went together until the first report, and agree with its state after.   *)
Unbatched == {"absent", "draft", "review_pending", "rejected", "approved"}

StatusesOf(S) == {item[v].status : v \in S}

Shape(S) ==
  \/ batch[S].state \in {"prepared", "awaiting_authorization"} /\ StatusesOf(S) = {"exported"}
  \/ batch[S].state = "applying" /\ StatusesOf(S) = {"importing"}
  \/ StatusesOf(S) \subseteq Verdict /\ batch[S].state = BatchState(StatusesOf(S))

Agreed ==
  /\ \A v \in Vouchers : item[v].status \in Unbatched => item[v].batch = NoBatch
  /\ \A S \in Batches : batch[S].state # "none" =>
       /\ \A v \in S : item[v].batch = S /\ item[v].hash = batch[S].id.items[v]
       /\ Shape(S)

(* An import session is of a batch that was begun.                         *)
Begun ==
  \A S \in Batches :
    session[S] # "none" => batch[S].state \notin {"none", "prepared", "awaiting_authorization"}

(* Files on disk: those of the batches, and those of one being made.       *)
Filed ==
  /\ BatchHasFiles
  /\ doing.op = "register" =>
       /\ doing.id \in disk
       /\ doing.created =>
            \A S \in Batches : batch[S].state # "none" => batch[S].id # doing.id

(* What the ledger holds was submitted and is what the item says.          *)
Truthful ==
  \A v \in Vouchers :
    /\ ledger[v] # <<>> =>
         item[v].status \in {"importing", "import_unknown", "import_failed", "imported"}
    /\ item[v].status = "imported" => ledger[v] = <<item[v].hash>>
    /\ item[v].batch # NoBatch => ledger[v] \in {<<>>, <<item[v].hash>>}

(* Until the runner has committed the ledger has nothing of the batch, and *)
(* nothing of it is confirmed while the import session is open.            *)
Open == {"importing", "import_unknown"}
Orderly ==
  \A S \in Batches : session[S] # "none" =>
    /\ session[S] \in {"open", "aborted"} => \A v \in S : ledger[v] = <<>>
    /\ session[S] = "open" => \A v \in S : item[v].status \in Open

(* The evidence of a report is true.                                       *)
Evidence(S, m) ==
  /\ m.notTried => session[S] = "aborted"
  /\ m.absence => /\ session[S] \in {"aborted", "ended"}
                 /\ \A v \in Failed(m) : ledger[v] = <<>>
  /\ m.signed \subseteq S /\ \A v \in m.signed : ledger[v] # <<>>

Sound(S, m) == batch[S].state # "none" /\ Evidence(S, m)

LateSound == late # NoReport => Sound(late.batch, late.report)

-----------------------------------------------------------------------------
(* Data.                                                                   *)
LEMMA HashFacts ==
  /\ NoHash \notin Hashes /\ NoHash \in SomeHash /\ Hashes \subseteq SomeHash
  /\ Legacy \in Hashes
  /\ \A f, r, m, p \in 1..2, d \in {"none", "open", "full"} : Hash(f, r, m, p, d) \in Hashes
BY DEF NoHash, Hashes, SomeHash, Legacy, Hash

\* A ledger with one posting.
LEMMA Postings ==
  /\ <<>> \in Seq(Hashes)
  /\ \A h \in Hashes : <<h>> \in Seq(Hashes) /\ <<h>> # <<>> /\ Append(<<>>, h) = <<h>>
  /\ \A l \in Seq(Hashes), h \in Hashes :
       Append(l, h) \in Seq(Hashes)
<1>1. <<>> \in Seq(Hashes)
  OBVIOUS
<1>2. ASSUME NEW h \in Hashes
      PROVE  <<h>> \in Seq(Hashes) /\ <<h>> # <<>> /\ Append(<<>>, h) = <<h>>
  <2>1. <<h>> \in Seq(Hashes)
    OBVIOUS
  <2>2. <<h>> # <<>>
    <3>1. Len(<<h>>) = 1 /\ Len(<<>>) = 0
      OBVIOUS
    <3> QED
      BY <3>1
  <2>3. Append(<<>>, h) = <<h>>
    OBVIOUS
  <2> QED
    BY <2>1, <2>2, <2>3
<1>3. ASSUME NEW l \in Seq(Hashes), NEW h \in Hashes PROVE Append(l, h) \in Seq(Hashes)
  OBVIOUS
<1> QED
  BY <1>1, <1>2, <1>3

LEMMA ItemFields ==
  \A s, h, a, b : /\ Item(s, h, a, b).status = s /\ Item(s, h, a, b).hash = h
                  /\ Item(s, h, a, b).appr = a /\ Item(s, h, a, b).batch = b
BY DEF Item

LEMMA ItemTyped ==
  ASSUME NEW s \in Statuses, NEW h \in SomeHash, NEW a \in SomeHash, NEW b \in SUBSET Vouchers
  PROVE  Item(s, h, a, b) \in Items
BY DEF Item, Items

LEMMA WithStatusTyped ==
  ASSUME NEW i \in Items, NEW s \in Statuses
  PROVE  /\ WithStatus(i, s) \in Items
         /\ WithStatus(i, s).status = s
         /\ WithStatus(i, s).hash = i.hash
         /\ WithStatus(i, s).batch = i.batch
<1>1. i.hash \in SomeHash /\ i.appr \in SomeHash /\ i.batch \in SUBSET Vouchers
  BY DEF Items
<1> QED
  BY <1>1, ItemTyped, ItemFields DEF WithStatus

LEMMA BatchFields == \A s, id : Batch(s, id).state = s /\ Batch(s, id).id = id
BY DEF Batch

LEMMA BatchStateTyped == \A states : BatchState(states) \in BatchStates
BY DEF BatchState, BatchStates, ActiveBatchStates

LEMMA StatusFacts ==
  /\ Verdict \subseteq Statuses /\ Unbatched \subseteq Statuses
  /\ {"exported", "importing", "import_failed"} \subseteq Statuses
BY DEF Verdict, ConfirmedStatuses, Statuses, LockedStatuses, EditableStatuses, Unbatched

-----------------------------------------------------------------------------
(* Reports.                                                                *)
LEMMA ReportsTyped ==
  ASSUME NEW S \in Batches, NEW m \in Reports(S)
  PROVE  ReportTyped(S, m)
<1>1. /\ m.outcome \in Outcomes
      /\ m.obs \in UNION {[T -> Verdict] : T \in SUBSET S}
  BY DEF Reports, Outcomes, Verdict
<1>2. PICK T \in SUBSET S : m.obs \in [T -> Verdict]
  BY <1>1
<1> QED
  BY <1>1, <1>2 DEF ReportTyped

LEMMA ReportsHonest ==
  ASSUME "earlyread" \notin Allowed, NEW S \in Batches, NEW m \in Reports(S)
  PROVE  Evidence(S, m)
<1>1. /\ m.notTried => session[S] = "aborted"
      /\ m.absence => /\ session[S] \in {"aborted", "ended"}
                     /\ \A v \in DOMAIN m.obs :
                           m.obs[v] = "import_failed_confirmed" => v \notin InLedger(S)
      /\ m.signed = InLedger(S)
  <2>1. /\ m.notTried \in {FALSE} \cup {n \in {TRUE} : session[S] = "aborted"}
        /\ m.absence \in {FALSE} \cup {a \in {TRUE} : Over(S) \/ "earlyread" \in Allowed}
        /\ m.signed \in {InLedger(S)}
        /\ m.absence => \A v \in DOMAIN m.obs :
                           m.obs[v] = "import_failed_confirmed" => v \notin InLedger(S)
    BY DEF Reports
  <2>2. m.notTried => session[S] = "aborted"
    BY <2>1
  <2>3. m.absence => Over(S)
    BY <2>1
  <2> QED
    BY <2>1, <2>2, <2>3 DEF Over
<1>2. ReportTyped(S, m)
  BY ReportsTyped
<1> QED
  BY <1>1, <1>2 DEF Evidence, Failed, InLedger, ReportTyped

(* What a report that is accepted makes of a voucher.                      *)
LEMMA Resulted ==
  ASSUME NEW S \in Batches, NEW m, ReportTyped(S, m), Accepts(S, m), NEW v \in S
  PROVE  /\ Resulting(v, m) \in Verdict
         /\ item[v].status \in Verdict \cup {"importing"}
         /\ item[v].status \in ConfirmedStatuses => Resulting(v, m) = item[v].status
<1>1. NextStatus(v, m) \in Verdict
  BY DEF NextStatus, ReportTyped, Outcomes, Verdict, ConfirmedStatuses
<1>2. ItemAccepts(v, m)
  BY DEF Accepts
<1> QED
  BY <1>1, <1>2 DEF Resulting, ItemAccepts, Verdict

-----------------------------------------------------------------------------
(* Types.                                                                  *)
LEMMA TypedInit == ASSUME LegacyAssumption PROVE Init => Typed
<1> SUFFICES ASSUME Init PROVE Typed
  OBVIOUS
<1>1. \A v \in Vouchers : item[v] = Absent \/ \E s \in Statuses : item[v] = LegacyItem(s)
  BY LegacyAssumption DEF Init
<1>2. Absent \in Items /\ \A s \in Statuses : LegacyItem(s) \in Items
  BY HashFacts, ItemTyped DEF Absent, LegacyItem, NoBatch, Statuses
<1>3. \A v \in Vouchers : item[v] \in Items /\ (item[v].status # "absent" => item[v].hash \in Hashes)
  BY <1>1, <1>2, HashFacts, ItemFields DEF Absent, LegacyItem
<1>4. item \in [Vouchers -> Items]
  <2>1. \E F : item \in [Vouchers -> F]
    BY DEF Init
  <2> QED
    BY <1>3, <2>1
<1>5. Store
  BY <1>3, <1>4, BatchFields DEF Store, Init, NoBatchRecord, BatchStates
<1>6. Program
  BY HashFacts, Postings DEF Program, Init, Sessions
<1>7. Doing
  BY DEF Doing, Init, Idle
<1> QED
  BY <1>5, <1>6, <1>7 DEF Typed, World2, Init

LEMMA World2Step == World2 /\ [Next]_vars => World2'
<1> SUFFICES ASSUME World2, [Next]_vars PROVE World2'
  OBVIOUS
<1>1. ASSUME NEW v \in Vouchers, FileChanges(v) PROVE World2'
  BY <1>1 DEF FileChanges, World2
<1>2. ASSUME Synchronise \/ TemplateChanges \/ SaveProfile PROVE World2'
  BY <1>2 DEF Synchronise, TemplateChanges, SaveProfile, World2
<1>3. ASSUME NEW A \in SUBSET Vouchers, AppendMappingRule(A) PROVE World2'
  BY <1>3 DEF AppendMappingRule, World2
<1>4. ASSUME UNCHANGED <<file, rows, rule, prof, tmpl>> PROVE World2'
  BY <1>4 DEF World2
<1> QED
  BY <1>1, <1>2, <1>3, <1>4 DEF Next, World, Operator, SecondWrite, Import, vars,
     GenerateVoucherDrafts, RecomputeDrafts, LoadPage, SaveDecision, Approve, Reject,
     ExportBatch, RecordDryRun, CheckImport, BeginImport, Importing, MigrateStore, MergeDrafts, RegisterBatch,
     RegistrationFails, Crash, Commit, EndSession, FinalizeNow, Finalize, WriteReport,
     DeliverReport, LoseReport

-----------------------------------------------------------------------------
(* What the steps do to the items and to the batches.                      *)
Kept == UNCHANGED <<schema, item, batch>>

\* Vouchers outside every batch are drafted, decided, approved or rejected.
Redrafted ==
  /\ UNCHANGED <<schema, batch, disk, ledger, session, late>>
  /\ item' \in [Vouchers -> Items]
  /\ \A v \in Vouchers :
       \/ item'[v] = item[v]
       \/ /\ item[v].status \in Unbatched /\ item'[v].status \in Unbatched \ {"absent"}
          /\ item'[v].batch = NoBatch /\ item'[v].hash \in Hashes
  /\ doing.op # "register" /\ doing' = Idle

LEMMA OneItem ==
  ASSUME item \in [Vouchers -> Items], NEW v \in Vouchers, NEW i \in Items,
         item' = [item EXCEPT ![v] = i]
  PROVE  /\ item' \in [Vouchers -> Items]
         /\ \A w \in Vouchers : item'[w] = IF w = v THEN i ELSE item[w]
OBVIOUS

LEMMA MergeEffect == ASSUME Typed, MergeDrafts PROVE Redrafted
<1>1. /\ item' = Merged(doing.drafts) /\ doing' = Idle /\ doing.op # "register"
      /\ UNCHANGED <<schema, batch, disk, ledger, session, late>>
  BY DEF MergeDrafts
<1>2. /\ \A v \in DOMAIN doing.drafts : doing.drafts[v] \in Hashes
      /\ item \in [Vouchers -> Items]
  BY DEF MergeDrafts, Typed, Doing, Store
<1>3. ASSUME NEW h \in Hashes
      PROVE  /\ Item("draft", h, NoHash, NoBatch) \in Items
             /\ Item("draft", h, NoHash, NoBatch).status = "draft"
             /\ Item("draft", h, NoHash, NoBatch).batch = NoBatch
             /\ Item("draft", h, NoHash, NoBatch).hash = h
  <2>1. /\ h \in SomeHash /\ NoHash \in SomeHash /\ NoBatch \in SUBSET Vouchers
        /\ "draft" \in Statuses
    BY HashFacts DEF Statuses, EditableStatuses, NoBatch
  <2> QED
    BY <2>1, ItemTyped, ItemFields
<1>4. ASSUME NEW v \in Vouchers
      PROVE  /\ item'[v] \in Items
             /\ \/ item'[v] = item[v]
                \/ /\ item[v].status \in Unbatched /\ item'[v].status \in Unbatched \ {"absent"}
                   /\ item'[v].batch = NoBatch /\ item'[v].hash \in Hashes
  <2>1. CASE v \in DOMAIN doing.drafts /\ item[v].status \notin LockedStatuses \cup {"review_pending"}
    <3>1. item'[v] = Item("draft", doing.drafts[v], NoHash, NoBatch)
      BY <1>1, <2>1 DEF Merged
    <3>2. item[v].status \in Unbatched
      BY <1>2, <2>1 DEF Items, Statuses, Unbatched, LockedStatuses, EditableStatuses
    <3> QED
      BY <1>2, <1>3, <2>1, <3>1, <3>2 DEF Unbatched
  <2>2. CASE ~(v \in DOMAIN doing.drafts /\ item[v].status \notin LockedStatuses \cup {"review_pending"})
    BY <1>1, <1>2, <2>2 DEF Merged
  <2> QED
    BY <2>1, <2>2
<1>5. item' \in [Vouchers -> Items]
  BY <1>1, <1>4 DEF Merged
<1> QED
  BY <1>1, <1>4, <1>5 DEF Redrafted

LEMMA DecisionEffect ==
  ASSUME Typed, NEW v \in Vouchers, NEW d \in {"full", "open"}, SaveDecision(v, d)
  PROVE  Redrafted
<1>1. /\ item' = [item EXCEPT ![v] = Item("review_pending", Decided(v, d), NoHash, NoBatch)]
      /\ item[v].status \in EditableStatuses /\ item[v].hash # Legacy
      /\ doing = Idle /\ doing' = doing
      /\ UNCHANGED <<schema, batch, disk, ledger, session, late>>
  BY DEF SaveDecision, LockFree
<1>2. item[v].hash \in Hashes \ {Legacy}
  BY <1>1 DEF Typed, Store, EditableStatuses
<1>3. Decided(v, d) \in Hashes
  BY <1>2, HashFacts DEF Decided, Hashes
<1>4. Item("review_pending", Decided(v, d), NoHash, NoBatch) \in Items
  BY <1>3, HashFacts, ItemTyped DEF Statuses, EditableStatuses, NoBatch
<1>5. /\ item' \in [Vouchers -> Items]
      /\ \A w \in Vouchers : item'[w] = IF w = v THEN Item("review_pending", Decided(v, d), NoHash, NoBatch)
                                        ELSE item[w]
  BY <1>1, <1>4, OneItem DEF Typed, Store
<1>6. item[v].status \in Unbatched /\ "review_pending" \in Unbatched \ {"absent"}
  BY <1>1 DEF EditableStatuses, Unbatched
<1> QED
  BY <1>1, <1>3, <1>5, <1>6, ItemFields DEF Redrafted, Idle

LEMMA ApproveEffect ==
  ASSUME Typed, NEW v \in Vouchers, Approve(v)
  PROVE  /\ Redrafted
         /\ item[v].status = "review_pending" /\ item'[v].status = "approved"
         /\ item'[v].hash \in Hashes
         /\ \A w \in Vouchers \ {v} : item'[w] = item[w]
<1>1. /\ item' = [item EXCEPT ![v] = Item("approved", item[v].hash, page.hash[v], NoBatch)]
      /\ item[v].status = "review_pending" /\ page.hash[v] = item[v].hash
      /\ doing = Idle /\ doing' = doing
      /\ UNCHANGED <<schema, batch, disk, ledger, session, late>>
  BY DEF Approve, LockFree, HashSeen
<1>2. item[v].hash \in Hashes
  BY <1>1 DEF Typed, Store
<1>3. Item("approved", item[v].hash, page.hash[v], NoBatch) \in Items
  BY <1>1, <1>2, HashFacts, ItemTyped DEF Statuses, LockedStatuses, NoBatch
<1>4. /\ item' \in [Vouchers -> Items]
      /\ \A w \in Vouchers : item'[w] = IF w = v THEN Item("approved", item[v].hash, page.hash[v], NoBatch)
                                        ELSE item[w]
  BY <1>1, <1>3, OneItem DEF Typed, Store
<1>5. item[v].status \in Unbatched /\ "approved" \in Unbatched \ {"absent"}
  BY <1>1 DEF Unbatched
<1> QED
  BY <1>1, <1>2, <1>4, <1>5, ItemFields DEF Redrafted, Idle

LEMMA RejectEffect ==
  ASSUME Typed, Agreed, NEW v \in Vouchers, Reject(v)
  PROVE  Redrafted
<1>1. /\ item' = [item EXCEPT ![v] = WithStatus(item[v], "rejected")]
      /\ item[v].status \in {"draft", "review_pending"}
      /\ doing = Idle /\ doing' = doing
      /\ UNCHANGED <<schema, batch, disk, ledger, session, late>>
  BY DEF Reject, LockFree
<1>2. item[v].status \in Unbatched /\ "rejected" \in Unbatched \ {"absent"} /\ "rejected" \in Statuses
  BY <1>1 DEF Unbatched, Statuses, EditableStatuses
<1>3. item[v] \in Items /\ item[v].hash \in Hashes /\ item[v].batch = NoBatch
  BY <1>1, <1>2 DEF Typed, Store, Agreed
<1>4. /\ item' \in [Vouchers -> Items]
      /\ \A w \in Vouchers : item'[w] = IF w = v THEN WithStatus(item[v], "rejected") ELSE item[w]
  BY <1>1, <1>2, <1>3, WithStatusTyped, OneItem DEF Typed, Store
<1> QED
  BY <1>1, <1>2, <1>3, <1>4, WithStatusTyped DEF Redrafted, Idle

LEMMA RegisterEffect ==
  ASSUME Typed, doing.op = "register", item' = Registered(doing.batch),
         batch' = [batch EXCEPT ![doing.batch] = Batch("prepared", doing.id)]
  PROVE  /\ item' \in [Vouchers -> Items]
         /\ \A v \in Vouchers :
              IF v \in doing.batch
              THEN /\ item[v].status = "approved" /\ item'[v].status = "exported"
                   /\ item'[v].hash = item[v].hash /\ item'[v].batch = doing.batch
              ELSE item'[v] = item[v]
         /\ DOMAIN batch' = Batches
         /\ \A S \in Batches : batch'[S] = IF S = doing.batch THEN Batch("prepared", doing.id)
                                           ELSE batch[S]
<1>1. /\ doing.batch \in Batches /\ item \in [Vouchers -> Items]
      /\ \A v \in doing.batch : item[v].status = "approved"
      /\ DOMAIN batch = Batches
  BY DEF Typed, Doing, Store
<1>2. ASSUME NEW v \in doing.batch
      PROVE  /\ Item("exported", item[v].hash, item[v].appr, doing.batch) \in Items
             /\ item'[v] = Item("exported", item[v].hash, item[v].appr, doing.batch)
  <2>1. /\ v \in Vouchers /\ doing.batch \in SUBSET Vouchers
        /\ item[v].hash \in SomeHash /\ item[v].appr \in SomeHash
    BY <1>1 DEF Batches, Items
  <2> QED
    BY <2>1, ItemTyped, StatusFacts DEF Registered
<1>3. \A v \in Vouchers \ doing.batch : item'[v] = item[v]
  BY DEF Registered
<1>4. item' \in [Vouchers -> Items]
  BY <1>1, <1>2, <1>3 DEF Registered
<1> QED
  BY <1>1, <1>2, <1>3, <1>4, ItemFields

LEMMA DryRunEffect ==
  ASSUME Typed, NEW S \in Batches, RecordDryRun(S)
  PROVE  /\ DOMAIN batch' = Batches /\ item' = item
         /\ batch[S].state = "prepared"
         /\ \A X \in Batches : batch'[X] = IF X = S THEN Batch("awaiting_authorization", batch[S].id)
                                           ELSE batch[X]
BY DEF RecordDryRun, Typed, Store

LEMMA BeginEffect ==
  ASSUME Typed, NEW S \in Batches, BeginImport(S)
  PROVE  /\ item' \in [Vouchers -> Items]
         /\ \A v \in Vouchers :
              IF v \in S
              THEN /\ item[v].status = "exported" /\ item'[v].status = "importing"
                   /\ item'[v].hash = item[v].hash /\ item'[v].batch = item[v].batch
              ELSE item'[v] = item[v]
         /\ DOMAIN batch' = Batches
         /\ batch[S].state = "awaiting_authorization"
         /\ \A X \in Batches : batch'[X] = IF X = S THEN Batch("applying", batch[S].id) ELSE batch[X]
<1>1. /\ item' = [v \in Vouchers |-> IF v \in S THEN WithStatus(item[v], "importing") ELSE item[v]]
      /\ \A v \in S : item[v].status = "exported"
      /\ batch' = [batch EXCEPT ![S] = Batch("applying", batch[S].id)]
      /\ batch[S].state = "awaiting_authorization"
  BY DEF BeginImport, Importing, Typed, Doing
<1>2. item \in [Vouchers -> Items] /\ DOMAIN batch = Batches
  BY DEF Typed, Store
<1>3. \A v \in Vouchers :
        /\ WithStatus(item[v], "importing") \in Items
        /\ WithStatus(item[v], "importing").status = "importing"
        /\ WithStatus(item[v], "importing").hash = item[v].hash
        /\ WithStatus(item[v], "importing").batch = item[v].batch
  BY <1>2, WithStatusTyped, StatusFacts
<1> QED
  BY <1>1, <1>2, <1>3

\* A report m of batch S is accepted.
Settles(S, m) == ReportTyped(S, m) /\ Accepts(S, m) /\ Finalize(S, Verdicts(S, m))

LEMMA SettlesEffect ==
  ASSUME Typed, NEW S \in Batches, NEW m, Settles(S, m)
  PROVE  /\ item' \in [Vouchers -> Items]
         /\ \A v \in Vouchers :
              IF v \in S
              THEN /\ item[v].status \in Verdict \cup {"importing"}
                   /\ item'[v].status = Resulting(v, m) /\ Resulting(v, m) \in Verdict
                   /\ item[v].status \in ConfirmedStatuses => item'[v].status = item[v].status
                   /\ item'[v].hash = item[v].hash /\ item'[v].batch = item[v].batch
              ELSE item'[v] = item[v]
         /\ DOMAIN batch' = Batches
         /\ \A X \in Batches :
              batch'[X] = IF X = S THEN Batch(BatchState(StatusesOf(S)'), batch[S].id)
                          ELSE batch[X]
<1>1. /\ item' = [v \in Vouchers |-> IF v \in S THEN WithStatus(item[v], Verdicts(S, m)[v]) ELSE item[v]]
      /\ batch' = [batch EXCEPT ![S] = Batch(BatchState({Verdicts(S, m)[v] : v \in S}), batch[S].id)]
  BY DEF Settles, Finalize
<1>2. item \in [Vouchers -> Items] /\ DOMAIN batch = Batches /\ S \subseteq Vouchers
  BY DEF Typed, Store, Batches
<1>3. \A v \in S : Verdicts(S, m)[v] = Resulting(v, m)
  BY DEF Verdicts
<1>4. \A v \in S :
        /\ Resulting(v, m) \in Verdict
        /\ item[v].status \in Verdict \cup {"importing"}
        /\ item[v].status \in ConfirmedStatuses => Resulting(v, m) = item[v].status
  BY Resulted DEF Settles
<1>5. \A v \in S :
        /\ WithStatus(item[v], Resulting(v, m)) \in Items
        /\ WithStatus(item[v], Resulting(v, m)).status = Resulting(v, m)
        /\ WithStatus(item[v], Resulting(v, m)).hash = item[v].hash
        /\ WithStatus(item[v], Resulting(v, m)).batch = item[v].batch
  BY <1>2, <1>4, WithStatusTyped, StatusFacts
<1>6. item' \in [Vouchers -> Items]
  BY <1>1, <1>2, <1>3, <1>5
<1>7. \A v \in S : item'[v] = WithStatus(item[v], Resulting(v, m))
  BY <1>1, <1>2, <1>3
<1>8. {Verdicts(S, m)[v] : v \in S} = StatusesOf(S)'
  BY <1>3, <1>5, <1>7 DEF StatusesOf
<1>9. \A X \in Batches :
        batch'[X] = IF X = S THEN Batch(BatchState(StatusesOf(S)'), batch[S].id)
                    ELSE batch[X]
  BY <1>1, <1>2, <1>8
<1>10. DOMAIN batch' = Batches
  BY <1>1, <1>2
<1>11. \A v \in Vouchers \ S : item'[v] = item[v]
  BY <1>1
<1> QED
  BY <1>4, <1>5, <1>6, <1>7, <1>9, <1>10, <1>11

LEMMA FinalizeSettles ==
  ASSUME Typed, NEW S \in Batches, FinalizeNow(S)
  PROVE  \E m \in Reports(S) : Settles(S, m)
BY ReportsTyped DEF FinalizeNow, Settles

LEMMA DeliverSettles ==
  ASSUME Typed, DeliverReport
  PROVE  late # NoReport /\ late.batch \in Batches /\ Settles(late.batch, late.report)
BY DEF DeliverReport, Settles, Typed, Program, ReportTyped

LEMMA MigrateEffect ==
  ASSUME Typed, MigrateStore
  PROVE  /\ item' \in [Vouchers -> Items] /\ batch' = batch /\ doing = Idle
         /\ \A v \in Vouchers :
              IF item[v].status = "import_failed"
              THEN /\ item'[v].status = "import_unknown"
                   /\ item'[v].hash = item[v].hash /\ item'[v].batch = item[v].batch
              ELSE item'[v] = item[v]
<1>1. /\ item' = [v \in Vouchers |-> IF item[v].status = "import_failed"
                                     THEN WithStatus(item[v], "import_unknown") ELSE item[v]]
      /\ batch' = batch /\ doing = Idle
  BY DEF MigrateStore, LockFree
<1>2. item \in [Vouchers -> Items] /\ "import_unknown" \in Statuses
  BY StatusFacts DEF Typed, Store, Verdict
<1>3. \A v \in Vouchers :
        /\ WithStatus(item[v], "import_unknown") \in Items
        /\ WithStatus(item[v], "import_unknown").status = "import_unknown"
        /\ WithStatus(item[v], "import_unknown").hash = item[v].hash
        /\ WithStatus(item[v], "import_unknown").batch = item[v].batch
  BY <1>2, WithStatusTyped
<1> QED
  BY <1>1, <1>2, <1>3

-----------------------------------------------------------------------------
(* The steps, by what they do to the store.                                *)
Registers ==
  /\ doing.op = "register" /\ doing' = Idle
  /\ item' = Registered(doing.batch)
  /\ batch' = [batch EXCEPT ![doing.batch] = Batch("prepared", doing.id)]
  /\ UNCHANGED <<schema, bound, ledger, session, late>>

LEMMA Steps ==
  ASSUME Typed, Agreed, [Next]_vars
  PROVE  \/ Redrafted /\ bound' = bound
         \/ Registers
         \/ \E S \in Batches : RecordDryRun(S) \/ BeginImport(S) \/ FinalizeNow(S)
         \/ DeliverReport
         \/ MigrateStore
         \/ Kept
<1>1. ASSUME World PROVE Kept
  BY <1>1 DEF World, FileChanges, Synchronise, TemplateChanges, Kept
<1>2. ASSUME SaveProfile \/ GenerateVoucherDrafts PROVE Kept
  BY <1>2 DEF SaveProfile, GenerateVoucherDrafts, Kept
<1>3. ASSUME NEW A \in SUBSET Vouchers, AppendMappingRule(A) \/ RecomputeDrafts(A) PROVE Kept
  BY <1>3 DEF AppendMappingRule, RecomputeDrafts, Kept
<1>4. ASSUME NEW v \in Vouchers, LoadPage(v) PROVE Kept
  BY <1>4 DEF LoadPage, Kept
<1>5. ASSUME NEW v \in Vouchers, NEW d \in {"full", "open"}, SaveDecision(v, d)
      PROVE  Redrafted /\ bound' = bound
  BY <1>5, DecisionEffect DEF SaveDecision
<1>6. ASSUME NEW v \in Vouchers, Approve(v) PROVE Redrafted /\ bound' = bound
  BY <1>6, ApproveEffect DEF Approve
<1>7. ASSUME NEW v \in Vouchers, Reject(v) PROVE Redrafted /\ bound' = bound
  BY <1>7, RejectEffect DEF Reject
<1>8. ASSUME NEW S \in Batches, ExportBatch(S) \/ CheckImport(S) PROVE Kept
  BY <1>8 DEF ExportBatch, CheckImport, Kept
<1>9. ASSUME MergeDrafts PROVE Redrafted /\ bound' = bound
  BY <1>9, MergeEffect DEF MergeDrafts
<1>10. ASSUME RegisterBatch PROVE Registers
  BY <1>10 DEF RegisterBatch, Registers
<1>11. ASSUME RegistrationFails PROVE Registers \/ Kept
  BY <1>11 DEF RegistrationFails, Registers, Kept
<1>12. ASSUME Crash \/ LoseReport PROVE Kept
  BY <1>12 DEF Crash, LoseReport, Kept
<1>13. ASSUME NEW S \in Batches, NEW T \in SUBSET S, Commit(S, T) PROVE Kept
  BY <1>13 DEF Commit, Kept
<1>14. ASSUME NEW S \in Batches, EndSession(S) \/ WriteReport(S) PROVE Kept
  BY <1>14 DEF EndSession, WriteReport, Kept
<1>15. ASSUME UNCHANGED vars PROVE Kept
  BY <1>15 DEF vars, Kept
<1> QED
  BY <1>1, <1>2, <1>3, <1>4, <1>5, <1>6, <1>7, <1>8, <1>9, <1>10, <1>11, <1>12, <1>13, <1>14,
     <1>15 DEF Next, Operator, SecondWrite, Import

LEMMA NumbersStep ==
  ASSUME Typed, [Next]_vars
  PROVE  schema' \in 1..2 /\ bound' \in 0..2
<1>1. schema \in 1..2 /\ bound \in 0..2 /\ prof \in 1..2
  BY DEF Typed, Store, World2
<1>2. schema' \in {schema, 2}
  BY DEF Next, World, Operator, SecondWrite, Import, vars,
     FileChanges, Synchronise, TemplateChanges, SaveProfile, AppendMappingRule,
     GenerateVoucherDrafts, RecomputeDrafts, LoadPage, SaveDecision, Approve, Reject,
     ExportBatch, RecordDryRun, CheckImport, BeginImport, Importing, MigrateStore, MergeDrafts, RegisterBatch,
     RegistrationFails, Crash, Commit, EndSession, FinalizeNow, Finalize, WriteReport,
     DeliverReport, LoseReport
<1>3. bound' \in {bound, prof}
  BY DEF Next, World, Operator, SecondWrite, Import, vars,
     FileChanges, Synchronise, TemplateChanges, SaveProfile, AppendMappingRule,
     GenerateVoucherDrafts, RecomputeDrafts, LoadPage, SaveDecision, Approve, Reject,
     ExportBatch, RecordDryRun, CheckImport, BeginImport, Importing, MigrateStore, MergeDrafts, RegisterBatch,
     RegistrationFails, Crash, Commit, EndSession, FinalizeNow, Finalize, WriteReport,
     DeliverReport, LoseReport
<1> QED
  BY <1>1, <1>2, <1>3

\* An action that only gives items another status.
LEMMA StoreStep == ASSUME Typed, Agreed, [Next]_vars PROVE Store'
<1>1. schema' \in 1..2 /\ bound' \in 0..2
  BY NumbersStep
<1>2. Store
  BY DEF Typed
<1>3. CASE Redrafted
  BY <1>1, <1>2, <1>3 DEF Store, Redrafted
<1>4. CASE Registers
  BY <1>1, <1>2, <1>4, RegisterEffect, BatchFields DEF Store, Registers, BatchStates, ActiveBatchStates
<1>5. CASE \E S \in Batches : RecordDryRun(S)
  BY <1>1, <1>2, <1>5, DryRunEffect, BatchFields DEF Store, BatchStates, ActiveBatchStates
<1>6. CASE \E S \in Batches : BeginImport(S)
  BY <1>1, <1>2, <1>6, BeginEffect, BatchFields DEF Store, BatchStates, ActiveBatchStates
<1>7. ASSUME NEW S \in Batches, NEW m, Settles(S, m) PROVE Store'
  <2>1. \A v \in Vouchers : item'[v].status # "absent" => item'[v].hash \in Hashes
    <3>1. \A v \in S : item[v].status # "absent"
      BY <1>7, SettlesEffect DEF Verdict, ConfirmedStatuses, Batches
    <3> QED
      BY <1>2, <1>7, <3>1, SettlesEffect DEF Store, Batches
  <2>2. \A X \in Batches : batch'[X].state \in BatchStates
    BY <1>2, <1>7, SettlesEffect, BatchFields, BatchStateTyped DEF Store
  <2> QED
    BY <1>1, <1>7, <2>1, <2>2, SettlesEffect DEF Store
<1>8. CASE MigrateStore
  BY <1>1, <1>2, <1>8, MigrateEffect DEF Store
<1>9. CASE Kept
  BY <1>1, <1>2, <1>9 DEF Store, Kept
<1> QED
  BY <1>3, <1>4, <1>5, <1>6, <1>7, <1>8, <1>9, Steps, FinalizeSettles, DeliverSettles

LEMMA DraftsTyped ==
  ASSUME Typed, NEW v \in Vouchers, NEW m \in 1..2
  PROVE  DraftUnder(v, m) \in Hashes
BY HashFacts DEF DraftUnder, Typed, World2

LEMMA DoingStep == ASSUME Typed, Agreed, [Next]_vars PROVE Doing'
<1>1. CASE Redrafted \/ Registers
  BY <1>1 DEF Redrafted, Registers, Doing, Idle
<1>2. CASE (\E S \in Batches : RecordDryRun(S) \/ BeginImport(S) \/ FinalizeNow(S))
           \/ DeliverReport \/ MigrateStore
  <2>1. doing' = Idle
    BY <1>2 DEF RecordDryRun, BeginImport, Importing, FinalizeNow, Finalize, DeliverReport, MigrateStore, LockFree
  <2> QED
    BY <2>1 DEF Doing, Idle
<1>3. ASSUME GenerateVoucherDrafts PROVE Doing'
  <2>1. \A v \in Vouchers : DraftHash(v) \in Hashes
    BY DraftsTyped DEF DraftHash, Typed, World2
  <2>2. doing' = [op |-> "merge", drafts |-> [v \in Vouchers |-> DraftHash(v)]]
    BY <1>3 DEF GenerateVoucherDrafts
  <2> QED
    BY <2>1, <2>2 DEF Doing
<1>4. ASSUME NEW A \in SUBSET Vouchers, AppendMappingRule(A) PROVE Doing'
  <2> DEFINE affected == {v \in A : item[v].status \in RecomputableStatuses}
             drafts == [v \in affected |-> DraftUnder(v, 2)]
  <2>1. DOMAIN drafts \subseteq Vouchers /\ \A v \in DOMAIN drafts : drafts[v] \in Hashes
    BY DraftsTyped
  <2>2. doing' = Idle \/ doing' = [op |-> "merge", drafts |-> drafts]
    BY <1>4 DEF AppendMappingRule
  <2> HIDE DEF drafts
  <2> QED
    BY <2>1, <2>2 DEF Doing, Idle
<1>5. ASSUME NEW A \in SUBSET Vouchers, RecomputeDrafts(A) PROVE Doing'
  <2> DEFINE changed == {v \in A : item[v].hash # DraftHash(v)}
             drafts == [v \in changed |-> DraftHash(v)]
  <2>1. DOMAIN drafts \subseteq Vouchers /\ \A v \in DOMAIN drafts : drafts[v] \in Hashes
    BY DraftsTyped DEF DraftHash, Typed, World2
  <2>2. doing' = [op |-> "merge", drafts |-> drafts]
    BY <1>5 DEF RecomputeDrafts
  <2> HIDE DEF drafts
  <2> QED
    BY <2>1, <2>2 DEF Doing
<1>6. ASSUME NEW S \in Batches, ExportBatch(S) PROVE Doing'
  <2>1. /\ \A v \in S : item'[v].status = "approved"
        /\ \A v \in S : BatchId(S).items[v] = item'[v].hash
    BY <1>6 DEF ExportBatch, BatchId
  <2>2. /\ doing'.op = "register" /\ doing'.batch = S /\ doing'.id = BatchId(S)
    BY <1>6 DEF ExportBatch
  <2> QED
    BY <2>1, <2>2 DEF Doing
<1>7. CASE Kept /\ (doing' = doing \/ doing' = Idle)
  BY <1>7 DEF Kept, Typed, Doing, Idle
<1>8. ASSUME NEW S \in Batches, CheckImport(S) PROVE Doing'
  <2>1. /\ doing'.op = "begin" /\ doing'.batch = S
        /\ batch'[S].state = "awaiting_authorization"
    BY <1>8 DEF CheckImport
  <2> QED
    BY <2>1 DEF Doing
<1>9. \/ doing' = doing \/ doing' = Idle \/ GenerateVoucherDrafts
      \/ \E A \in SUBSET Vouchers : AppendMappingRule(A) \/ RecomputeDrafts(A)
      \/ \E S \in Batches : ExportBatch(S) \/ CheckImport(S)
  BY DEF Next, World, Operator, SecondWrite, Import, vars,
     FileChanges, Synchronise, TemplateChanges, SaveProfile, LoadPage, SaveDecision, Approve, Reject,
     RecordDryRun, BeginImport, Importing, MigrateStore, MergeDrafts, RegisterBatch,
     RegistrationFails, Crash, Commit, EndSession, FinalizeNow, Finalize, WriteReport,
     DeliverReport, LoseReport
<1> QED
  BY <1>1, <1>2, <1>3, <1>4, <1>5, <1>6, <1>7, <1>9, <1>8, Steps

-----------------------------------------------------------------------------
(* Batches and their vouchers.                                             *)
LEMMA ShapeKept ==
  ASSUME NEW S \in Batches, Shape(S), batch'[S].state = batch[S].state,
         \A v \in S : item'[v].status = item[v].status
  PROVE  Shape(S)'
BY DEF Shape, StatusesOf

LEMMA Inhabited == \A S \in Batches : S \subseteq Vouchers /\ \E v \in S : v \in Vouchers
<1> SUFFICES ASSUME NEW S \in Batches PROVE S \subseteq Vouchers /\ \E v \in S : v \in Vouchers
  OBVIOUS
<1>1. S \subseteq Vouchers /\ S # {}
  BY DEF Batches
<1> QED
  BY <1>1

\* The vouchers of two batches, and those of a batch and those of none, are not the same.
LEMMA Apart ==
  ASSUME Agreed, NEW S \in Batches, batch[S].state # "none", NEW v \in S
  PROVE  /\ v \in Vouchers
         /\ item[v].status \notin Unbatched
         /\ \A X \in Batches : batch[X].state # "none" /\ v \in X => X = S
         /\ item[v].status \in {"exported", "importing"} \cup Verdict
<1>1. v \in Vouchers /\ item[v].batch = S /\ Shape(S) /\ S # NoBatch
  BY DEF Agreed, Batches, NoBatch
<1>2. item[v].status \in StatusesOf(S)
  BY DEF StatusesOf
<1>3. item[v].status \in {"exported", "importing"} \cup Verdict
  BY <1>1, <1>2 DEF Shape
<1> QED
  BY <1>1, <1>3 DEF Agreed

LEMMA AgreedInit == Init => Agreed
<1> SUFFICES ASSUME Init PROVE Agreed
  OBVIOUS
<1>1. \A S \in Batches : batch[S].state = "none"
  BY BatchFields DEF Init, NoBatchRecord
<1>2. \A v \in Vouchers : item[v].batch = NoBatch
  <2>1. \A v \in Vouchers : item[v] = Absent \/ \E s \in LegacyStatuses : item[v] = LegacyItem(s)
    BY DEF Init
  <2> QED
    BY <2>1, ItemFields DEF Absent, LegacyItem
<1> QED
  BY <1>1, <1>2 DEF Agreed

LEMMA AgreedStep == ASSUME Typed, Agreed, [Next]_vars PROVE Agreed'
<1> DEFINE Alone(v) == item[v].status \in Unbatched => item[v].batch = NoBatch
           Fits(S) == /\ \A v \in S : item[v].batch = S /\ item[v].hash = batch[S].id.items[v]
                      /\ Shape(S)
<1>1. /\ \A v \in Vouchers : Alone(v)
      /\ \A S \in Batches : batch[S].state # "none" => Fits(S)
  BY DEF Agreed
<1>2. ASSUME NEW S \in Batches, Fits(S), batch'[S] = batch[S],
             \A v \in S : item'[v] = item[v]
      PROVE  Fits(S)'
  BY <1>2, ShapeKept
<1>3. ASSUME \A v \in Vouchers : Alone(v)',
             \A S \in Batches : batch'[S].state # "none" => Fits(S)'
      PROVE  Agreed'
  BY <1>3 DEF Agreed
<1> HIDE DEF Fits
<1>4. CASE Redrafted
  <2>1. \A v \in Vouchers : Alone(v)'
    BY <1>1, <1>4 DEF Redrafted
  <2>2. ASSUME NEW S \in Batches, batch'[S].state # "none" PROVE Fits(S)'
    <3>1. batch'[S] = batch[S] /\ batch[S].state # "none"
      BY <1>4, <2>2 DEF Redrafted
    <3>2. \A v \in S : item'[v] = item[v]
      BY <1>4, <3>1, Apart DEF Redrafted
    <3> QED
      BY <1>1, <1>2, <3>1, <3>2
  <2> QED
    BY <1>3, <2>1, <2>2
<1>5. CASE Registers
  <2>0. PICK X \in Batches : X = doing.batch
    BY <1>5 DEF Registers, Typed, Doing
  <2>1. /\ \A v \in X : item[v].status = "approved" /\ doing.id.items[v] = item[v].hash
        /\ \A v \in Vouchers :
             IF v \in X
             THEN /\ item'[v].status = "exported" /\ item'[v].hash = item[v].hash
                  /\ item'[v].batch = X
             ELSE item'[v] = item[v]
        /\ \A S \in Batches : batch'[S] = IF S = X THEN Batch("prepared", doing.id) ELSE batch[S]
    BY <1>5, <2>0, RegisterEffect DEF Registers, Typed, Doing
  <2>2. \A v \in Vouchers : Alone(v)'
    BY <1>1, <2>1 DEF Unbatched
  <2>3. Fits(X)'
    <3>1. batch'[X].state = "prepared" /\ batch'[X].id = doing.id
      BY <2>1, BatchFields
    <3>2. StatusesOf(X)' = {"exported"}
      <4>1. PICK w \in X : w \in Vouchers
        BY <2>1, Inhabited
      <4>2. \A v \in X : item'[v].status = "exported"
        BY <2>1, Inhabited
      <4> QED
        BY <4>1, <4>2 DEF StatusesOf
    <3>3. Shape(X)'
      BY <3>1, <3>2 DEF Shape
    <3> QED
      BY <2>1, <3>1, <3>3, Inhabited DEF Fits
  <2>4. ASSUME NEW S \in Batches, S # X, batch'[S].state # "none" PROVE Fits(S)'
    <3>1. batch'[S] = batch[S] /\ batch[S].state # "none"
      BY <2>1, <2>4
    <3>2. \A v \in S : v \in Vouchers /\ v \notin X
      BY <2>1, <3>1, Apart DEF Unbatched
    <3> QED
      BY <1>1, <1>2, <2>1, <3>1, <3>2
  <2> QED
    BY <1>3, <2>2, <2>3, <2>4
<1>6. ASSUME NEW X \in Batches, RecordDryRun(X) PROVE Agreed'
  <2>1. /\ item' = item /\ batch[X].state = "prepared"
        /\ \A S \in Batches : batch'[S] = IF S = X THEN Batch("awaiting_authorization", batch[X].id)
                                          ELSE batch[S]
    BY <1>6, DryRunEffect
  <2>2. Fits(X)'
    <3>1. StatusesOf(X) = {"exported"}
      BY <1>1, <2>1 DEF Fits, Shape, BatchState
    <3>2. Shape(X)'
      BY <2>1, <3>1, BatchFields DEF Shape, StatusesOf
    <3> QED
      BY <1>1, <2>1, <3>2, BatchFields DEF Fits
  <2>3. ASSUME NEW S \in Batches, S # X, batch'[S].state # "none" PROVE Fits(S)'
    BY <1>1, <1>2, <2>1, <2>3
  <2>4. \A v \in Vouchers : Alone(v)'
    BY <1>1, <2>1
  <2> QED
    BY <1>3, <2>2, <2>3, <2>4
<1>7. ASSUME NEW X \in Batches, BeginImport(X) PROVE Agreed'
  <2>1. /\ batch[X].state = "awaiting_authorization"
        /\ \A v \in Vouchers :
              IF v \in X
              THEN /\ item'[v].status = "importing"
                   /\ item'[v].hash = item[v].hash /\ item'[v].batch = item[v].batch
              ELSE item'[v] = item[v]
        /\ \A S \in Batches : batch'[S] = IF S = X THEN Batch("applying", batch[X].id) ELSE batch[S]
    BY <1>7, BeginEffect
  <2>2. Fits(X)'
    <3>1. StatusesOf(X)' = {"importing"}
      BY <2>1, Inhabited DEF StatusesOf
    <3>2. Shape(X)'
      BY <2>1, <3>1, BatchFields DEF Shape
    <3> QED
      BY <1>1, <2>1, <3>2, BatchFields, Inhabited DEF Fits
  <2>3. ASSUME NEW S \in Batches, S # X, batch'[S].state # "none" PROVE Fits(S)'
    <3>1. batch'[S] = batch[S] /\ batch[S].state # "none"
      BY <2>1, <2>3
    <3>2. \A v \in S : v \in Vouchers /\ v \notin X
      BY <2>1, <2>3, <3>1, Apart
    <3> QED
      BY <1>1, <1>2, <2>1, <3>1, <3>2
  <2>4. \A v \in Vouchers : Alone(v)'
    BY <1>1, <2>1 DEF Unbatched
  <2> QED
    BY <1>3, <2>2, <2>3, <2>4
<1>8. ASSUME NEW X \in Batches, NEW m, Settles(X, m) PROVE Agreed'
  <2>1. /\ batch[X].state # "none"
        /\ \A v \in Vouchers :
              IF v \in X
              THEN /\ item'[v].status \in Verdict
                   /\ item'[v].hash = item[v].hash /\ item'[v].batch = item[v].batch
              ELSE item'[v] = item[v]
        /\ \A S \in Batches : batch'[S] = IF S = X THEN Batch(BatchState(StatusesOf(X)'), batch[X].id)
                                          ELSE batch[S]
    BY <1>8, SettlesEffect DEF Settles, Accepts, ModeAllowed
  <2>2. Fits(X)'
    <3>1. StatusesOf(X)' \subseteq Verdict
      BY <2>1, Inhabited DEF StatusesOf
    <3>2. Shape(X)'
      BY <2>1, <3>1, BatchFields DEF Shape
    <3> QED
      BY <1>1, <2>1, <3>2, BatchFields, Inhabited DEF Fits
  <2>3. ASSUME NEW S \in Batches, S # X, batch'[S].state # "none" PROVE Fits(S)'
    <3>1. batch'[S] = batch[S] /\ batch[S].state # "none"
      BY <2>1, <2>3
    <3>2. \A v \in S : v \in Vouchers /\ v \notin X
      BY <2>1, <2>3, <3>1, Apart
    <3> QED
      BY <1>1, <1>2, <2>1, <3>1, <3>2
  <2>4. \A v \in Vouchers : Alone(v)'
    BY <1>1, <2>1 DEF Unbatched, Verdict, ConfirmedStatuses
  <2> QED
    BY <1>3, <2>2, <2>3, <2>4
<1>9. CASE MigrateStore
  <2>1. /\ batch' = batch
        /\ \A v \in Vouchers :
              IF item[v].status = "import_failed"
              THEN item'[v].status = "import_unknown"
              ELSE item'[v] = item[v]
    BY <1>9, MigrateEffect
  <2>2. ASSUME NEW S \in Batches, batch'[S].state # "none" PROVE Fits(S)'
    <3>1. \A v \in S : v \in Vouchers /\ item[v].status # "import_failed"
      BY <2>1, <2>2, Apart DEF Verdict, ConfirmedStatuses
    <3> QED
      BY <1>1, <1>2, <2>1, <2>2, <3>1
  <2>3. \A v \in Vouchers : Alone(v)'
    BY <1>1, <2>1 DEF Unbatched
  <2> QED
    BY <1>3, <2>2, <2>3
<1>10. CASE Kept
  BY <1>1, <1>2, <1>3, <1>10 DEF Kept
<1> QED
  BY <1>4, <1>5, <1>6, <1>7, <1>8, <1>9, <1>10, Steps, FinalizeSettles, DeliverSettles

-----------------------------------------------------------------------------
(* The accounting program and its sessions.                                *)
LEMMA BegunInit == Init => Begun
BY DEF Init, Begun

LEMMA BegunStep == ASSUME Typed, Agreed, Begun, [Next]_vars PROVE Begun'
<1> DEFINE Fresh == {"none", "prepared", "awaiting_authorization"}
<1>1. CASE Redrafted \/ (Kept /\ session' = session)
  BY <1>1 DEF Begun, Redrafted, Kept
<1>2. CASE Registers
  <2>1. PICK X \in Batches : X = doing.batch
    BY <1>2 DEF Registers, Typed, Doing
  <2>2. \A v \in X : item[v].status = "approved"
    BY <1>2, <2>1 DEF Registers, Typed, Doing
  <2>3. batch[X].state = "none"
    BY <2>2, Apart, Inhabited DEF Unbatched
  <2>4. /\ session' = session
        /\ \A S \in Batches : S # X => batch'[S] = batch[S]
    BY <1>2, <2>1, RegisterEffect DEF Registers
  <2> QED
    BY <2>3, <2>4 DEF Begun
<1>3. ASSUME NEW X \in Batches, RecordDryRun(X) PROVE Begun'
  <2>1. /\ session' = session /\ batch[X].state = "prepared"
        /\ \A S \in Batches : S # X => batch'[S] = batch[S]
    BY <1>3, DryRunEffect DEF RecordDryRun
  <2> QED
    BY <2>1 DEF Begun
<1>4. ASSUME NEW X \in Batches, BeginImport(X) PROVE Begun'
  <2>1. session' = [session EXCEPT ![X] = "open"]
    BY <1>4 DEF BeginImport, Importing
  <2>2. /\ batch'[X].state = "applying"
        /\ \A S \in Batches : S # X => batch'[S] = batch[S]
    BY <1>4, BeginEffect, BatchFields
  <2> QED
    BY <2>1, <2>2 DEF Begun, Typed, Program
<1>5. ASSUME NEW X \in Batches, NEW m, Settles(X, m), session' = session PROVE Begun'
  <2>1. /\ batch'[X].state = BatchState(StatusesOf(X)')
        /\ \A S \in Batches : S # X => batch'[S] = batch[S]
    BY <1>5, SettlesEffect, BatchFields
  <2>2. batch'[X].state \notin Fresh
    BY <2>1 DEF BatchState
  <2> QED
    BY <1>5, <2>1, <2>2 DEF Begun
<1>6. CASE MigrateStore
  BY <1>6 DEF MigrateStore, Begun
<1>7. ASSUME NEW S \in Batches, NEW T \in SUBSET S, Commit(S, T) PROVE Begun'
  BY <1>7 DEF Commit, Begun, Typed, Program
<1>8. ASSUME NEW S \in Batches, EndSession(S) PROVE Begun'
  BY <1>8 DEF EndSession, Begun, Typed, Program
<1>9. \/ session' = session
      \/ \E S \in Batches : BeginImport(S) \/ EndSession(S) \/ \E T \in SUBSET S : Commit(S, T)
  BY DEF Next, World, Operator, SecondWrite, Import, vars,
     FileChanges, Synchronise, TemplateChanges, SaveProfile, AppendMappingRule,
     GenerateVoucherDrafts, RecomputeDrafts, LoadPage, SaveDecision, Approve, Reject,
     ExportBatch, RecordDryRun, CheckImport, MigrateStore, MergeDrafts, RegisterBatch,
     RegistrationFails, Crash, FinalizeNow, Finalize, WriteReport, DeliverReport, LoseReport
<1>10. \A S, m : Settles(S, m) => session' = session
  BY DEF Settles, Finalize
<1> QED
  BY <1>1, <1>2, <1>3, <1>4, <1>5, <1>6, <1>7, <1>8, <1>9, <1>10, Steps, FinalizeSettles, DeliverSettles

\* What the runner commits is what the items say.
LEMMA CommitEffect ==
  ASSUME Typed, Agreed, Begun, NEW S \in Batches, NEW T \in SUBSET S, Commit(S, T)
  PROVE  /\ item' = item /\ batch' = batch /\ late' = late /\ doing' = doing
         /\ session[S] = "open"
         /\ \A X \in Batches : session'[X] = IF X = S THEN "tried" ELSE session[X]
         /\ ledger' \in [Vouchers -> Seq(Hashes)]
         /\ session' \in [Batches -> Sessions]
         /\ \A v \in T : item[v].hash \in Hashes
         /\ \A v \in Vouchers : ledger'[v] = IF v \in T THEN Append(ledger[v], item[v].hash)
                                             ELSE ledger[v]
<1>1. /\ item' = item /\ batch' = batch /\ late' = late /\ doing' = doing
      /\ session[S] = "open"
      /\ session' = [session EXCEPT ![S] = "tried"]
      /\ ledger' = [v \in Vouchers |-> IF v \in T THEN Append(ledger[v], batch[S].id.items[v])
                                       ELSE ledger[v]]
  BY DEF Commit
<1>2. batch[S].state # "none"
  BY <1>1 DEF Begun
<1>3. \A v \in T : v \in Vouchers /\ item[v].hash = batch[S].id.items[v]
  BY <1>2, Inhabited DEF Agreed
<1>4. \A v \in T : item[v].hash \in Hashes
  BY <1>2, <1>3, Apart DEF Typed, Store, Unbatched
<1>5. /\ ledger \in [Vouchers -> Seq(Hashes)] /\ session \in [Batches -> Sessions]
      /\ \A l \in Seq(Hashes), h \in Hashes : Append(l, h) \in Seq(Hashes)
  BY Postings DEF Typed, Program
<1>6. \A v \in Vouchers : ledger'[v] = IF v \in T THEN Append(ledger[v], item[v].hash) ELSE ledger[v]
  BY <1>1, <1>3
<1>7. ledger' \in [Vouchers -> Seq(Hashes)]
  <2>1. \A v \in Vouchers : ledger'[v] \in Seq(Hashes)
    BY <1>4, <1>5, <1>6
  <2> QED
    BY <1>1, <2>1
<1> QED
  BY <1>1, <1>4, <1>5, <1>6, <1>7 DEF Sessions

LEMMA ProgramStep == ASSUME Typed, Agreed, Begun, [Next]_vars PROVE Program'
<1>1. CASE UNCHANGED <<ledger, session, late>>
  BY <1>1 DEF Typed, Program, ReportTyped
<1>2. ASSUME NEW S \in Batches, NEW T \in SUBSET S, Commit(S, T) PROVE Program'
  BY <1>2, CommitEffect DEF Typed, Program, ReportTyped
<1>3. ASSUME NEW S \in Batches, EndSession(S) \/ BeginImport(S) PROVE Program'
  BY <1>3 DEF EndSession, BeginImport, Importing, Typed, Program, Sessions, ReportTyped
<1>4. ASSUME NEW S \in Batches, WriteReport(S) PROVE Program'
  <2>1. /\ UNCHANGED <<ledger, session>>
        /\ \E m \in Reports(S) : late' = [batch |-> S, report |-> m]
    BY <1>4 DEF WriteReport
  <2>2. PICK m \in Reports(S) : late' = [batch |-> S, report |-> m]
    BY <2>1
  <2>3. late'.batch = S /\ late'.report = m /\ ReportTyped(S, m)
    BY <2>2, ReportsTyped
  <2> QED
    BY <2>1, <2>3 DEF Typed, Program, ReportTyped
<1>5. CASE LoseReport
  BY <1>5 DEF LoseReport, Typed, Program
<1> QED
  BY <1>1, <1>2, <1>3, <1>4, <1>5 DEF Next, World, Operator, SecondWrite, Import, vars,
     FileChanges, Synchronise, TemplateChanges, SaveProfile, AppendMappingRule,
     GenerateVoucherDrafts, RecomputeDrafts, LoadPage, SaveDecision, Approve, Reject,
     ExportBatch, RecordDryRun, CheckImport, MigrateStore, MergeDrafts, RegisterBatch,
     RegistrationFails, Crash, FinalizeNow, Finalize, DeliverReport

-----------------------------------------------------------------------------
Base == Typed /\ Agreed /\ Begun

LEMMA BaseInit == ASSUME LegacyAssumption PROVE Init => Base
BY TypedInit, AgreedInit, BegunInit DEF Base

LEMMA BaseStep == Base /\ [Next]_vars => Base'
BY World2Step, StoreStep, ProgramStep, DoingStep, AgreedStep, BegunStep DEF Base, Typed

LEMMA BaseAlways == Spec => []Base
BY BaseInit, BaseStep, LegacyAssumption, PTL DEF Spec

LEMMA BaseTypes == Base => TypeOK
<1> SUFFICES ASSUME Base PROVE TypeOK
  OBVIOUS
<1>1. ASSUME NEW v \in Vouchers
      PROVE  /\ item[v].status \in Statuses
             /\ item[v].hash \in SomeHash /\ item[v].appr \in SomeHash
             /\ item[v].batch \in Batches \cup {NoBatch}
  <2>1. item[v] \in Items
    BY DEF Base, Typed, Store
  <2> QED
    BY <2>1 DEF Items, Batches, NoBatch
<1> QED
  BY <1>1 DEF TypeOK, Base, Typed, World2, Store, Program, Doing, Sessions

\* The store, the world and the ledger keep their types.
THEOREM TypeCorrect == Spec => []TypeOK
BY BaseAlways, BaseTypes, PTL

LEMMA BaseAgrees == Base => BatchAgrees
<1> SUFFICES ASSUME Base, NEW S \in Batches, batch[S].state # "none"
             PROVE  /\ \A v \in S : item[v].batch = S /\ item[v].hash = batch[S].id.items[v]
                    /\ batch[S].state \in {"prepared", "awaiting_authorization"}
                         <=> StatusesOf(S) = {"exported"}
                    /\ batch[S].state = "applying" <=> StatusesOf(S) = {"importing"}
                    /\ batch[S].state = "reconciled" <=> StatusesOf(S) = {"imported"}
                    /\ batch[S].state = "failed_before_commit"
                         <=> StatusesOf(S) = {"import_failed_confirmed"}
                    /\ batch[S].state = "unknown" <=> StatusesOf(S) = {"import_unknown"}
  BY DEF BatchAgrees, StatusesOf
<1>1. /\ \A v \in S : item[v].batch = S /\ item[v].hash = batch[S].id.items[v]
      /\ Shape(S)
  BY DEF Base, Agreed
<1>2. StatusesOf(S) # {}
  BY Inhabited DEF StatusesOf
<1> QED
  BY <1>1, <1>2 DEF Shape, BatchState, Verdict, ConfirmedStatuses

\* The state of a batch is that of its vouchers, whichever reports came in which order.
THEOREM BatchesAgree == Spec => []BatchAgrees
BY BaseAlways, BaseAgrees, PTL

-----------------------------------------------------------------------------
(* Batches and their files.                                                *)
LEMMA FiledInit == Init => Filed
BY BatchFields DEF Init, Filed, BatchHasFiles, NoBatchRecord, Idle

LEMMA FiledStep ==
  ASSUME "fsync" \notin Allowed, Base, Filed, [Next]_vars
  PROVE  Filed'
<1> USE DEF Base
<1>1. CASE UNCHANGED <<batch, disk>> /\ doing' = Idle
  BY <1>1 DEF Filed, BatchHasFiles, FilePresent, Idle
<1>2. CASE UNCHANGED <<batch, disk, doing>>
  BY <1>2 DEF Filed, BatchHasFiles, FilePresent
<1>3. CASE RegisterBatch
  <2>1. PICK X \in Batches : X = doing.batch
    BY <1>3 DEF RegisterBatch, Typed, Doing
  <2>2. \A S \in Batches : batch'[S] = IF S = X THEN Batch("prepared", doing.id) ELSE batch[S]
    BY <1>3, <2>1, RegisterEffect DEF RegisterBatch
  <2>3. disk' = disk /\ doing' = Idle /\ doing.id \in disk
    BY <1>3 DEF RegisterBatch, Filed
  <2>4. \A S \in Batches : batch'[S].state # "none" => batch'[S].id \in disk'
    BY <2>2, <2>3, BatchFields DEF Filed, BatchHasFiles, FilePresent
  <2> QED
    BY <2>3, <2>4 DEF Filed, BatchHasFiles, FilePresent, Idle
<1>4. CASE RegistrationFails
  <2>1. /\ batch' = batch /\ doing' = Idle /\ doing.op = "register"
        /\ disk' = IF doing.created THEN disk \ {doing.id} ELSE disk
    BY <1>4 DEF RegistrationFails
  <2>2. \A S \in Batches : batch[S].state # "none" => batch[S].id \in disk'
    BY <2>1, Zenon DEF Filed, BatchHasFiles, FilePresent
  <2> QED
    BY <2>1, <2>2 DEF Filed, BatchHasFiles, FilePresent, Idle
<1>5. ASSUME NEW X \in Batches, ExportBatch(X) PROVE Filed'
  <2>1. /\ batch' = batch /\ disk' = disk \cup {BatchId(X)}
        /\ doing' = [op |-> "register", batch |-> X, id |-> BatchId(X),
                     created |-> BatchId(X) \notin disk]
    BY <1>5 DEF ExportBatch
  <2>2. doing'.id = BatchId(X) /\ doing'.created = (BatchId(X) \notin disk)
    BY <2>1
  <2>3. /\ \A S \in Batches : batch[S].state # "none" => batch[S].id \in disk
    BY DEF Filed, BatchHasFiles, FilePresent
  <2> QED
    BY <2>1, <2>2, <2>3 DEF Filed, BatchHasFiles, FilePresent
<1>6. ASSUME doing' = Idle, disk' = disk,
             \A S \in Batches : \/ batch'[S] = batch[S]
                                \/ batch[S].state # "none" /\ batch'[S].id = batch[S].id
      PROVE  Filed'
  BY <1>6 DEF Filed, BatchHasFiles, FilePresent, Idle
<1>7. ASSUME NEW X \in Batches, RecordDryRun(X) \/ BeginImport(X) PROVE Filed'
  <2>1. doing' = Idle /\ disk' = disk
    BY <1>7 DEF RecordDryRun, BeginImport, Importing, LockFree
  <2>2. \A S \in Batches : \/ batch'[S] = batch[S]
                           \/ batch[S].state # "none" /\ batch'[S].id = batch[S].id
    BY <1>7, DryRunEffect, BeginEffect, BatchFields
  <2> QED
    BY <1>6, <2>1, <2>2
<1>8. ASSUME NEW X \in Batches, NEW m, Settles(X, m) PROVE Filed'
  <2>1. doing' = Idle /\ disk' = disk
    BY <1>8 DEF Settles, Finalize, LockFree
  <2>2. batch[X].state # "none"
    BY <1>8 DEF Settles, Accepts, ModeAllowed
  <2>3. \A S \in Batches : \/ batch'[S] = batch[S]
                           \/ batch[S].state # "none" /\ batch'[S].id = batch[S].id
    BY <1>8, <2>2, SettlesEffect, BatchFields
  <2> QED
    BY <1>6, <2>1, <2>3
<1>9. ASSUME World \/ LoseReport \/ UNCHANGED vars PROVE UNCHANGED <<batch, disk, doing>>
  BY <1>9 DEF World, FileChanges, Synchronise, TemplateChanges, LoseReport, vars
<1>10. ASSUME SaveProfile \/ MergeDrafts \/ MigrateStore \/ Crash
       PROVE  UNCHANGED <<batch, disk>> /\ doing' = Idle
  BY <1>10 DEF SaveProfile, MergeDrafts, MigrateStore, Crash, LockFree
<1>11. ASSUME NEW v \in Vouchers, NEW d, LoadPage(v) \/ SaveDecision(v, d) \/ Approve(v) \/ Reject(v)
       PROVE  UNCHANGED <<batch, disk, doing>>
  BY <1>11 DEF LoadPage, SaveDecision, Approve, Reject
<1>12. ASSUME NEW S, NEW T, Commit(S, T) \/ EndSession(S) \/ WriteReport(S)
       PROVE  UNCHANGED <<batch, disk, doing>>
  BY <1>12 DEF Commit, EndSession, WriteReport
<1>13. ASSUME NEW A, GenerateVoucherDrafts \/ AppendMappingRule(A) \/ RecomputeDrafts(A)
       PROVE  UNCHANGED <<batch, disk>> /\ (doing' = Idle \/ doing'.op = "merge")
  <2>1. CASE GenerateVoucherDrafts \/ RecomputeDrafts(A)
    BY <2>1 DEF GenerateVoucherDrafts, RecomputeDrafts
  <2>2. CASE AppendMappingRule(A)
    <3> DEFINE drafts == [v \in {w \in A : item[w].status \in RecomputableStatuses} |-> DraftUnder(v, 2)]
    <3>1. UNCHANGED <<batch, disk>>
      BY <2>2 DEF AppendMappingRule
    <3>2. doing' = Idle \/ doing' = [op |-> "merge", drafts |-> drafts]
      BY <2>2 DEF AppendMappingRule
    <3> HIDE DEF drafts
    <3> QED
      BY <3>1, <3>2
  <2> QED
    BY <1>13, <2>1, <2>2
<1>14. ASSUME NEW S, CheckImport(S) PROVE UNCHANGED <<batch, disk>> /\ doing'.op = "begin"
  BY <1>14 DEF CheckImport
<1>15. CASE UNCHANGED <<batch, disk>> /\ doing'.op \in {"merge", "begin"}
  BY <1>15 DEF Filed, BatchHasFiles, FilePresent
<1> QED
  BY <1>1, <1>2, <1>3, <1>4, <1>5, <1>7, <1>8, <1>9, <1>10, <1>11, <1>12, <1>13, <1>15,
     <1>14, FinalizeSettles, DeliverSettles DEF Next, Operator, SecondWrite, Import

\* A batch and its vouchers agree on how far it got, and an import has a file, unless
\* the flush after a replacement fails.
THEOREM BatchesAreTrue == ASSUME "fsync" \notin Allowed PROVE Spec => []BatchesTrue
<1>1. Base /\ Filed => BatchesTrue
  BY BaseTypes, BaseAgrees DEF BatchesTrue, Filed
<1>2. Spec => []Filed
  BY FiledInit, FiledStep, BaseAlways, PTL DEF Spec
<1> QED
  BY <1>1, <1>2, BaseAlways, PTL

-----------------------------------------------------------------------------
(* What the ledger holds and what is said of it.                           *)
Promise == Truthful /\ Orderly /\ LateSound

LEMMA PromiseInit == ASSUME LegacyAssumption PROVE Init => Promise
<1> SUFFICES ASSUME Init PROVE Promise
  OBVIOUS
<1>1. \A v \in Vouchers : item[v] = Absent \/ \E s \in LegacyStatuses : item[v] = LegacyItem(s)
  BY DEF Init
<1>2. \A v \in Vouchers : item[v].batch = NoBatch
  BY <1>1, ItemFields DEF Absent, LegacyItem
<1>3. ASSUME NEW v \in Vouchers, item[v].status = "imported" PROVE ledger[v] = <<item[v].hash>>
  <2>1. ledger[v] = <<Legacy>>
    BY <1>3 DEF Init
  <2>2. item[v].hash = Legacy
    BY <1>1, <1>3, ItemFields DEF Absent, LegacyItem
  <2> QED
    BY <2>1, <2>2
<1>4. Truthful
  BY <1>2, <1>3 DEF Truthful, Init
<1> QED
  BY <1>4 DEF Promise, Orderly, LateSound, Init

\* What is committed was not posted before.
LEMMA CommitOnce ==
  ASSUME Base, Promise, NEW S \in Batches, NEW T \in SUBSET S, Commit(S, T)
  PROVE  \A v \in Vouchers : IF v \in T
                             THEN ledger[v] = <<>> /\ ledger'[v] = <<item[v].hash>>
                             ELSE ledger'[v] = ledger[v]
<1>1. /\ session[S] = "open"
      /\ \A v \in T : item[v].hash \in Hashes
      /\ \A v \in Vouchers : ledger'[v] = IF v \in T THEN Append(ledger[v], item[v].hash)
                                          ELSE ledger[v]
  BY CommitEffect DEF Base
<1>2. \A v \in T : ledger[v] = <<>>
  BY <1>1 DEF Promise, Orderly
<1> QED
  BY <1>1, <1>2, Postings

\* A verdict that is accepted is true, whatever was reported before.
LEMMA Verified ==
  ASSUME Base, Promise, NEW S \in Batches, NEW m, ReportTyped(S, m), Sound(S, m), Accepts(S, m),
         NEW v \in S
  PROVE  /\ Resulting(v, m) = "imported" => ledger[v] = <<item[v].hash>>
         /\ Resulting(v, m) = "import_failed_confirmed" =>
              /\ ledger[v] = <<>>
              /\ item[v].status = "import_failed_confirmed" \/ session[S] \in {"aborted", "ended"}
<1>1. /\ v \in Vouchers /\ batch[S].state # "none"
      /\ item[v].batch # NoBatch
  BY Inhabited DEF Sound, Base, Agreed, NoBatch
<1>2. CASE item[v].status \in ConfirmedStatuses
  <2>1. Resulting(v, m) = item[v].status
    BY <1>2 DEF Resulting
  <2> QED
    BY <1>1, <2>1 DEF Promise, Truthful
<1>3. CASE item[v].status \notin ConfirmedStatuses
  <2>1. Resulting(v, m) = NextStatus(v, m)
    BY <1>3 DEF Resulting
  <2>2. ASSUME NextStatus(v, m) = "imported" PROVE ledger[v] = <<item[v].hash>>
    <3>1. v \in m.signed
      BY <1>3, <2>2 DEF Accepts, ItemAccepts
    <3> QED
      BY <1>1, <3>1 DEF Sound, Evidence, Promise, Truthful
  <2>3. ASSUME NextStatus(v, m) = "import_failed_confirmed"
        PROVE  ledger[v] = <<>> /\ session[S] \in {"aborted", "ended"}
    <3>1. CASE v \in Failed(m)
      <4>1. m.absence
        BY <3>1 DEF Accepts, ObservationsProved
      <4> QED
        BY <3>1, <4>1 DEF Sound, Evidence
    <3>2. CASE m.outcome = "failed_before_commit" /\ m.notTried
      BY <1>1, <3>2 DEF Sound, Evidence, Promise, Orderly
    <3>3. v \in Failed(m) \/ m.outcome = "failed_before_commit"
      BY <2>3 DEF NextStatus, Failed, ReportTyped, Outcomes
    <3>4. m.outcome = "failed_before_commit" => m.notTried \/ Failed(m) = S
      BY DEF Accepts, FailureProved
    <3> QED
      BY <3>1, <3>2, <3>3, <3>4
  <2> QED
    BY <2>1, <2>2, <2>3
<1> QED
  BY <1>2, <1>3

\* The reports that are taken tell the truth.
LEMMA FinalizeSound ==
  ASSUME "earlyread" \notin Allowed, Typed, NEW S \in Batches, FinalizeNow(S)
  PROVE  \E m : Settles(S, m) /\ Sound(S, m)
<1>1. PICK m \in Reports(S) : Settles(S, m)
  BY FinalizeSettles
<1>2. Evidence(S, m)
  BY ReportsHonest
<1>3. batch[S].state # "none"
  BY DEF FinalizeNow, Reportable
<1> QED
  BY <1>1, <1>2, <1>3 DEF Sound

LEMMA DeliverSound ==
  ASSUME Typed, Promise, DeliverReport
  PROVE  \E S \in Batches : \E m : Settles(S, m) /\ Sound(S, m)
BY DeliverSettles DEF Promise, LateSound

LEMMA TruthfulStep ==
  ASSUME "earlyread" \notin Allowed, Base, Promise, [Next]_vars
  PROVE  Truthful'
<1> USE DEF Base
<1> DEFINE True(v) ==
      /\ ledger[v] # <<>> =>
           item[v].status \in {"importing", "import_unknown", "import_failed", "imported"}
      /\ item[v].status = "imported" => ledger[v] = <<item[v].hash>>
      /\ item[v].batch # NoBatch => ledger[v] \in {<<>>, <<item[v].hash>>}
<1>0. (\A v \in Vouchers : True(v)) /\ ((\A v \in Vouchers : True(v)') => Truthful')
  BY DEF Promise, Truthful
<1>1. ASSUME NEW v \in Vouchers, item'[v] = item[v], ledger'[v] = ledger[v] PROVE True(v)'
  BY <1>0, <1>1
<1>2. CASE Redrafted
  <2> SUFFICES ASSUME NEW v \in Vouchers PROVE True(v)'
    BY <1>0
  <2>1. ledger' = ledger
    BY <1>2 DEF Redrafted
  <2>2. CASE item'[v] = item[v]
    BY <1>1, <2>1, <2>2
  <2>3. CASE item'[v] # item[v]
    <3>1. item[v].status \in Unbatched /\ item'[v].status \in Unbatched /\ item'[v].batch = NoBatch
      BY <1>2, <2>3 DEF Redrafted
    <3>2. ledger[v] = <<>>
      BY <1>0, <3>1 DEF Unbatched
    <3> QED
      BY <2>1, <3>1, <3>2 DEF Unbatched
  <2> QED
    BY <2>2, <2>3
<1>3. CASE Registers
  <2> SUFFICES ASSUME NEW v \in Vouchers PROVE True(v)'
    BY <1>0
  <2>1. /\ ledger' = ledger
        /\ \/ item'[v] = item[v]
           \/ item[v].status = "approved" /\ item'[v].status = "exported"
    BY <1>3, RegisterEffect DEF Registers
  <2> QED
    BY <1>0, <1>1, <2>1
<1>4. ASSUME NEW X \in Batches, BeginImport(X) PROVE Truthful'
  <2> SUFFICES ASSUME NEW v \in Vouchers PROVE True(v)'
    BY <1>0
  <2>1. ledger' = ledger
    BY <1>4 DEF BeginImport, Importing
  <2>2. \/ item'[v] = item[v]
        \/ item[v].status = "exported" /\ item'[v].status = "importing"
    BY <1>4, BeginEffect
  <2> QED
    BY <1>0, <1>1, <2>1, <2>2
<1>5. ASSUME NEW X \in Batches, NEW m, Settles(X, m), Sound(X, m) PROVE Truthful'
  <2> SUFFICES ASSUME NEW v \in Vouchers PROVE True(v)'
    BY <1>0
  <2>1. ledger' = ledger
    BY <1>5 DEF Settles, Finalize
  <2>2. CASE v \notin X
    BY <1>1, <1>5, <2>1, <2>2, SettlesEffect
  <2>3. CASE v \in X
    <3>1. /\ item'[v].status = Resulting(v, m) /\ Resulting(v, m) \in Verdict
          /\ item'[v].hash = item[v].hash /\ item'[v].batch = item[v].batch
      BY <1>5, <2>3, SettlesEffect
    <3>2. /\ Resulting(v, m) = "imported" => ledger[v] = <<item[v].hash>>
          /\ Resulting(v, m) = "import_failed_confirmed" => ledger[v] = <<>>
      BY <1>5, <2>3, Verified DEF Settles
    <3> QED
      BY <1>0, <2>1, <3>1, <3>2 DEF Verdict, ConfirmedStatuses
  <2> QED
    BY <2>2, <2>3
<1>6. CASE MigrateStore
  <2> SUFFICES ASSUME NEW v \in Vouchers PROVE True(v)'
    BY <1>0
  <2>1. ledger' = ledger
    BY <1>6 DEF MigrateStore
  <2>2. \/ item'[v] = item[v]
        \/ /\ item[v].status = "import_failed" /\ item'[v].status = "import_unknown"
           /\ item'[v].hash = item[v].hash /\ item'[v].batch = item[v].batch
    BY <1>6, MigrateEffect
  <2> QED
    BY <1>0, <1>1, <2>1, <2>2
<1>7. ASSUME NEW S \in Batches, NEW T \in SUBSET S, Commit(S, T) PROVE Truthful'
  <2> SUFFICES ASSUME NEW v \in Vouchers PROVE True(v)'
    BY <1>0
  <2>1. /\ item' = item /\ session[S] = "open"
        /\ ledger'[v] = IF v \in T THEN <<item[v].hash>> ELSE ledger[v]
    BY <1>7, CommitEffect, CommitOnce
  <2>2. v \in T => item[v].status \in Open
    BY <2>1 DEF Promise, Orderly
  <2> QED
    BY <1>0, <2>1, <2>2 DEF Open
<1>8. CASE item' = item /\ ledger' = ledger
  BY <1>0, <1>1, <1>8
<1>9. \A S \in Batches : RecordDryRun(S) => item' = item
  BY DryRunEffect
<1>10. ledger' = ledger \/ \E S \in Batches : \E T \in SUBSET S : Commit(S, T)
  BY DEF Next, World, Operator, SecondWrite, Import, vars,
     FileChanges, Synchronise, TemplateChanges, SaveProfile, AppendMappingRule,
     GenerateVoucherDrafts, RecomputeDrafts, LoadPage, SaveDecision, Approve, Reject,
     ExportBatch, RecordDryRun, CheckImport, BeginImport, Importing, MigrateStore, MergeDrafts, RegisterBatch,
     RegistrationFails, Crash, EndSession, FinalizeNow, Finalize, WriteReport, DeliverReport, LoseReport
<1> QED
  BY <1>2, <1>3, <1>4, <1>5, <1>6, <1>7, <1>8, <1>9, <1>10, Steps, FinalizeSound,
     DeliverSound DEF Kept

LEMMA OrderlyStep ==
  ASSUME "earlyread" \notin Allowed, Base, Promise, [Next]_vars
  PROVE  Orderly'
<1> USE DEF Base
<1> DEFINE Fits(S) ==
      /\ session[S] \in {"open", "aborted"} => \A v \in S : ledger[v] = <<>>
      /\ session[S] = "open" => \A v \in S : item[v].status \in Open
<1>0. /\ \A S \in Batches : session[S] # "none" => Fits(S) /\ batch[S].state # "none"
      /\ (\A S \in Batches : session'[S] # "none" => Fits(S)') => Orderly'
  BY DEF Promise, Orderly, Begun
<1>1. ASSUME NEW S \in Batches, session'[S] # "none", session'[S] = session[S],
             \A v \in S : ledger'[v] = ledger[v] /\ item'[v].status = item[v].status
      PROVE  Fits(S)'
  BY <1>0, <1>1
<1>2. CASE Redrafted
  <2> SUFFICES ASSUME NEW S \in Batches, session'[S] # "none" PROVE Fits(S)'
    BY <1>0
  <2>1. session' = session /\ ledger' = ledger /\ batch[S].state # "none"
    BY <1>0, <1>2 DEF Redrafted
  <2>2. \A v \in S : item'[v] = item[v]
    BY <1>2, <2>1, Apart DEF Redrafted
  <2> QED
    BY <1>1, <2>1, <2>2
<1>3. CASE Registers
  <2> SUFFICES ASSUME NEW S \in Batches, session'[S] # "none" PROVE Fits(S)'
    BY <1>0
  <2>1. session' = session /\ ledger' = ledger /\ batch[S].state # "none"
    BY <1>0, <1>3 DEF Registers
  <2>2. \A v \in S : v \in Vouchers /\ item[v].status # "approved"
    BY <2>1, Apart DEF Unbatched
  <2>3. \A v \in S : item'[v] = item[v]
    BY <1>3, <2>2, RegisterEffect DEF Registers
  <2> QED
    BY <1>1, <2>1, <2>3
<1>4. ASSUME NEW X \in Batches, BeginImport(X) PROVE Orderly'
  <2> SUFFICES ASSUME NEW S \in Batches, session'[S] # "none" PROVE Fits(S)'
    BY <1>0
  <2>1. ledger' = ledger /\ session' = [session EXCEPT ![X] = "open"]
    BY <1>4 DEF BeginImport, Importing
  <2>2. batch[X].state # "none"
    BY <1>4, BeginEffect
  <2>3. CASE S = X
    <3>1. \A v \in S : v \in Vouchers /\ item[v].status = "exported" /\ item'[v].status = "importing"
      BY <1>4, <2>3, BeginEffect, Inhabited
    <3> QED
      BY <2>1, <3>1 DEF Promise, Truthful, Open
  <2>4. CASE S # X
    <3>1. session'[S] = session[S] /\ batch[S].state # "none"
      BY <1>0, <2>1, <2>4 DEF Typed, Program
    <3>2. \A v \in S : item'[v] = item[v]
      BY <1>4, <2>2, <2>4, <3>1, BeginEffect, Apart
    <3> QED
      BY <1>1, <2>1, <3>1, <3>2
  <2> QED
    BY <2>3, <2>4
<1>5. ASSUME NEW X \in Batches, NEW m, Settles(X, m), Sound(X, m) PROVE Orderly'
  <2> SUFFICES ASSUME NEW S \in Batches, session'[S] # "none" PROVE Fits(S)'
    BY <1>0
  <2>1. session' = session /\ ledger' = ledger /\ batch[S].state # "none" /\ batch[X].state # "none"
    BY <1>0, <1>5 DEF Settles, Finalize, Sound
  <2>2. CASE S # X
    <3>1. \A v \in S : item'[v] = item[v]
      BY <1>5, <2>1, <2>2, SettlesEffect, Apart
    <3> QED
      BY <1>1, <2>1, <3>1
  <2>3. CASE S = X
    <3>1. ASSUME session[S] = "open", NEW v \in S PROVE item'[v].status \in Open
      <4>1. /\ v \in Vouchers /\ item'[v].status = Resulting(v, m) /\ Resulting(v, m) \in Verdict
        BY <1>5, <2>3, <3>1, SettlesEffect, Inhabited
      <4>2. ledger[v] = <<>> /\ item[v].status \in Open
        BY <1>0, <3>1
      <4>3. item[v].hash # NoHash
        BY <4>1, <4>2, HashFacts DEF Typed, Store, Open
      <4>4. Resulting(v, m) \notin ConfirmedStatuses
        BY <1>5, <2>3, <3>1, <4>2, <4>3, Verified DEF Settles, ConfirmedStatuses, Open
      <4> QED
        BY <4>1, <4>4 DEF Verdict, Open
    <3> QED
      BY <1>0, <2>1, <3>1
  <2> QED
    BY <2>2, <2>3
<1>6. CASE MigrateStore
  <2> SUFFICES ASSUME NEW S \in Batches, session'[S] # "none" PROVE Fits(S)'
    BY <1>0
  <2>1. session' = session /\ ledger' = ledger /\ batch[S].state # "none"
    BY <1>0, <1>6 DEF MigrateStore
  <2>2. \A v \in S : v \in Vouchers /\ item[v].status # "import_failed"
    BY <2>1, Apart DEF Verdict, ConfirmedStatuses
  <2>3. \A v \in S : item'[v] = item[v]
    BY <1>6, <2>2, MigrateEffect
  <2> QED
    BY <1>1, <2>1, <2>3
<1>7. ASSUME NEW X \in Batches, NEW T \in SUBSET X, Commit(X, T) PROVE Orderly'
  <2> SUFFICES ASSUME NEW S \in Batches, session'[S] # "none" PROVE Fits(S)'
    BY <1>0
  <2>1. /\ item' = item /\ session[X] = "open"
        /\ session'[S] = IF S = X THEN "tried" ELSE session[S]
        /\ \A v \in Vouchers : ledger'[v] = IF v \in T THEN <<item[v].hash>> ELSE ledger[v]
    BY <1>7, CommitEffect, CommitOnce
  <2>2. CASE S # X
    <3>1. batch[S].state # "none" /\ batch[X].state # "none"
      BY <1>0, <2>1, <2>2
    <3>2. \A v \in S : v \in Vouchers /\ v \notin T
      BY <2>2, <3>1, Apart
    <3> QED
      BY <1>1, <2>1, <2>2, <3>2
  <2> QED
    BY <2>1, <2>2
<1>8. ASSUME NEW X \in Batches, EndSession(X) PROVE Orderly'
  <2> SUFFICES ASSUME NEW S \in Batches, session'[S] # "none" PROVE Fits(S)'
    BY <1>0
  <2>1. /\ item' = item /\ ledger' = ledger
        /\ session' = [session EXCEPT ![X] = IF session[X] = "tried" THEN "ended" ELSE "aborted"]
        /\ session[X] \in {"open", "tried"}
    BY <1>8 DEF EndSession
  <2> QED
    BY <1>0, <1>1, <2>1 DEF Typed, Program
<1>9. CASE UNCHANGED <<item, ledger, session>>
  BY <1>0, <1>1, <1>9
<1>10. \A S \in Batches : RecordDryRun(S) => item' = item
  BY DryRunEffect
<1>11. \/ UNCHANGED <<ledger, session>>
       \/ \E S \in Batches : BeginImport(S) \/ EndSession(S) \/ \E T \in SUBSET S : Commit(S, T)
  BY DEF Next, World, Operator, SecondWrite, Import, vars,
     FileChanges, Synchronise, TemplateChanges, SaveProfile, AppendMappingRule,
     GenerateVoucherDrafts, RecomputeDrafts, LoadPage, SaveDecision, Approve, Reject,
     ExportBatch, RecordDryRun, CheckImport, MigrateStore, MergeDrafts, RegisterBatch,
     RegistrationFails, Crash, FinalizeNow, Finalize, WriteReport, DeliverReport, LoseReport
<1> QED
  BY <1>2, <1>3, <1>4, <1>5, <1>6, <1>7, <1>8, <1>9, <1>10, <1>11, Steps, FinalizeSound,
     DeliverSound DEF Kept

\* Evidence that was true when a report was written stays true.
LEMMA LateStep ==
  ASSUME "earlyread" \notin Allowed, Base, Promise, [Next]_vars
  PROVE  LateSound'
<1> USE DEF Base
<1>1. ASSUME NEW S \in Batches, NEW m, Sound(S, m), ReportTyped(S, m) PROVE Sound(S, m)'
  <2>1. S \subseteq Vouchers
    BY Inhabited
  <2>2. batch'[S].state # "none"
    <3>1. batch[S].state # "none" /\ S \subseteq Vouchers
      BY <1>1, <2>1 DEF Sound
    <3>2. ASSUME NEW X \in Batches, NEW k, Settles(X, k) PROVE batch'[S].state # "none"
      BY <3>1, <3>2, SettlesEffect, BatchFields DEF BatchState
    <3>3. CASE Registers
      BY <3>1, <3>3, RegisterEffect, BatchFields DEF Registers
    <3>4. ASSUME NEW X \in Batches, RecordDryRun(X) \/ BeginImport(X) PROVE batch'[S].state # "none"
      BY <3>1, <3>4, DryRunEffect, BeginEffect, BatchFields
    <3>5. CASE Redrafted \/ MigrateStore \/ Kept
      BY <3>1, <3>5 DEF Redrafted, MigrateStore, Kept
    <3> QED
      BY <3>2, <3>3, <3>4, <3>5, Steps, FinalizeSettles, DeliverSettles
  <2>3. session[S] \in {"aborted", "ended"} => session'[S] = session[S]
    <3>1. ASSUME NEW X \in Batches, BeginImport(X) PROVE X # S \/ session[S] = "none"
      BY <3>1, BeginEffect DEF Begun
    <3>2. ASSUME NEW X \in Batches, BeginImport(X), X # S PROVE session'[S] = session[S]
      BY <3>2 DEF BeginImport, Importing, Typed, Program
    <3>3. ASSUME NEW X \in Batches, NEW T \in SUBSET X, Commit(X, T)
          PROVE  session'[S] = session[S] \/ session[S] = "open"
      BY <3>3, CommitEffect
    <3>4. ASSUME NEW X \in Batches, EndSession(X)
          PROVE  session'[S] = session[S] \/ session[S] \in {"open", "tried"}
      BY <3>4 DEF EndSession, Typed, Program
    <3>5. \/ session' = session
          \/ \E X \in Batches : BeginImport(X) \/ EndSession(X) \/ \E T \in SUBSET X : Commit(X, T)
      BY DEF Next, World, Operator, SecondWrite, Import, vars,
         FileChanges, Synchronise, TemplateChanges, SaveProfile, AppendMappingRule,
         GenerateVoucherDrafts, RecomputeDrafts, LoadPage, SaveDecision, Approve, Reject,
         ExportBatch, RecordDryRun, CheckImport, MigrateStore, MergeDrafts, RegisterBatch,
         RegistrationFails, Crash, FinalizeNow, Finalize, WriteReport, DeliverReport, LoseReport
    <3> QED
      BY <3>1, <3>2, <3>3, <3>4, <3>5
  <2>4. ASSUME NEW v \in S
        PROVE  /\ ledger[v] # <<>> => ledger'[v] # <<>>
               /\ session[S] \in {"aborted", "ended"} => ledger'[v] = ledger[v]
    <3>1. ASSUME NEW X \in Batches, NEW T \in SUBSET X, Commit(X, T), ledger'[v] # ledger[v]
          PROVE  X = S /\ session[S] = "open" /\ ledger'[v] # <<>>
      <4>1. /\ session[X] = "open" /\ v \in T /\ ledger'[v] = <<item[v].hash>>
        BY <2>1, <3>1, CommitEffect, CommitOnce
      <4>2. batch[X].state # "none" /\ v \in X
        BY <4>1 DEF Begun
      <4>3. X = S
        BY <1>1, <4>2, Apart DEF Sound
      <4> QED
        BY <4>1, <4>3
    <3>2. ledger' = ledger \/ \E X \in Batches : \E T \in SUBSET X : Commit(X, T)
      BY DEF Next, World, Operator, SecondWrite, Import, vars,
         FileChanges, Synchronise, TemplateChanges, SaveProfile, AppendMappingRule,
         GenerateVoucherDrafts, RecomputeDrafts, LoadPage, SaveDecision, Approve, Reject,
         ExportBatch, RecordDryRun, CheckImport, BeginImport, Importing, MigrateStore, MergeDrafts, RegisterBatch,
         RegistrationFails, Crash, EndSession, FinalizeNow, Finalize, WriteReport, DeliverReport,
         LoseReport
    <3> QED
      BY <3>1, <3>2
  <2>5. Failed(m) \subseteq S
    BY <1>1 DEF Failed, ReportTyped
  <2> QED
    BY <1>1, <2>2, <2>3, <2>4, <2>5 DEF Sound, Evidence, Failed
<1>2. CASE late' = late
  BY <1>1, <1>2 DEF Promise, LateSound, Typed, Program, ReportTyped
<1>3. CASE late' = NoReport
  BY <1>3 DEF LateSound
<1>4. ASSUME NEW S \in Batches, WriteReport(S) PROVE LateSound'
  <2>1. PICK m \in Reports(S) : late' = [batch |-> S, report |-> m]
    BY <1>4 DEF WriteReport
  <2>2. Sound(S, m) /\ ReportTyped(S, m)
    BY <1>4, ReportsHonest, ReportsTyped DEF WriteReport, Reportable, Sound
  <2>3. Sound(S, m)'
    BY <1>1, <2>2
  <2>4. late'.batch = S /\ late'.report = m
    BY <2>1
  <2> QED
    BY <2>3, <2>4 DEF LateSound
<1>5. late' = late \/ late' = NoReport \/ \E S \in Batches : WriteReport(S)
  BY DEF Next, World, Operator, SecondWrite, Import, vars,
     FileChanges, Synchronise, TemplateChanges, SaveProfile, AppendMappingRule,
     GenerateVoucherDrafts, RecomputeDrafts, LoadPage, SaveDecision, Approve, Reject,
     ExportBatch, RecordDryRun, CheckImport, BeginImport, Importing, MigrateStore, MergeDrafts, RegisterBatch,
     RegistrationFails, Crash, Commit, EndSession, FinalizeNow, Finalize, DeliverReport, LoseReport
<1> QED
  BY <1>2, <1>3, <1>4, <1>5

LEMMA PromiseStep ==
  ASSUME "earlyread" \notin Allowed
  PROVE  Base /\ Promise /\ [Next]_vars => Promise'
BY TruthfulStep, OrderlyStep, LateStep DEF Promise

LEMMA PromiseAlways == ASSUME "earlyread" \notin Allowed PROVE Spec => [](Base /\ Promise)
<1>1. Init => Base /\ Promise
  BY BaseInit, PromiseInit, LegacyAssumption
<1>2. Base /\ Promise /\ [Next]_vars => (Base /\ Promise)'
  BY BaseStep, PromiseStep
<1> QED
  BY <1>1, <1>2, PTL DEF Spec

LEMMA PromiseSettles == Base /\ Promise => Settleable
<1> SUFFICES ASSUME Base, Promise, NEW S \in Batches, Over(S),
                    batch[S].state \in {"applying", "unknown", "partial"}
             PROVE  Accepts(S, Honest(S))
  BY DEF Settleable
<1> DEFINE m == Honest(S)
<1>1. /\ m.mode = "reconcile_only" /\ m.outcome = "partial" /\ m.readback = TRUE
      /\ m.absence = (InLedger(S) # S) /\ m.signed = InLedger(S)
      /\ m.obs = [v \in S |-> IF ledger[v] = <<>> THEN "import_failed_confirmed" ELSE "imported"]
  BY DEF Honest
<1> HIDE DEF m
<1>2. Failed(m) # {} => InLedger(S) # S
  BY <1>1 DEF Failed, InLedger
<1>3. ASSUME NEW v \in S PROVE ItemAccepts(v, m)
  <2>1. /\ v \in Vouchers /\ Shape(S) /\ item[v].status \in StatusesOf(S)
        /\ item[v].hash # NoHash
    <3>1. v \in Vouchers /\ Shape(S) /\ item[v].status \in StatusesOf(S)
      BY Inhabited DEF Base, Agreed, StatusesOf
    <3>2. item[v].status # "absent"
      BY <3>1, Apart DEF Base, Unbatched
    <3> QED
      BY <3>1, <3>2, HashFacts DEF Base, Typed, Store
  <2>2. item[v].status \in ConfirmedStatuses \cup {"importing", "import_unknown"}
    BY <2>1 DEF Shape, Verdict
  <2>3. NextStatus(v, m) = IF ledger[v] = <<>> THEN "import_failed_confirmed" ELSE "imported"
    BY <1>1 DEF NextStatus
  <2>4. item[v].status \in ConfirmedStatuses => NextStatus(v, m) = item[v].status
    <3>1. item[v].status = "imported" => ledger[v] # <<>>
      <4>1. item[v].status = "imported" => ledger[v] = <<item[v].hash>> /\ item[v].hash \in Hashes
        BY <2>1 DEF Promise, Truthful, Base, Typed, Store
      <4> QED
        BY <4>1, Postings
    <3>2. item[v].status = "import_failed_confirmed" => ledger[v] = <<>>
      BY <2>1 DEF Promise, Truthful
    <3> QED
      BY <2>3, <3>1, <3>2 DEF ConfirmedStatuses
  <2>5. NextStatus(v, m) = "imported" => v \in m.signed
    BY <1>1, <2>3 DEF InLedger
  <2> QED
    BY <2>2, <2>4, <2>5 DEF ItemAccepts
<1>4. ModeAllowed(S, m) /\ SuccessProved(S, m) /\ FailureProved(S, m)
  BY <1>1 DEF ModeAllowed, SuccessProved, FailureProved
<1>5. ObservationsProved(m)
  BY <1>1, <1>2, Zenon DEF ObservationsProved
<1> QED
  BY <1>3, <1>4, <1>5 DEF Accepts, m

\* Once the session of an import is over it can be settled, whatever was reported before.
THEOREM AlwaysSettleable == ASSUME "earlyread" \notin Allowed PROVE Spec => []Settleable
BY PromiseAlways, PromiseSettles, PTL

-----------------------------------------------------------------------------
(* The bookkeeping implements its promise.                                 *)
LEMMA StageKept ==
  ASSUME NEW v \in Vouchers,
         \/ item'[v].status = item[v].status
         \/ {item[v].status, item'[v].status} \subseteq EditableStatuses \cup {"absent"}
         \/ {item[v].status, item'[v].status} \subseteq {"approved", "exported"}
         \/ {item[v].status, item'[v].status} \subseteq {"importing", "import_unknown", "import_failed"},
         Stage(v) = "open" \/ item'[v].hash = item[v].hash
  PROVE  Stage(v)' = Stage(v) /\ Content(v)' = Content(v)
<1>1. Stage(v)' = Stage(v)
  <2>1. CASE item'[v].status = item[v].status
    BY <2>1 DEF Stage
  <2>2. CASE {item[v].status, item'[v].status} \subseteq EditableStatuses \cup {"absent"}
    BY <2>2 DEF Stage, EditableStatuses
  <2>3. CASE {item[v].status, item'[v].status} \subseteq {"approved", "exported"}
    BY <2>3 DEF Stage, EditableStatuses
  <2>4. CASE {item[v].status, item'[v].status} \subseteq {"importing", "import_unknown", "import_failed"}
    BY <2>4 DEF Stage, EditableStatuses
  <2> QED
    BY <2>1, <2>2, <2>3, <2>4
<1> QED
  BY <1>1 DEF Content

LEMMA LedgerStutters ==
  ASSUME ledger' = ledger, \A v \in Vouchers : Stage(v)' = Stage(v) /\ Content(v)' = Content(v)
  PROVE  UNCHANGED Ledger!vars
BY DEF Ledger!vars

LEMMA LedgerInit == Base /\ Promise => Ledger!Init
<1> SUFFICES ASSUME Base, Promise PROVE Ledger!Init
  OBVIOUS
<1>1. ASSUME NEW v \in Vouchers
      PROVE  /\ Stage(v) \in Ledger!Stages /\ Content(v) \in Hashes \cup {NoHash}
             /\ Stage(v) = "posted" => ledger[v] = <<Content(v)>>
             /\ Stage(v) \in {"open", "approved", "absent"} => ledger[v] = <<>>
  <2>1. item[v].status \in Statuses /\ (item[v].status # "absent" => item[v].hash \in Hashes)
    BY DEF Base, Typed, Store, Items
  <2>2. Stage(v) \in Ledger!Stages
    BY <2>1 DEF Stage, Ledger!Stages, Statuses, LockedStatuses, EditableStatuses
  <2>3. Content(v) \in Hashes \cup {NoHash}
    BY <2>1 DEF Content, Stage, EditableStatuses
  <2>4. Stage(v) = "posted" => item[v].status = "imported"
    BY <2>1 DEF Stage, Statuses, LockedStatuses, EditableStatuses
  <2>5. Stage(v) \in {"open", "approved", "absent"}
          => item[v].status \notin {"importing", "import_unknown", "import_failed", "imported"}
    BY <2>1 DEF Stage, EditableStatuses
  <2> QED
    BY <2>2, <2>3, <2>4, <2>5 DEF Content, Promise, Truthful
<1>2. ledger \in [Vouchers -> Seq(Hashes)]
  BY DEF Base, Typed, Program
<1> QED
  BY <1>1, <1>2 DEF Ledger!Init, Ledger!TypeOK, Ledger!Truth

LEMMA LedgerStep ==
  ASSUME "earlyread" \notin Allowed, Base, Promise, [Next]_vars
  PROVE  [Ledger!Next]_(Ledger!vars)
<1> USE DEF Base
<1> DEFINE Same(v) == Stage(v)' = Stage(v) /\ Content(v)' = Content(v)
<1>1. ASSUME UNCHANGED <<item, ledger>> PROVE UNCHANGED Ledger!vars
  BY <1>1, LedgerStutters DEF Stage, Content
<1>2. CASE MergeDrafts
  <2>1. ledger' = ledger
    BY <1>2 DEF MergeDrafts
  <2>2. ASSUME NEW v \in Vouchers PROVE Same(v)
    <3>1. \/ item'[v] = item[v]
          \/ /\ item[v].status \in Statuses \ (LockedStatuses \cup {"review_pending"})
             /\ item'[v].status = "draft"
      BY <1>2, ItemFields DEF MergeDrafts, Merged, Typed, Store, Items
    <3>2. CASE item'[v] = item[v]
      BY <3>2, StageKept
    <3>3. CASE item'[v] # item[v]
      <4>1. {item[v].status, item'[v].status} \subseteq EditableStatuses \cup {"absent"}
        BY <3>1, <3>3 DEF EditableStatuses, Statuses, LockedStatuses
      <4>2. Stage(v) = "open"
        BY <4>1 DEF Stage, EditableStatuses
      <4> QED
        BY <4>1, <4>2, StageKept
    <3> QED
      BY <3>2, <3>3
  <2> QED
    BY <2>1, <2>2, LedgerStutters
<1>3. ASSUME NEW w \in Vouchers, NEW d \in {"full", "open"}, SaveDecision(w, d) \/ Reject(w)
      PROVE  UNCHANGED Ledger!vars
  <2>1. /\ ledger' = ledger /\ item[w].status \in EditableStatuses
        /\ item' = [item EXCEPT ![w] = Item("review_pending", Decided(w, d), NoHash, NoBatch)]
             \/ item' = [item EXCEPT ![w] = WithStatus(item[w], "rejected")]
    BY <1>3 DEF SaveDecision, Reject, EditableStatuses
  <2>2. /\ item'[w].status \in {"review_pending", "rejected"}
        /\ \A v \in Vouchers \ {w} : item'[v] = item[v]
    <3>1. item \in [Vouchers -> Items]
      BY DEF Typed, Store
    <3>2. /\ item'[w] = Item("review_pending", Decided(w, d), NoHash, NoBatch)
               \/ item'[w] = Item("rejected", item[w].hash, item[w].appr, item[w].batch)
          /\ \A v \in Vouchers \ {w} : item'[v] = item[v]
      BY <2>1, <3>1 DEF WithStatus
    <3> QED
      BY <3>2, ItemFields
  <2>3. Stage(w) = "open"
    BY <2>1 DEF Stage, EditableStatuses
  <2>4. Same(w)
    BY <2>1, <2>2, <2>3, StageKept DEF EditableStatuses
  <2>5. \A v \in Vouchers \ {w} : Same(v)
    BY <2>2, StageKept
  <2> QED
    BY <2>1, <2>4, <2>5, LedgerStutters
<1>4. ASSUME NEW w \in Vouchers, Approve(w) PROVE Ledger!Approve(w)
  <2>1. /\ item[w].status = "review_pending" /\ item'[w].status = "approved"
        /\ item'[w].hash \in Hashes
        /\ \A v \in Vouchers \ {w} : item'[v] = item[v]
    BY <1>4, ApproveEffect
  <2>2. ledger' = ledger
    BY <1>4 DEF Approve
  <2>3. Stage(w) = "open" /\ Stage(w)' = "approved" /\ Content(w)' = item'[w].hash
    BY <2>1 DEF Stage, Content, EditableStatuses
  <2>4. \A v \in Vouchers \ {w} : Same(v)
    BY <2>1, StageKept
  <2> QED
    BY <2>1, <2>2, <2>3, <2>4 DEF Ledger!Approve
<1>5. CASE Registers
  <2>1. ASSUME NEW v \in Vouchers PROVE Same(v)
    <3>1. \/ item'[v] = item[v]
          \/ /\ item[v].status = "approved" /\ item'[v].status = "exported"
             /\ item'[v].hash = item[v].hash
      BY <1>5, RegisterEffect DEF Registers
    <3> QED
      BY <3>1, StageKept
  <2> QED
    BY <1>5, <2>1, LedgerStutters DEF Registers
<1>6. ASSUME NEW X \in Batches, BeginImport(X) PROVE Ledger!Submit
  <2>1. ledger' = ledger
    BY <1>6 DEF BeginImport, Importing
  <2>2. ASSUME NEW v \in Vouchers
        PROVE  /\ Content(v)' = Content(v)
               /\ Stage(v)' = Stage(v) \/ (Stage(v) = "approved" /\ Stage(v)' = "submitted")
    <3>1. \/ item'[v] = item[v]
          \/ /\ item[v].status = "exported" /\ item'[v].status = "importing"
             /\ item'[v].hash = item[v].hash
      BY <1>6, BeginEffect
    <3> QED
      BY <3>1 DEF Stage, Content, EditableStatuses
  <2> QED
    BY <2>1, <2>2 DEF Ledger!Submit
<1>7. ASSUME NEW X \in Batches, NEW m, Settles(X, m), Sound(X, m) PROVE Ledger!Settle
  <2>1. ledger' = ledger
    BY <1>7 DEF Settles, Finalize
  <2>2. ASSUME NEW v \in Vouchers
        PROVE  /\ Content(v)' = Content(v)
               /\ \/ Stage(v)' = Stage(v)
                  \/ Stage(v) = "submitted" /\ ledger[v] = <<Content(v)>> /\ Stage(v)' = "posted"
                  \/ Stage(v) = "submitted" /\ ledger[v] = <<>> /\ Stage(v)' = "absent"
    <3>1. CASE v \notin X
      <4>1. item'[v] = item[v]
        BY <1>7, <3>1, SettlesEffect
      <4> QED
        BY <4>1, StageKept
    <3>2. CASE v \in X
      <4>1. /\ item[v].status \in Verdict \cup {"importing"}
            /\ item'[v].status = Resulting(v, m) /\ Resulting(v, m) \in Verdict
            /\ item[v].status \in ConfirmedStatuses => item'[v].status = item[v].status
            /\ item'[v].hash = item[v].hash
        BY <1>7, <3>2, SettlesEffect
      <4>2. /\ Resulting(v, m) = "imported" => ledger[v] = <<item[v].hash>>
            /\ Resulting(v, m) = "import_failed_confirmed" => ledger[v] = <<>>
        BY <1>7, <3>2, Verified DEF Settles
      <4>3. CASE item'[v].status = item[v].status
        BY <4>1, <4>3, StageKept
      <4>4. CASE item'[v].status # item[v].status
        <5>1. Stage(v) = "submitted" /\ Content(v) = item[v].hash
          BY <4>1, <4>4 DEF Stage, Content, Verdict, EditableStatuses
        <5>2. /\ Resulting(v, m) = "imported" => Stage(v)' = "posted"
              /\ Resulting(v, m) = "import_failed_confirmed" => Stage(v)' = "absent"
              /\ Resulting(v, m) = "import_unknown" => Stage(v)' = "submitted"
          BY <4>1 DEF Stage, EditableStatuses
        <5>3. Content(v)' = item[v].hash
          BY <4>1, <5>2 DEF Content, Verdict, ConfirmedStatuses
        <5> QED
          BY <4>1, <4>2, <5>1, <5>2, <5>3 DEF Verdict, ConfirmedStatuses
      <4> QED
        BY <4>3, <4>4
    <3> QED
      BY <3>1, <3>2
  <2> QED
    BY <2>1, <2>2 DEF Ledger!Settle
<1>8. CASE MigrateStore
  <2>1. ASSUME NEW v \in Vouchers PROVE Same(v)
    <3>1. \/ item'[v] = item[v]
          \/ /\ item[v].status = "import_failed" /\ item'[v].status = "import_unknown"
             /\ item'[v].hash = item[v].hash
      BY <1>8, MigrateEffect
    <3> QED
      BY <3>1, StageKept
  <2> QED
    BY <1>8, <2>1, LedgerStutters DEF MigrateStore
<1>9. ASSUME NEW X \in Batches, NEW T \in SUBSET X, Commit(X, T) PROVE Ledger!Post
  <2>1. /\ item' = item /\ session[X] = "open"
        /\ \A v \in Vouchers : ledger'[v] = IF v \in T THEN <<item[v].hash>> ELSE ledger[v]
    BY <1>9, CommitEffect, CommitOnce
  <2>2. \A v \in Vouchers : Same(v)
    BY <2>1, StageKept
  <2>3. ASSUME NEW v \in T
        PROVE  Stage(v) = "submitted" /\ ledger[v] = <<>> /\ Content(v) = item[v].hash
    <3>1. item[v].status \in Open /\ ledger[v] = <<>>
      BY <2>1 DEF Promise, Orderly
    <3> QED
      BY <3>1 DEF Stage, Content, Open, EditableStatuses
  <2> QED
    BY <2>1, <2>2, <2>3 DEF Ledger!Post
<1> HIDE DEF Same
<1>10. ASSUME World \/ SaveProfile \/ GenerateVoucherDrafts \/ Crash \/ LoseReport \/ UNCHANGED vars
       PROVE  UNCHANGED Ledger!vars
  BY <1>1, <1>10 DEF World, FileChanges, Synchronise, TemplateChanges, SaveProfile,
     GenerateVoucherDrafts, Crash, LoseReport, vars
<1>11. ASSUME NEW A, AppendMappingRule(A) \/ RecomputeDrafts(A) \/ LoadPage(A)
       PROVE  UNCHANGED Ledger!vars
  BY <1>1, <1>11 DEF AppendMappingRule, RecomputeDrafts, LoadPage
<1>12. ASSUME NEW S, ExportBatch(S) \/ CheckImport(S) \/ RecordDryRun(S) \/ EndSession(S) \/ WriteReport(S)
       PROVE  UNCHANGED Ledger!vars
  BY <1>1, <1>12 DEF ExportBatch, CheckImport, RecordDryRun, EndSession, WriteReport
<1>13. ASSUME RegisterBatch \/ RegistrationFails PROVE Registers \/ UNCHANGED Ledger!vars
  BY <1>1, <1>13 DEF RegisterBatch, RegistrationFails, Registers
<1>14. CASE UNCHANGED Ledger!vars
  BY <1>14
<1>15. CASE Registers
  BY <1>5, <1>15
<1>16. ASSUME NEW S \in Batches, FinalizeNow(S) PROVE Ledger!Settle
  BY <1>7, <1>16, FinalizeSound
<1>17. ASSUME DeliverReport PROVE Ledger!Settle
  BY <1>7, <1>17, DeliverSound
<1> QED
  BY <1>2, <1>3, <1>4, <1>5, <1>6, <1>8, <1>9, <1>10, <1>11, <1>12, <1>13, <1>16, <1>17
     DEF Next, Operator, SecondWrite, Import, Ledger!Next

\* What the accounting program holds was approved and submitted, is posted once, and a
\* confirmed verdict about it is true and final.
THEOREM ImplementsPromise == ASSUME "earlyread" \notin Allowed PROVE Spec => KeepsPromise
<1>1. Spec => Ledger!Init
  BY PromiseAlways, LedgerInit, PTL
<1>2. Base /\ Promise /\ [Next]_vars => [Ledger!Next]_(Ledger!vars)
  BY LedgerStep
<1>3. Spec => [][Ledger!Next]_(Ledger!vars)
  BY <1>2, PromiseAlways, PTL DEF Spec
<1> QED
  BY <1>1, <1>3 DEF KeepsPromise, Ledger!Spec

\* Nothing is posted but what was submitted, and what is settled is settled rightly.
THEOREM VerdictsAreTrue == ASSUME "earlyread" \notin Allowed PROVE Spec => []Ledger!Truth
<1>1. Base /\ Promise => Ledger!Truth
  BY LedgerInit DEF Ledger!Init
<1> QED
  BY <1>1, PromiseAlways, PTL
=============================================================================
