---------------------------- MODULE ProfileSync ----------------------------
(***************************************************************************)
(* The synchroniser of one TargetProfile: what run_sync (the monitor       *)
(* daemon and the startup child), bridge_rebuild (the manual rebuild) and  *)
(* update_manual_fields (an edit in the detail page) do to the files of a  *)
(* profile, while the user changes invoices and edits the summary workbook *)
(* in Excel, writes fail and processes die.                                *)
(*                                                                         *)
(* The three jobs hold sync_write_lock from their first read to their last *)
(* write, so at most one of them runs: pc is the place of that job, "free" *)
(* when nobody holds the lock.  Every read or write of a file that another *)
(* actor can interleave with is a step of its own.                         *)
(*                                                                         *)
(* A file signature (mtime_ns, size) is the tick of clock at which the     *)
(* file was last written, 0 when the file is not there.  A value extracted *)
(* from an invoice is the signature it was extracted from (0 is the blank  *)
(* an unreadable file yields); a value a person types is in Manual.        *)
(***************************************************************************)
EXTENDS Naturals, FiniteSets

CONSTANTS
  Files,        \* paths of invoice files under watch_dir
  Fields,       \* EDITABLE_FIELDS: the fields a person may override
  Manual,       \* values a person may type
  None,         \* no override for a field
  NoRow,        \* no row for a file in a table
  Unseen,       \* no entry for a file in processed_files.json
  Allowed,      \* what this instance lets the environment do, of Hazards
  MaxClock,     \* bound: changes of invoice files
  MaxEdits,     \* bound: edits by the user
  MaxFaults     \* bound: crashes and failed writes

(***************************************************************************)
(* The names of what the environment may do beyond calling the operations: *)
(*   race        a file changes between its extraction and the snapshot    *)
(*               that records its signature as processed                   *)
(*   brief       a file the cost analysis has read and the summary has not *)
(*               is deleted                                                *)
(*   unreadable  the extraction of a file that is there reads nothing      *)
(*   excelrace   the workbook is saved from Excel while a job runs         *)
(*   pendingRebuild, pendingPatch  that job starts while the workbook      *)
(*               holds an edit no sync has absorbed                        *)
(*   partial     a PATCH names only the field that changed                 *)
(*   ioerror     a write raises OSError;   crash  the process is killed    *)
(***************************************************************************)
Hazards == {"race", "brief", "unreadable", "excelrace", "pendingRebuild",
            "pendingPatch", "partial", "ioerror", "crash"}

Value == Manual \cup Nat
Row   == [ver : Nat, val : [Fields -> Value]]

ASSUME ConstantsAssumption ==
  /\ Allowed \subseteq Hazards
  /\ MaxClock \in Nat /\ MaxEdits \in Nat /\ MaxFaults \in Nat
  /\ None \notin Nat \cup Manual
  /\ Unseen \notin Nat /\ NoRow \notin Row
  /\ Manual \cap Nat = {}

VARIABLES
  disk,       \* signature of each invoice file, 0 when it is not there
  clock,      \* the last signature given out
  csv, xlsx,  \* the rows of the two summary files
  overrides,  \* manual_overrides.json
  processed,  \* processed_files.json: the signature recorded for each file
  detail,     \* the cost detail csv: the signature each file was read at
  book,       \* the same for the check rows of the cost workbook
  made,       \* which of the output files exist
  torn,       \* which of them an interrupted write left unreadable
  status,     \* monitor_status.json: status
  op, pc,     \* the job that holds the lock and where it is
  todo,       \* files build_summary has still to extract (PATCH: its file)
  buf,        \* rows held in memory by the job
  ovrBuf,     \* overrides held in memory
  sigBuf,     \* signatures held in memory (cost rows, then processed)
  edited,     \* manual_changed of the running sync
  edits, faults,  \* counted against MaxEdits and MaxFaults
  intent,     \* history: the last value the user gave a field, else None
  typed       \* history: every <<file, field, value>> a person submitted

sources == <<disk, clock>>
tables  == <<csv, xlsx, detail, book, made, torn>>
states  == <<overrides, processed, status>>
job     == <<op, pc, todo, buf, ovrBuf, sigBuf, edited>>
user    == <<edits, faults, intent, typed>>
vars    == <<sources, tables, states, job, user>>

Outputs == {"csv", "xlsx", "detail", "book"}
Table   == [Files -> Row \cup {NoRow}]
Override == [Fields -> Value \cup {None}]

AbsorbPcs == {"absorbCsv", "absorbXlsx", "absorbOvr"}
CsvPcs    == {"absorbCsv", "csv", "applyCsv", "fieldsCsv"}
XlsxPcs   == {"absorbXlsx", "xlsx", "applyXlsx", "fieldsXlsx"}
OvrPcs    == {"absorbOvr", "fieldsOvr"}
DetailPcs == {"detail", "schemaDetail"}
BookPcs   == {"book", "schemaBook"}
WritePcs  == CsvPcs \cup XlsxPcs \cup OvrPcs \cup DetailPcs \cup BookPcs
               \cup {"save"}
ReadPcs   == {"absorb", "detect", "list", "extract", "apply", "cost",
              "snapshot", "done"}
Pcs       == WritePcs \cup ReadPcs \cup {"free"}

TypeOK ==
  /\ disk \in [Files -> Nat] /\ clock \in Nat
  /\ csv \in Table /\ xlsx \in Table
  /\ overrides \in [Files -> Override]
  /\ processed \in [Files -> Nat \cup {Unseen}]
  /\ detail \in [Files -> Nat] /\ book \in [Files -> Nat]
  /\ made \subseteq Outputs /\ torn \subseteq Outputs
  /\ status \in {"none", "syncing", "idle", "failed"}
  /\ op \in {"none", "sync", "rebuild", "fields"} /\ pc \in Pcs
  /\ todo \subseteq Files /\ buf \in Table
  /\ ovrBuf \in [Files -> Override]
  /\ sigBuf \in [Files -> Nat \cup {Unseen}]
  /\ edited \in BOOLEAN
  /\ edits \in Nat /\ faults \in Nat
  /\ intent \in [Files -> Override]
  /\ typed \subseteq Files \X Fields \X Value

NoTable     == [f \in Files |-> NoRow]
NoOverrides == [f \in Files |-> [d \in Fields |-> None]]
NoSigs      == [f \in Files |-> 0]

(* A profile that was never synchronised, with any invoices in its folder. *)
Init ==
  /\ disk \in [Files -> {0, 1}] /\ clock = 1
  /\ csv = NoTable /\ xlsx = NoTable
  /\ overrides = NoOverrides
  /\ processed = [f \in Files |-> Unseen]
  /\ detail = NoSigs /\ book = NoSigs
  /\ made = {} /\ torn = {}
  /\ status = "none"
  /\ op = "none" /\ pc = "free" /\ todo = {}
  /\ buf = NoTable /\ ovrBuf = NoOverrides /\ sigBuf = NoSigs
  /\ edited = FALSE
  /\ edits = 0 /\ faults = 0
  /\ intent = NoOverrides /\ typed = {}

-----------------------------------------------------------------------------
(* The environment: the invoice folder and Excel.                          *)

(* The job has extracted f and has not yet recorded its signature.         *)
Extracted(f) ==
  \/ pc \in {"extract", "csv", "xlsx"} /\ op # "fields" /\ buf[f] # NoRow
  \/ pc \in {"apply", "applyCsv", "applyXlsx", "cost", "detail", "book",
             "snapshot"} /\ csv[f] # NoRow

(* An invoice file appears or is saved again: a signature never seen.      *)
SaveFile(f) ==
  /\ clock < MaxClock
  /\ "race" \in Allowed \/ ~Extracted(f)
  /\ clock' = clock + 1
  /\ disk' = [disk EXCEPT ![f] = clock + 1]
  /\ UNCHANGED <<tables, states, job, user>>

(* The cost analysis has read f, the summary was listed before it came.    *)
CostOnly(f) ==
  /\ csv[f] = NoRow
  /\ detail[f] # 0 \/ (pc \in {"detail", "book"} /\ sigBuf[f] # 0)

DeleteFile(f) ==
  /\ disk[f] # 0
  /\ "brief" \in Allowed \/ ~CostOnly(f)
  /\ disk' = [disk EXCEPT ![f] = 0]
  /\ UNCHANGED <<clock, tables, states, job, user>>

(* A row of the same invoice with other values in its editable fields.     *)
WithVal(row, val) == [ver |-> row.ver, val |-> val]

Readable(o) == o \in made \ torn

(* The user changes one cell of the summary workbook and saves it.         *)
ExcelSave(f, d, v) ==
  /\ edits < MaxEdits
  /\ pc = "free" \/ "excelrace" \in Allowed
  /\ Readable("xlsx") /\ xlsx[f] # NoRow /\ xlsx[f].val[d] # v
  /\ xlsx' = [xlsx EXCEPT ![f] = WithVal(@, [@.val EXCEPT ![d] = v])]
  /\ edits' = edits + 1
  /\ intent' = [intent EXCEPT ![f][d] = v]
  /\ typed' = typed \cup {<<f, d, v>>}
  /\ UNCHANGED <<sources, csv, detail, book, made, torn, states, job, faults>>

-----------------------------------------------------------------------------
(* Starting a job: the lock is free and the job takes it.                  *)

StartSync ==
  /\ pc = "free"
  /\ op' = "sync" /\ pc' = "absorb"
  /\ status' = "syncing"
  /\ UNCHANGED <<sources, tables, overrides, processed, todo, buf, ovrBuf,
                 sigBuf, edited, user>>

(* Mutant: every field of the workbook is taken for an edit.               *)
Diff_AllFields(f) ==
  IF Readable("xlsx") /\ "csv" \in made /\ xlsx[f] # NoRow /\ csv[f] # NoRow
  THEN Fields ELSE {}

(* Mutant: a row of a file that has changed meanwhile is not compared.     *)
Diff_SameFile(f) ==
  IF Readable("xlsx") /\ "csv" \in made /\ xlsx[f] # NoRow /\ csv[f] # NoRow /\ csv[f].ver = disk[f]
  THEN {d \in Fields : xlsx[f].val[d] # csv[f].val[d]}
  ELSE {}

(* The fields in which the workbook differs from the csv, row by row.      *)
Diff(f) ==
  IF Readable("xlsx") /\ "csv" \in made /\ xlsx[f] # NoRow /\ csv[f] # NoRow
  THEN {d \in Fields : xlsx[f].val[d] # csv[f].val[d]}
  ELSE {}

PendingEdit == \E f \in Files : Diff(f) # {}

StartRebuild ==
  /\ pc = "free"
  /\ "pendingRebuild" \in Allowed \/ ~PendingEdit
  /\ op' = "rebuild" /\ pc' = "list"
  /\ UNCHANGED <<sources, tables, states, todo, buf, ovrBuf, sigBuf, edited,
                 user>>

(* What list_invoices shows for a field: the override over the csv.        *)
Shown(f, d) == IF overrides[f][d] # None THEN overrides[f][d]
                                         ELSE csv[f].val[d]

(* A PATCH sets field d of f to v.  The detail page submits every field as *)
(* shown; the route takes any subset.  The override of f is replaced by    *)
(* the submitted fields, the row keeps the others.                         *)
StartPatch(f, d, v, names) ==
  LET sent(e) == IF e = d THEN v ELSE Shown(f, e) IN
  /\ pc = "free" /\ edits < MaxEdits
  /\ "pendingPatch" \in Allowed \/ ~PendingEdit
  /\ csv[f] # NoRow
  /\ names = Fields \/ ("partial" \in Allowed /\ names = {d})
  /\ buf' = [csv EXCEPT ![f] = WithVal(@,
               [e \in Fields |-> IF e \in names THEN sent(e) ELSE @.val[e]])]
  /\ ovrBuf' = [overrides EXCEPT ![f] =
                  [e \in Fields |-> IF e \in names THEN sent(e) ELSE None]]
  /\ op' = "fields" /\ pc' = "fieldsOvr" /\ todo' = {f}
  /\ edits' = edits + 1
  /\ intent' = [intent EXCEPT ![f][d] = v]
  /\ typed' = typed \cup {<<f, e, sent(e)>> : e \in names}
  /\ UNCHANGED <<sources, tables, states, sigBuf, edited, faults>>

-----------------------------------------------------------------------------
(* Writes.                                                                 *)

(* The order in which a job writes: where it goes after each write.        *)
Order == [absorbCsv |-> "absorbXlsx", absorbXlsx |-> "absorbOvr",
          absorbOvr |-> "detect",
          csv |-> "xlsx", xlsx |-> "apply",
          applyCsv |-> "applyXlsx", applyXlsx |-> "cost",
          detail |-> "book", book |-> "snapshot",
          schemaDetail |-> "schemaBook", schemaBook |-> "done",
          fieldsOvr |-> "fieldsCsv", fieldsCsv |-> "fieldsXlsx",
          fieldsXlsx |-> "done"]

After(p) == Order[p]

(* write_csv_rows: a temporary file, then os.replace.                      *)
WriteCsv ==
  /\ pc \in CsvPcs
  /\ csv' = buf /\ made' = made \cup {"csv"}
  /\ pc' = After(pc)
  /\ UNCHANGED <<sources, xlsx, detail, book, torn, states, op, todo, buf,
                 ovrBuf, sigBuf, edited, user>>

(* write_summary_xlsx: the workbook is overwritten in place.               *)
WriteXlsx ==
  /\ pc \in XlsxPcs
  /\ xlsx' = buf /\ made' = made \cup {"xlsx"} /\ torn' = torn \ {"xlsx"}
  /\ pc' = After(pc)
  /\ UNCHANGED <<sources, csv, detail, book, states, op, todo, buf, ovrBuf,
                 sigBuf, edited, user>>

WriteOverrides ==
  /\ pc \in OvrPcs
  /\ overrides' = ovrBuf
  /\ pc' = After(pc)
  /\ UNCHANGED <<sources, tables, processed, status, op, todo, buf, ovrBuf,
                 sigBuf, edited, user>>

(* The cost outputs: the rows of this analysis or, in a schema refresh,    *)
(* the rows that can be read back, under the current header.               *)
WriteDetail ==
  /\ pc \in DetailPcs
  /\ detail' = IF pc = "detail" THEN sigBuf ELSE detail
  /\ made' = made \cup {"detail"} /\ torn' = torn \ {"detail"}
  /\ pc' = After(pc)
  /\ UNCHANGED <<sources, csv, xlsx, book, states, op, todo, buf, ovrBuf,
                 sigBuf, edited, user>>

WriteBook ==
  /\ pc \in BookPcs
  /\ book' = IF pc = "book" THEN sigBuf ELSE book
  /\ made' = made \cup {"book"} /\ torn' = torn \ {"book"}
  /\ pc' = After(pc)
  /\ UNCHANGED <<sources, csv, xlsx, detail, states, op, todo, buf, ovrBuf,
                 sigBuf, edited, user>>

SaveProcessed ==
  /\ pc = "save"
  /\ processed' = sigBuf
  /\ pc' = "done"
  /\ UNCHANGED <<sources, tables, overrides, status, op, todo, buf, ovrBuf,
                 sigBuf, edited, user>>

-----------------------------------------------------------------------------
(* run_sync before the rebuild.                                            *)

(* sync_excel_manual_edits reads both tables and the overrides.            *)
AbsorbNothing ==
  /\ pc = "absorb" /\ ~PendingEdit
  /\ pc' = "detect"
  /\ UNCHANGED <<sources, tables, states, op, todo, buf, ovrBuf, sigBuf,
                 edited, user>>

AbsorbEdits ==
  /\ pc = "absorb" /\ PendingEdit
  /\ buf' = [f \in Files |->
               IF csv[f] = NoRow THEN NoRow
               ELSE WithVal(csv[f],
                      [d \in Fields |-> IF d \in Diff(f) THEN xlsx[f].val[d]
                                                         ELSE csv[f].val[d]])]
  /\ ovrBuf' = [f \in Files |->
                  [d \in Fields |-> IF d \in Diff(f) THEN xlsx[f].val[d]
                                                     ELSE overrides[f][d]]]
  /\ edited' = TRUE
  /\ pc' = "absorbCsv"
  /\ UNCHANGED <<sources, tables, states, op, todo, sigBuf, user>>

(* The signature detect_source_changes sees: no entry for an absent file.  *)
Seen(f) == IF disk[f] = 0 THEN Unseen ELSE disk[f]

(* Mutants: only files that are there, only files not seen yet.            *)
SourceChanged_NoDeleted == \E f \in Files : disk[f] # 0 /\ processed[f] # disk[f]
SourceChanged_OnlyAdded == \E f \in Files : disk[f] # 0 /\ processed[f] = Unseen

SourceChanged == \E f \in Files : processed[f] # Seen(f)
SummaryMissing == ~({"csv", "xlsx"} \subseteq made)
SummaryStale   == "xlsx" \in torn
CostMissing    == ~({"detail", "book"} \subseteq made)
CostStale      == torn \cap {"detail", "book"} # {}

MustRebuild == SourceChanged \/ SummaryMissing \/ SummaryStale
                 \/ CostMissing \/ edited

Detect ==
  /\ pc = "detect"
  /\ pc' = IF MustRebuild THEN "list"
           ELSE IF CostStale THEN "schemaDetail"
           ELSE "done"
  /\ UNCHANGED <<sources, tables, states, op, todo, buf, ovrBuf, sigBuf,
                 edited, user>>

-----------------------------------------------------------------------------
(* The rebuild, the same in run_sync and bridge_rebuild.                   *)

ListFiles ==
  /\ pc = "list"
  /\ todo' = {f \in Files : disk[f] # 0}
  /\ buf' = NoTable
  /\ pc' = IF todo' = {} THEN "csv" ELSE "extract"
  /\ UNCHANGED <<sources, tables, states, op, ovrBuf, sigBuf, edited, user>>

(* A file that is gone or cannot be read yields a row of blanks.           *)
Extract(f) ==
  /\ pc = "extract" /\ f \in todo
  /\ \E got \in {disk[f]} \cup (IF "unreadable" \in Allowed THEN {0} ELSE {}) :
       buf' = [buf EXCEPT ![f] = [ver |-> got,
                                  val |-> [d \in Fields |-> got]]]
  /\ todo' = todo \ {f}
  /\ pc' = IF todo' = {} THEN "csv" ELSE "extract"
  /\ UNCHANGED <<sources, tables, states, op, ovrBuf, sigBuf, edited, user>>

(* Mutant: a field without an override is cleared.                       *)
Applied_EveryField ==
  [f \in Files |->
     IF csv[f] = NoRow THEN NoRow ELSE WithVal(csv[f], overrides[f])]

(* The csv with the saved overrides put over the extracted values.         *)
Applied == [f \in Files |->
              IF csv[f] = NoRow THEN NoRow
              ELSE WithVal(csv[f], [d \in Fields |-> Shown(f, d)])]

ApplyOverrides ==
  /\ pc = "apply"
  /\ buf' = Applied
  /\ pc' = IF Applied = csv THEN "cost" ELSE "applyCsv"
  /\ UNCHANGED <<sources, tables, states, op, todo, ovrBuf, sigBuf, edited,
                 user>>

AnalyseCost ==
  /\ pc = "cost"
  /\ sigBuf' = disk
  /\ pc' = "detail"
  /\ UNCHANGED <<sources, tables, states, op, todo, buf, ovrBuf, edited, user>>

(* Mutant: a signature for every file in the folder.                       *)
RecordedSigs_Folder == [f \in Files |-> Seen(f)]

(* rebuild_processed_from_summary: a signature for every row of the csv.   *)
RecordedSigs == [f \in Files |-> IF csv[f] = NoRow THEN Unseen ELSE disk[f]]

Snapshot ==
  /\ pc = "snapshot"
  /\ sigBuf' = RecordedSigs
  /\ pc' = "save"
  /\ UNCHANGED <<sources, tables, states, op, todo, buf, ovrBuf, edited, user>>

-----------------------------------------------------------------------------
(* The end of a job; what it held in memory is gone.                       *)

EndJob ==
  /\ op' = "none" /\ pc' = "free" /\ todo' = {}
  /\ buf' = NoTable /\ ovrBuf' = NoOverrides /\ sigBuf' = NoSigs
  /\ edited' = FALSE

Finish ==
  /\ pc = "done"
  /\ EndJob
  /\ status' = IF op = "fields" THEN status ELSE "idle"
  /\ UNCHANGED <<sources, tables, overrides, processed, user>>

(* The output a job overwrites in place at its next step.                  *)
InPlace == CASE pc \in XlsxPcs -> {"xlsx"}
             [] pc = "detail"  -> {"detail"}
             [] pc \in BookPcs -> {"book"}
             [] OTHER          -> {}

(* A write cut short leaves its output as it was or, when it is written in *)
(* place, truncated.  A PATCH that does not answer is no saved edit.       *)
Interrupt(cut) ==
  /\ faults < MaxFaults /\ faults' = faults + 1
  /\ cut \subseteq InPlace
  /\ made' = made \cup cut /\ torn' = torn \cup cut
  /\ detail' = IF "detail" \in cut THEN NoSigs ELSE detail
  /\ book' = IF "book" \in cut THEN NoSigs ELSE book
  /\ intent' = IF op = "fields"
               THEN [f \in Files |-> IF f \in todo THEN NoOverrides[f]
                                                   ELSE intent[f]]
               ELSE intent
  /\ EndJob
  /\ UNCHANGED <<sources, csv, xlsx, overrides, processed, edits, typed>>

(* A write raises OSError.  A rebuild inside run_sync reports "failed"; in *)
(* the other places the exception leaves the status alone.                 *)
FailWrite(cut) ==
  /\ "ioerror" \in Allowed /\ pc \in WritePcs
  /\ status' = IF op = "sync" /\ pc \notin AbsorbPcs THEN "failed" ELSE status
  /\ Interrupt(cut)

(* The process that runs the job is killed.                                *)
Crash(cut) ==
  /\ "crash" \in Allowed /\ pc # "free"
  /\ status' = status
  /\ Interrupt(cut)

-----------------------------------------------------------------------------
JobStep ==
  \/ WriteCsv \/ WriteXlsx \/ WriteOverrides \/ WriteDetail \/ WriteBook
  \/ SaveProcessed
  \/ AbsorbNothing \/ AbsorbEdits \/ Detect
  \/ ListFiles \/ (\E f \in Files : Extract(f))
  \/ ApplyOverrides \/ AnalyseCost \/ Snapshot \/ Finish

Next ==
  \/ \E f \in Files : SaveFile(f) \/ DeleteFile(f)
  \/ \E f \in Files, d \in Fields, v \in Manual : ExcelSave(f, d, v)
  \/ StartSync
  \/ StartRebuild
  \/ \E f \in Files, d \in Fields, v \in Manual :
       \E names \in {Fields, {d}} : StartPatch(f, d, v, names)
  \/ JobStep
  \/ \E cut \in SUBSET {"xlsx", "detail", "book"} : FailWrite(cut) \/ Crash(cut)

Spec == Init /\ [][Next]_vars

(* A job that runs goes on, and the daemon's timer starts a sync again and *)
(* again (every sync_interval_seconds).                                    *)
FairSpec == Spec /\ WF_vars(JobStep) /\ WF_vars(StartSync)

-----------------------------------------------------------------------------
(* Properties.                                                             *)

AtRest == pc = "free"

(* detect_source_changes trusts processed_files.json: when the signature   *)
(* recorded for an invoice is the one on disk, the sync takes the row in   *)
(* the summary for current and never reads the file again.  So the row     *)
(* must have been extracted from that very file, whatever crashed, failed  *)
(* or changed since it was recorded.                                       *)
SourceTracked ==
  AtRest => \A f \in Files :
    disk[f] # 0 /\ processed[f] = disk[f]
      => csv[f] # NoRow /\ csv[f].ver = disk[f]

(* A sync that started now would find nothing to do.                       *)
Settled == AtRest /\ ~PendingEdit /\ ~MustRebuild

(* No row of the summary or the cost detail is of an invoice that is gone: *)
(* once settled, nothing would ever take that row away.                    *)
NoGhostRow ==
  Settled => \A f \in Files : csv[f] # NoRow \/ detail[f] # 0 => disk[f] # 0

(* Once settled, and the cost tables readable, the cost detail and the     *)
(* checks of the cost workbook hold every invoice in the folder as it is.  *)
CostTracked ==
  Settled /\ ~CostStale => \A f \in Files :
    disk[f] # 0 => detail[f] = disk[f] /\ book[f] = disk[f]

(* apply_manual_overrides_to_summary: once settled, the summary shows every*)
(* saved override; automatic extraction does not cover one.                *)
OverridesShown ==
  Settled => \A f \in Files, d \in Fields :
    csv[f] # NoRow /\ overrides[f][d] # None
      => csv[f].val[d] = overrides[f][d]

(* sync_excel_manual_edits takes every difference between workbook and csv *)
(* for an edit; only what a person typed may become an override.           *)
OverridesTyped ==
  \A f \in Files, d \in Fields :
    overrides[f][d] # None => <<f, d, overrides[f][d]>> \in typed

(* The last value a person gave a field of a row is an override, or waits  *)
(* in the workbook for the next sync, or is held by the job that will save *)
(* it: a correction is never lost without a word.                          *)
EditsNotLost ==
  \A f \in Files, d \in Fields :
    csv[f] # NoRow /\ intent[f][d] # None =>
      \/ overrides[f][d] = intent[f][d]
      \/ ovrBuf[f][d] = intent[f][d]
      \/ Readable("xlsx") /\ xlsx[f] # NoRow /\ xlsx[f].val[d] = intent[f][d]

(* Every invoice has its rows, and no row is of an invoice that is gone.   *)
RowsFollow == CostTracked /\ NoGhostRow

(* An override is shown, and it is what a person typed.                    *)
OverridesFollow == OverridesShown /\ OverridesTyped

(* Once the folder and the user are quiet, the periodic sync brings every  *)
(* invoice that is there into the summary as it is, and leaves no edit of  *)
(* the workbook waiting.                                                   *)
CaughtUp ==
  /\ \A f \in Files : disk[f] # 0 => csv[f] # NoRow /\ csv[f].ver = disk[f]
  /\ ~PendingEdit

CatchesUp == <>[](AtRest => CaughtUp)
=============================================================================
