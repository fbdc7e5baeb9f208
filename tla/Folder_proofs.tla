--------------------------- MODULE Folder_proofs ---------------------------
(***************************************************************************)
(* Proofs about the folder of invoices: the synchroniser of one profile,   *)
(* for any number of invoices and fields and any number of edits, crashes  *)
(* and failed writes; and the previews and prints of its files, for any    *)
(* files, sizes, limits and requests.                                      *)
(***************************************************************************)
EXTENDS Folder, Sums, TLAPS

(* Putting other values into a row leaves a row.                           *)
LEMMA WithValType ==
  ASSUME NEW row \in Row, NEW val \in [Fields -> Value]
  PROVE  WithVal(row, val) \in Row /\ WithVal(row, val).ver = row.ver
BY DEF WithVal, Row

(* What list_invoices shows for a field of a row is a value.               *)
LEMMA ShownType ==
  ASSUME TypeOK, NEW f \in Files, csv[f] # NoRow, NEW d \in Fields
  PROVE  Shown(f, d) \in Value
BY DEF TypeOK, Shown, Table, Row, Override

(* A job that ends leaves well-typed memory behind.                        *)
LEMMA EndJobType ==
  ASSUME EndJob
  PROVE  /\ op' \in {"none", "sync", "rebuild", "fields"} /\ pc' \in Pcs
         /\ todo' \subseteq Files /\ buf' \in Table
         /\ ovrBuf' \in [Files -> Override]
         /\ sigBuf' \in [Files -> Nat \cup {Unseen}]
         /\ edited' \in BOOLEAN
BY DEF EndJob, NoTable, NoOverrides, NoSigs, Table, Override, Pcs

(* Where a job goes after a write is a place of a job.                     *)
LEMMA AfterType ==
  ASSUME pc \in WritePcs, pc # "save"
  PROVE  After(pc) \in Pcs
BY DEF After, Order, WritePcs, CsvPcs, XlsxPcs, OvrPcs, DetailPcs, BookPcs,
       Pcs, ReadPcs

LEMMA InterruptType ==
  ASSUME TypeOK, NEW cut, Interrupt(cut), status' \in {"none", "syncing", "idle", "failed"}
  PROVE  TypeOK'
<1>1. cut \subseteq Outputs
  BY DEF Interrupt, InPlace, Outputs
<1>2. made' \subseteq Outputs /\ torn' \subseteq Outputs
  BY <1>1 DEF TypeOK, Interrupt
<1>3. detail' \in [Files -> Nat] /\ book' \in [Files -> Nat]
  BY DEF TypeOK, Interrupt, NoSigs
<1>4. intent' \in [Files -> Override]
  BY DEF TypeOK, Interrupt, NoOverrides, Override
<1>5. faults' \in Nat /\ EndJob
  BY DEF TypeOK, Interrupt
<1> QED
  BY <1>2, <1>3, <1>4, <1>5, EndJobType DEF TypeOK, Interrupt, sources

(* What makes TypeOK inductive: the signatures the cost analysis read are  *)
(* still in memory when its outputs are written.                           *)
CostSigs == pc \in {"detail", "book"} => sigBuf \in [Files -> Nat]

(* A PATCH changes the values of its row and no other row.                 *)
LEMMA PatchedRow ==
  ASSUME TypeOK, NEW f \in Files, NEW d \in Fields, NEW v \in Manual,
         NEW names, StartPatch(f, d, v, names)
  PROVE  \E val \in [Fields -> Value] :
           buf' = [csv EXCEPT ![f] = WithVal(csv[f], val)]
<1> DEFINE sent(e) == IF e = d THEN v ELSE Shown(f, e)
           kept(e) == IF e \in names THEN sent(e) ELSE csv[f].val[e]
<1>1. csv[f] \in Row
  BY DEF TypeOK, StartPatch, Table
<1>2. \A e \in Fields : sent(e) \in Value
  BY ShownType DEF StartPatch, Value
<1>3. [e \in Fields |-> kept(e)] \in [Fields -> Value]
  BY <1>1, <1>2 DEF Row
<1>4. buf' = [csv EXCEPT ![f] = WithVal(csv[f], [e \in Fields |-> kept(e)])]
  BY DEF StartPatch
<1> HIDE DEF kept
<1> QED
  BY <1>3, <1>4

(* Absorbing edits and applying overrides change the values of rows only.  *)
LEMMA RewrittenRow ==
  ASSUME TypeOK, AbsorbEdits \/ ApplyOverrides, NEW f \in Files,
         csv[f] # NoRow
  PROVE  \E val \in [Fields -> Value] : buf'[f] = WithVal(csv[f], val)
<1> DEFINE new(d) == IF d \in Diff(f) THEN xlsx[f].val[d] ELSE csv[f].val[d]
<1>1. csv[f] \in Row
  BY DEF TypeOK, Table
<1>2. CASE AbsorbEdits
  <2>1. ASSUME NEW d \in Fields, d \in Diff(f) PROVE xlsx[f].val[d] \in Value
    BY <2>1 DEF TypeOK, Diff, Table, Row
  <2>2. [d \in Fields |-> new(d)] \in [Fields -> Value]
    BY <1>1, <2>1 DEF Row
  <2>3. buf'[f] = WithVal(csv[f], [d \in Fields |-> new(d)])
    BY <1>2 DEF AbsorbEdits
  <2> HIDE DEF new
  <2> QED
    BY <2>2, <2>3
<1>3. CASE ApplyOverrides
  <2>1. [d \in Fields |-> Shown(f, d)] \in [Fields -> Value]
    BY ShownType
  <2>2. buf'[f] = WithVal(csv[f], [d \in Fields |-> Shown(f, d)])
    BY <1>3 DEF ApplyOverrides, Applied
  <2> QED
    BY <2>1, <2>2
<1> QED
  BY <1>2, <1>3

(* Every action of ProfileSync keeps the type of every variable.           *)
LEMMA TypeStep == TypeOK /\ CostSigs /\ [Next]_vars => TypeOK'
<1> SUFFICES ASSUME TypeOK, CostSigs, [Next]_vars PROVE TypeOK'
  OBVIOUS
<1> USE ConstantsAssumption
<1>1. ASSUME NEW f \in Files, SaveFile(f) PROVE TypeOK'
  BY <1>1 DEF TypeOK, SaveFile, tables, states, job, user
<1>2. ASSUME NEW f \in Files, DeleteFile(f) PROVE TypeOK'
  BY <1>2 DEF TypeOK, DeleteFile, tables, states, job, user
<1>3. ASSUME NEW f \in Files, NEW d \in Fields, NEW v \in Manual,
             ExcelSave(f, d, v)
      PROVE TypeOK'
  <2>1. xlsx[f] \in Row
    BY <1>3 DEF TypeOK, ExcelSave, Table
  <2>2. WithVal(xlsx[f], [xlsx[f].val EXCEPT ![d] = v]) \in Row
    BY <2>1, WithValType DEF Row, Value
  <2>3. xlsx' \in Table
    BY <1>3, <2>2 DEF TypeOK, ExcelSave, Table
  <2>4. intent' \in [Files -> Override]
    BY <1>3 DEF TypeOK, ExcelSave, Override, Value
  <2>5. typed' \subseteq Files \X Fields \X Value
    BY <1>3 DEF TypeOK, ExcelSave, Value
  <2> QED
    BY <1>3, <2>3, <2>4, <2>5 DEF TypeOK, ExcelSave, sources, states, job
<1>4. CASE StartSync
  BY <1>4 DEF TypeOK, StartSync, sources, tables, user, Pcs, ReadPcs
<1>5. CASE StartRebuild
  BY <1>5 DEF TypeOK, StartRebuild, sources, tables, states, user, Pcs,
              ReadPcs
<1>6. ASSUME NEW f \in Files, NEW d \in Fields, NEW v \in Manual,
             NEW names \in {Fields, {d}}, StartPatch(f, d, v, names)
      PROVE TypeOK'
  <2>1. csv[f] \in Row
    BY <1>6 DEF TypeOK, StartPatch, Table
  <2>2. PICK val \in [Fields -> Value] :
          buf' = [csv EXCEPT ![f] = WithVal(csv[f], val)]
    BY <1>6, PatchedRow
  <2>3. buf' \in Table
    <3>1. WithVal(csv[f], val) \in Row
      BY <2>1, WithValType
    <3> QED
      BY <2>2, <3>1 DEF TypeOK, Table
  <2> DEFINE sent(e) == IF e = d THEN v ELSE Shown(f, e)
             ovr(e)  == IF e \in names THEN sent(e) ELSE None
  <2>4. \A e \in Fields : sent(e) \in Value
    BY <1>6, ShownType DEF StartPatch, Value
  <2>5. ovrBuf' \in [Files -> Override]
    <3>1. ovrBuf' = [overrides EXCEPT ![f] = [e \in Fields |-> ovr(e)]]
      BY <1>6 DEF StartPatch
    <3>2. [e \in Fields |-> ovr(e)] \in Override
      BY <2>4 DEF Override
    <3> QED
      BY <3>1, <3>2 DEF TypeOK
  <2>6. intent' \in [Files -> Override]
    BY <1>6 DEF TypeOK, StartPatch, Override, Value
  <2>7. typed' \subseteq Files \X Fields \X Value
    <3>1. typed' = typed \cup {<<f, e, sent(e)>> : e \in names}
      BY <1>6 DEF StartPatch
    <3>2. ASSUME NEW e \in names
          PROVE  <<f, e, sent(e)>> \in Files \X Fields \X Value
      BY <2>4
    <3> HIDE DEF sent
    <3>3. {<<f, e, sent(e)>> : e \in names} \subseteq Files \X Fields \X Value
      BY <3>2
    <3> QED
      BY <3>1, <3>3 DEF TypeOK
  <2>8. /\ op' = "fields" /\ pc' = "fieldsOvr" /\ todo' = {f}
        /\ edits' = edits + 1
        /\ UNCHANGED <<sources, tables, states, sigBuf, edited, faults>>
    BY <1>6 DEF StartPatch
  <2> HIDE DEF sent, ovr
  <2> QED
    BY <2>3, <2>5, <2>6, <2>7, <2>8
    DEF TypeOK, sources, tables, states, Pcs, WritePcs, OvrPcs
<1>7. CASE WriteCsv
  BY <1>7, AfterType DEF TypeOK, WriteCsv, WritePcs, CsvPcs, sources, states,
                         user, Outputs
<1>8. CASE WriteXlsx
  BY <1>8, AfterType DEF TypeOK, WriteXlsx, WritePcs, XlsxPcs, sources,
                         states, user, Outputs
<1>9. CASE WriteOverrides
  BY <1>9, AfterType DEF TypeOK, WriteOverrides, WritePcs, OvrPcs, sources,
                         tables, user
<1>10. CASE WriteDetail
  BY <1>10, AfterType DEF TypeOK, CostSigs, WriteDetail, WritePcs, DetailPcs, sources,
                          states, user, Outputs
<1>11. CASE WriteBook
  BY <1>11, AfterType DEF TypeOK, CostSigs, WriteBook, WritePcs, BookPcs, sources,
                          states, user, Outputs
<1>12. CASE SaveProcessed
  BY <1>12 DEF TypeOK, SaveProcessed, sources, tables, user, Pcs, ReadPcs
<1>13. CASE AbsorbNothing
  BY <1>13 DEF TypeOK, AbsorbNothing, sources, tables, states, user, Pcs,
               ReadPcs
<1>14. CASE AbsorbEdits
  <2> DEFINE ovr(f, d) == IF d \in Diff(f) THEN xlsx[f].val[d]
                                           ELSE overrides[f][d]
  <2>1. ASSUME NEW f \in Files, NEW d \in Fields, d \in Diff(f)
        PROVE  xlsx[f].val[d] \in Value
    BY <2>1 DEF TypeOK, Diff, Table, Row
  <2>2. buf' \in Table
    <3>1. ASSUME NEW f \in Files PROVE buf'[f] \in Row \cup {NoRow}
      BY <1>14, RewrittenRow, WithValType DEF TypeOK, AbsorbEdits, Table
    <3> QED
      BY <1>14, <3>1 DEF AbsorbEdits, Table
  <2>3. ovrBuf' \in [Files -> Override]
    <3>1. ovrBuf' = [f \in Files |-> [d \in Fields |-> ovr(f, d)]]
      BY <1>14 DEF AbsorbEdits
    <3>2. ASSUME NEW f \in Files, NEW d \in Fields
          PROVE  ovr(f, d) \in Value \cup {None}
      BY <2>1 DEF TypeOK, Override
    <3> QED
      BY <3>1, <3>2 DEF Override
  <2>4. /\ edited' = TRUE /\ pc' = "absorbCsv"
        /\ UNCHANGED <<sources, tables, states, op, todo, sigBuf, user>>
    BY <1>14 DEF AbsorbEdits
  <2> QED
    BY <2>2, <2>3, <2>4
    DEF TypeOK, sources, tables, states, user, Pcs, WritePcs, CsvPcs
<1>15. CASE Detect
  BY <1>15 DEF TypeOK, Detect, sources, tables, states, user, Pcs, ReadPcs,
               WritePcs, DetailPcs
<1>16. CASE ListFiles
  BY <1>16 DEF TypeOK, ListFiles, NoTable, Table, sources, tables, states,
               user, Pcs, ReadPcs, WritePcs, CsvPcs
<1>17. ASSUME NEW f \in Files, Extract(f) PROVE TypeOK'
  <2>1. PICK got \in {disk[f]} \cup
                      (IF "unreadable" \in Allowed THEN {0} ELSE {}) :
          buf' = [buf EXCEPT ![f] = [ver |-> got,
                                     val |-> [d \in Fields |-> got]]]
    BY <1>17 DEF Extract
  <2>2. got \in Nat
    BY DEF TypeOK
  <2>3. [ver |-> got, val |-> [d \in Fields |-> got]] \in Row
    BY <2>2 DEF Row, Value
  <2>4. buf' \in Table
    BY <2>1, <2>3 DEF TypeOK, Table
  <2> QED
    BY <1>17, <2>4 DEF TypeOK, Extract, sources, tables, states, user, Pcs,
                       ReadPcs, WritePcs, CsvPcs
<1>18. CASE ApplyOverrides
  <2>1. ASSUME NEW f \in Files PROVE buf'[f] \in Row \cup {NoRow}
    BY <1>18, RewrittenRow, WithValType
    DEF TypeOK, ApplyOverrides, Applied, Table
  <2>2. buf' \in Table
    BY <1>18, <2>1 DEF ApplyOverrides, Applied, Table
  <2> QED
    BY <1>18, <2>2 DEF TypeOK, ApplyOverrides, sources, tables, states, user,
                       Pcs, ReadPcs, WritePcs, CsvPcs
<1>19. CASE AnalyseCost
  BY <1>19 DEF TypeOK, AnalyseCost, sources, tables, states, user, Pcs,
               WritePcs, DetailPcs
<1>20. CASE Snapshot
  BY <1>20 DEF TypeOK, Snapshot, RecordedSigs, sources, tables, states, user,
               Pcs, WritePcs
<1>21. CASE Finish
  BY <1>21, EndJobType DEF TypeOK, Finish, sources, tables, user
<1>22. ASSUME NEW cut, FailWrite(cut) PROVE TypeOK'
  BY <1>22, InterruptType DEF TypeOK, FailWrite
<1>23. ASSUME NEW cut, Crash(cut) PROVE TypeOK'
  BY <1>23, InterruptType DEF TypeOK, Crash
<1>24. CASE UNCHANGED vars
  BY <1>24 DEF TypeOK, vars, sources, tables, states, job, user
<1> QED
  BY <1>1, <1>2, <1>3, <1>4, <1>5, <1>6, <1>7, <1>8, <1>9, <1>10, <1>11,
     <1>12, <1>13, <1>14, <1>15, <1>16, <1>17, <1>18, <1>19, <1>20, <1>21,
     <1>22, <1>23, <1>24
  DEF Next, JobStep

(* No action but the end of the analysis leads into writing its outputs.   *)
LEMMA CostSigsStep == TypeOK /\ CostSigs /\ [Next]_vars => CostSigs'
<1> SUFFICES ASSUME TypeOK, CostSigs, Next, pc' \in {"detail", "book"}
             PROVE  sigBuf' \in [Files -> Nat]
  BY DEF CostSigs, vars, job
<1>1. ASSUME pc \in WritePcs, pc # "save", pc' = After(pc) PROVE pc = "detail"
  BY <1>1 DEF After, Order, WritePcs, CsvPcs, XlsxPcs, OvrPcs, DetailPcs,
              BookPcs
<1>2. CASE WriteCsv \/ WriteXlsx \/ WriteOverrides \/ WriteDetail \/ WriteBook
  BY <1>1, <1>2 DEF CostSigs, WriteCsv, WriteXlsx, WriteOverrides,
    WriteDetail, WriteBook, WritePcs, CsvPcs, XlsxPcs, OvrPcs, DetailPcs,
    BookPcs
<1>3. CASE AnalyseCost
  BY <1>3 DEF AnalyseCost, TypeOK
<1>4. CASE \/ \E f \in Files : SaveFile(f) \/ DeleteFile(f)
           \/ \E f \in Files, d \in Fields, v \in Manual : ExcelSave(f, d, v)
  BY <1>4 DEF CostSigs, SaveFile, DeleteFile, ExcelSave, job
<1>5. CASE \E cut : FailWrite(cut) \/ Crash(cut)
  BY <1>5 DEF FailWrite, Crash, Interrupt, EndJob
<1>6. CASE \/ StartSync \/ StartRebuild \/ SaveProcessed \/ AbsorbNothing
           \/ AbsorbEdits \/ Detect \/ ListFiles \/ ApplyOverrides \/ Snapshot
           \/ Finish
  BY <1>6 DEF StartSync, StartRebuild, SaveProcessed, AbsorbNothing,
    AbsorbEdits, Detect, ListFiles, ApplyOverrides, Snapshot, Finish, EndJob
<1>7. CASE \/ \E f \in Files : Extract(f)
           \/ \E f \in Files, d \in Fields, v \in Manual :
                \E names \in {Fields, {d}} : StartPatch(f, d, v, names)
  BY <1>7 DEF Extract, StartPatch
<1> QED
  BY <1>2, <1>3, <1>4, <1>5, <1>6, <1>7 DEF Next, JobStep

(* A profile that was never synchronised is well typed.                    *)
LEMMA InitType == ASSUME Init PROVE TypeOK /\ CostSigs
<1> USE ConstantsAssumption DEF Init
<1>1. /\ disk \in [Files -> Nat] /\ clock \in Nat
      /\ detail \in [Files -> Nat] /\ book \in [Files -> Nat]
      /\ sigBuf \in [Files -> Nat \cup {Unseen}]
      /\ processed \in [Files -> Nat \cup {Unseen}]
  BY DEF NoSigs
<1>2. csv \in Table /\ xlsx \in Table /\ buf \in Table
  BY DEF NoTable, Table
<1>3. /\ overrides \in [Files -> Override] /\ ovrBuf \in [Files -> Override]
      /\ intent \in [Files -> Override]
  BY DEF NoOverrides, Override
<1>4. op \in {"none", "sync", "rebuild", "fields"} /\ pc \in Pcs
  BY DEF Pcs
<1> QED
  BY <1>1, <1>2, <1>3, <1>4 DEF TypeOK, CostSigs

(* Every variable of the synchroniser keeps its type in every behaviour.   *)
THEOREM TypeCorrect == Spec => []TypeOK
<1>1. Init => TypeOK /\ CostSigs
  BY InitType
<1>2. TypeOK /\ CostSigs /\ [Next]_vars => (TypeOK /\ CostSigs)'
  BY TypeStep, CostSigsStep
<1> QED
  BY <1>1, <1>2, PTL DEF Spec
-----------------------------------------------------------------------------
(* SourceTracked.  Between two syncs it follows from Tracked, which holds  *)
(* in the middle of a job too; the other conjuncts say what a job that     *)
(* replaces the csv or the recorded signatures holds in memory.            *)

Tracked(f) ==
  disk[f] # 0 /\ processed[f] = disk[f]
    => csv[f] # NoRow /\ csv[f].ver = disk[f]

(* No signature is recorded before it is given out.                        *)
Fresh ==
  \A f \in Files :
    /\ disk[f] <= clock
    /\ processed[f] # Unseen => processed[f] <= clock
    /\ sigBuf[f] # Unseen => sigBuf[f] <= clock

(* A PATCH never rebuilds; an extraction that is over has nothing to do.   *)
Placed ==
  /\ op = "fields" => pc \in {"fieldsOvr", "fieldsCsv", "fieldsXlsx", "done"}
  /\ pc \in {"csv", "xlsx"} => todo = {}

(* A file that is there was extracted as it is, or waits to be, or came    *)
(* after the listing with a signature nobody recorded.                     *)
Listed ==
  pc \in {"extract", "csv", "xlsx"} =>
    \A f \in Files : disk[f] # 0 =>
      \/ buf[f] # NoRow /\ buf[f].ver = disk[f]
      \/ buf[f] = NoRow /\ (f \in todo \/ processed[f] # disk[f])

(* The rows written by this rebuild are of the files as they are.          *)
RowsCurrent ==
  /\ pc = "xlsx" => csv = buf
  /\ pc \in {"apply", "applyCsv", "applyXlsx", "cost", "detail", "book",
             "snapshot"} =>
       \A f \in Files :
         disk[f] # 0 /\ csv[f] # NoRow => csv[f].ver = disk[f]

(* A job that rewrites the csv to change values changes nothing else.      *)
SameRows ==
  pc \in {"absorbCsv", "applyCsv", "fieldsOvr", "fieldsCsv"} =>
    \A f \in Files :
      /\ csv[f] = NoRow <=> buf[f] = NoRow
      /\ csv[f] # NoRow => buf[f].ver = csv[f].ver

(* What is about to be recorded as processed is tracked by the csv.        *)
SigsTracked ==
  pc = "save" =>
    \A f \in Files : disk[f] # 0 /\ sigBuf[f] = disk[f]
      => csv[f] # NoRow /\ csv[f].ver = disk[f]

AllTracked == \A f \in Files : Tracked(f)

Inv ==
  Fresh /\ Placed /\ Listed /\ RowsCurrent /\ SameRows /\ SigsTracked
    /\ AllTracked

IInv == TypeOK /\ CostSigs /\ Inv

(* The end of a job, however it ends, leaves nothing to be held in memory. *)
LEMMA EndJobInv ==
  ASSUME IInv, EndJob, UNCHANGED <<sources, csv, processed>>
  PROVE  Inv'
BY DEF IInv, TypeOK, Inv, EndJob, sources, NoSigs, Fresh, Placed, Listed,
       RowsCurrent, SameRows, SigsTracked, AllTracked, Tracked

(* A new signature meets no row and no record of an older one.             *)
LEMMA SaveFileInv ==
  ASSUME IInv, "race" \notin Allowed, NEW g \in Files, SaveFile(g)
  PROVE  Inv'
<1> USE DEF IInv, Inv
<1>1. /\ disk' = [disk EXCEPT ![g] = clock + 1] /\ clock' = clock + 1
      /\ ~Extracted(g)
      /\ UNCHANGED <<csv, processed, op, pc, todo, buf, sigBuf>>
  BY DEF SaveFile, tables, states, job
<1>2. /\ clock \in Nat /\ disk \in [Files -> Nat]
      /\ processed \in [Files -> Nat \cup {Unseen}]
      /\ sigBuf \in [Files -> Nat \cup {Unseen}]
  BY DEF TypeOK
<1>3. Unseen \notin Nat
  BY ConstantsAssumption
<1>4. Fresh'
  BY <1>1, <1>2 DEF Fresh
<1>5. processed[g] # clock + 1 /\ sigBuf[g] # clock + 1
  BY <1>2, <1>3 DEF Fresh
<1>6. Placed' /\ SameRows'
  BY <1>1 DEF Placed, SameRows
<1>7. Listed'
  BY <1>1, <1>2, <1>5 DEF Listed, Extracted, Placed
<1>8. RowsCurrent'
  BY <1>1, <1>2 DEF RowsCurrent, Extracted
<1>9. SigsTracked'
  BY <1>1, <1>2, <1>5 DEF SigsTracked
<1>10. AllTracked'
  BY <1>1, <1>2, <1>5 DEF AllTracked, Tracked
<1> QED
  BY <1>4, <1>6, <1>7, <1>8, <1>9, <1>10

(* Replacing the csv: by the rows of the rebuild, or value by value.       *)
LEMMA WriteCsvInv ==
  ASSUME IInv, WriteCsv
  PROVE  Inv'
<1> USE DEF IInv, Inv
<1>1. /\ csv' = buf /\ pc \in {"absorbCsv", "csv", "applyCsv", "fieldsCsv"}
      /\ pc' = After(pc)
      /\ UNCHANGED <<disk, clock, processed, op, todo, buf, sigBuf>>
  BY DEF WriteCsv, CsvPcs, sources, states
<1>2. /\ pc = "csv" => pc' = "xlsx"
      /\ pc = "absorbCsv" => pc' = "absorbXlsx"
      /\ pc = "applyCsv" => pc' = "applyXlsx"
      /\ pc = "fieldsCsv" => pc' = "fieldsXlsx"
  BY <1>1 DEF After, Order
<1>3. Fresh' /\ Placed'
  BY <1>1, <1>2 DEF Fresh, Placed
<1>4. Listed'
  BY <1>1, <1>2 DEF Listed
<1>5. RowsCurrent'
  BY <1>1, <1>2 DEF RowsCurrent, SameRows
<1>6. SameRows' /\ SigsTracked'
  BY <1>1, <1>2 DEF SameRows, SigsTracked
<1>7. AllTracked'
  BY <1>1 DEF AllTracked, Tracked, Listed, SameRows, Placed
<1> QED
  BY <1>3, <1>4, <1>5, <1>6, <1>7

(* The other writes of a job, and where it goes after them.                *)
LEMMA OtherWritesInv ==
  ASSUME IInv, WriteXlsx \/ WriteOverrides \/ WriteDetail \/ WriteBook
  PROVE  Inv'
<1> USE DEF IInv, Inv
<1>1. /\ pc \in XlsxPcs \cup OvrPcs \cup DetailPcs \cup BookPcs
      /\ pc' = After(pc)
      /\ UNCHANGED <<disk, clock, csv, processed, op, todo, buf, sigBuf>>
  BY DEF WriteXlsx, WriteOverrides, WriteDetail, WriteBook, sources, tables,
         states
<1>2. /\ pc = "xlsx" => pc' = "apply"
      /\ pc = "absorbXlsx" => pc' = "absorbOvr"
      /\ pc = "applyXlsx" => pc' = "cost"
      /\ pc = "fieldsXlsx" => pc' = "done"
      /\ pc = "absorbOvr" => pc' = "detect"
      /\ pc = "fieldsOvr" => pc' = "fieldsCsv"
      /\ pc = "detail" => pc' = "book"
      /\ pc = "schemaDetail" => pc' = "schemaBook"
      /\ pc = "book" => pc' = "snapshot"
      /\ pc = "schemaBook" => pc' = "done"
  BY <1>1 DEF After, Order
<1>3. pc \in {"xlsx", "absorbXlsx", "applyXlsx", "fieldsXlsx", "absorbOvr",
              "fieldsOvr", "detail", "schemaDetail", "book", "schemaBook"}
  BY <1>1 DEF XlsxPcs, OvrPcs, DetailPcs, BookPcs
<1>4. Fresh' /\ Placed' /\ Listed'
  BY <1>1, <1>2, <1>3 DEF Fresh, Placed, Listed
<1>5. RowsCurrent'
  BY <1>1, <1>2, <1>3 DEF RowsCurrent, Listed
<1>6. SameRows' /\ SigsTracked' /\ AllTracked'
  BY <1>1, <1>2, <1>3 DEF SameRows, SigsTracked, AllTracked, Tracked
<1> QED
  BY <1>4, <1>5, <1>6

(* Extraction: the file is as it was read, unless it was taken away.       *)
LEMMA ExtractInv ==
  ASSUME IInv, "unreadable" \notin Allowed, NEW g \in Files, Extract(g)
  PROVE  Inv'
<1> USE DEF IInv, Inv
<1>1. /\ pc = "extract" /\ g \in todo
      /\ buf' = [buf EXCEPT ![g] = [ver |-> disk[g],
                                    val |-> [d \in Fields |-> disk[g]]]]
      /\ todo' = todo \ {g}
      /\ pc' = IF todo' = {} THEN "csv" ELSE "extract"
      /\ UNCHANGED <<disk, clock, csv, processed, op, sigBuf>>
  BY DEF Extract, sources, tables, states
<1>2. buf \in [Files -> Row \cup {NoRow}] /\ disk \in [Files -> Nat]
  BY DEF TypeOK, Table
<1>3. buf'[g].ver = disk[g] /\ \A f \in Files \ {g} : buf'[f] = buf[f]
  BY <1>1, <1>2
<1>4. buf'[g] # NoRow
  BY <1>1, <1>2, ConstantsAssumption DEF Row, Value
<1>5. Listed'
  BY <1>1, <1>2, <1>3, <1>4 DEF Listed
<1>6. Fresh' /\ Placed' /\ RowsCurrent' /\ SameRows' /\ SigsTracked' /\ AllTracked'
  BY <1>1 DEF Fresh, Placed, RowsCurrent, SameRows, SigsTracked, AllTracked, Tracked
<1> QED
  BY <1>5, <1>6

(* Every step keeps the invariant, when no file is rewritten between its   *)
(* extraction and the snapshot and a file that is there can be read.       *)
LEMMA InvStep ==
  ASSUME IInv, [Next]_vars, "race" \notin Allowed, "unreadable" \notin Allowed
  PROVE  Inv'
<1> USE DEF IInv, Inv
<1>1. ASSUME NEW f \in Files, SaveFile(f) PROVE Inv'
  BY <1>1, SaveFileInv
<1>2. ASSUME NEW f \in Files, DeleteFile(f) PROVE Inv'
  <2>1. /\ disk' = [disk EXCEPT ![f] = 0]
        /\ UNCHANGED <<clock, csv, processed, op, pc, todo, buf, sigBuf>>
    BY <1>2 DEF DeleteFile, tables, states, job
  <2> QED
    BY <2>1 DEF TypeOK, Fresh, Placed, Listed, RowsCurrent, SameRows,
                SigsTracked, AllTracked, Tracked
<1>3. CASE \/ \E f \in Files, d \in Fields, v \in Manual : ExcelSave(f, d, v)
           \/ UNCHANGED vars
  <2>1. UNCHANGED <<disk, clock, csv, processed, op, pc, todo, buf, sigBuf>>
    BY <1>3 DEF ExcelSave, vars, sources, tables, states, job
  <2> QED
    BY <2>1 DEF Fresh, Placed, Listed, RowsCurrent, SameRows, SigsTracked,
                AllTracked, Tracked
<1>4. CASE StartSync \/ StartRebuild \/ AbsorbNothing \/ Detect
  <2>1. /\ UNCHANGED <<disk, clock, csv, processed, todo, buf, sigBuf>>
        /\ pc' \in {"absorb", "detect", "list", "schemaDetail", "done"}
        /\ op' = op \/ op' \in {"sync", "rebuild"}
        /\ pc \in {"free", "absorb", "detect"}
    BY <1>4 DEF StartSync, StartRebuild, AbsorbNothing, Detect, sources,
                tables, states
  <2> QED
    BY <2>1 DEF Fresh, Placed, Listed, RowsCurrent, SameRows, SigsTracked,
                AllTracked, Tracked
<1>5. ASSUME NEW f \in Files, NEW d \in Fields, NEW v \in Manual,
             NEW names \in {Fields, {d}}, StartPatch(f, d, v, names)
      PROVE Inv'
  <2>1. /\ UNCHANGED <<disk, clock, csv, processed, sigBuf>>
        /\ pc' = "fieldsOvr" /\ op' = "fields"
    BY <1>5 DEF StartPatch, sources, tables, states
  <2>2. PICK val \in [Fields -> Value] :
          buf' = [csv EXCEPT ![f] = WithVal(csv[f], val)]
    BY <1>5, PatchedRow
  <2>3. csv[f] \in Row /\ csv \in [Files -> Row \cup {NoRow}]
    BY <1>5 DEF StartPatch, TypeOK, Table
  <2>4. /\ WithVal(csv[f], val) \in Row
        /\ WithVal(csv[f], val).ver = csv[f].ver
    BY <2>2, <2>3, WithValType
  <2>5. SameRows'
    BY <2>1, <2>2, <2>3, <2>4, ConstantsAssumption DEF SameRows
  <2> QED
    BY <2>1, <2>5 DEF Fresh, Placed, Listed, RowsCurrent, SigsTracked,
                      AllTracked, Tracked
<1>6. CASE WriteCsv
  BY <1>6, WriteCsvInv
<1>7. CASE WriteXlsx \/ WriteOverrides \/ WriteDetail \/ WriteBook
  BY <1>7, OtherWritesInv
<1>8. CASE SaveProcessed
  <2>1. /\ pc = "save" /\ processed' = sigBuf /\ pc' = "done"
        /\ UNCHANGED <<disk, clock, csv, op, todo, buf, sigBuf>>
    BY <1>8 DEF SaveProcessed, sources, tables
  <2> QED
    BY <2>1 DEF Fresh, Placed, Listed, RowsCurrent, SameRows, SigsTracked,
                AllTracked, Tracked
<1>9. ASSUME AbsorbEdits \/ ApplyOverrides PROVE Inv'
  <2>1. /\ UNCHANGED <<disk, clock, csv, processed, op, todo, sigBuf>>
        /\ \/ pc = "absorb" /\ pc' = "absorbCsv"
           \/ pc = "apply" /\ pc' \in {"cost", "applyCsv"}
    BY <1>9 DEF AbsorbEdits, ApplyOverrides, sources, tables, states
  <2>2. ASSUME NEW f \in Files
        PROVE  /\ csv[f] = NoRow <=> buf'[f] = NoRow
               /\ csv[f] # NoRow => buf'[f].ver = csv[f].ver
    <3>1. CASE csv[f] = NoRow
      BY <1>9, <3>1 DEF AbsorbEdits, ApplyOverrides, Applied
    <3>2. CASE csv[f] # NoRow
      <4>1. csv[f] \in Row
        BY <3>2 DEF TypeOK, Table
      <4>2. PICK val \in [Fields -> Value] : buf'[f] = WithVal(csv[f], val)
        BY <1>9, <3>2, RewrittenRow
      <4>3. WithVal(csv[f], val) \in Row /\ WithVal(csv[f], val).ver = csv[f].ver
        BY <4>1, WithValType
      <4> QED
        BY <3>2, <4>2, <4>3, ConstantsAssumption
    <3> QED
      BY <3>1, <3>2
  <2>3. SameRows'
    BY <2>1, <2>2 DEF SameRows
  <2> QED
    BY <2>1, <2>3 DEF Fresh, Placed, Listed, RowsCurrent, SigsTracked,
                      AllTracked, Tracked
<1>10. CASE ListFiles
  <2>1. /\ pc = "list" /\ todo' = {f \in Files : disk[f] # 0} /\ buf' = NoTable
        /\ pc' = IF todo' = {} THEN "csv" ELSE "extract"
        /\ UNCHANGED <<disk, clock, csv, processed, op, sigBuf>>
    BY <1>10 DEF ListFiles, sources, tables, states
  <2> QED
    BY <2>1 DEF NoTable, Fresh, Placed, Listed, RowsCurrent, SameRows,
                SigsTracked, AllTracked, Tracked
<1>11. ASSUME NEW f \in Files, Extract(f) PROVE Inv'
  BY <1>11, ExtractInv
<1>12. CASE AnalyseCost
  <2>1. /\ pc = "cost" /\ sigBuf' = disk /\ pc' = "detail"
        /\ UNCHANGED <<disk, clock, csv, processed, op, todo, buf>>
    BY <1>12 DEF AnalyseCost, sources, tables, states
  <2> QED
    BY <2>1 DEF Fresh, Placed, Listed, RowsCurrent, SameRows, SigsTracked,
                AllTracked, Tracked
<1>13. CASE Snapshot
  <2>1. /\ pc = "snapshot" /\ sigBuf' = RecordedSigs /\ pc' = "save"
        /\ UNCHANGED <<disk, clock, csv, processed, op, todo, buf>>
    BY <1>13 DEF Snapshot, sources, tables, states
  <2>2. Fresh'
    BY <2>1 DEF TypeOK, RecordedSigs, Fresh
  <2>3. SigsTracked'
    BY <2>1, ConstantsAssumption
    DEF TypeOK, RecordedSigs, SigsTracked, RowsCurrent
  <2> QED
    BY <2>1, <2>2, <2>3 DEF Placed, Listed, RowsCurrent, SameRows, AllTracked,
                            Tracked
<1>14. CASE Finish \/ \E cut : FailWrite(cut) \/ Crash(cut)
  <2>1. EndJob /\ UNCHANGED <<sources, csv, processed>>
    BY <1>14 DEF Finish, FailWrite, Crash, Interrupt, tables
  <2> QED
    BY <2>1, EndJobInv
<1> QED
  BY <1>1, <1>2, <1>3, <1>4, <1>5, <1>6, <1>7, <1>8, <1>9, <1>10, <1>11,
     <1>12, <1>13, <1>14
  DEF Next, JobStep

(* A signature recorded as processed stands for the row in the summary,    *)
(* whatever crashed or failed and whoever edited the workbook meanwhile,   *)
(* as long as no file is rewritten between its extraction and the snapshot *)
(* (rebuild_processed_from_summary takes its signature only then) and no   *)
(* file that is there is unreadable.                                       *)
THEOREM ProcessedIsTracked ==
  ASSUME "race" \notin Allowed, "unreadable" \notin Allowed
  PROVE  Spec => []SourceTracked
<1>1. Init => IInv
  <2> SUFFICES ASSUME Init PROVE IInv
    OBVIOUS
  <2>1. TypeOK /\ CostSigs
    BY InitType
  <2>2. Inv
    BY ConstantsAssumption
    DEF Init, NoSigs, Inv, Fresh, Placed, Listed, RowsCurrent, SameRows,
        SigsTracked, AllTracked, Tracked
  <2> QED
    BY <2>1, <2>2 DEF IInv
<1>2. IInv /\ [Next]_vars => IInv'
  BY TypeStep, CostSigsStep, InvStep DEF IInv
<1>3. IInv => SourceTracked
  BY DEF IInv, Inv, AllTracked, Tracked, SourceTracked
<1> QED
  BY <1>1, <1>2, <1>3, PTL DEF Spec
-----------------------------------------------------------------------------
(* OverridesFollow, while no write fails and no process is killed.         *)

(* Table t shows the overrides o.                                          *)
ShownIn(t, o) ==
  \A f \in Files, d \in Fields : t[f] # NoRow /\ o[f][d] # None => t[f].val[d] = o[f][d]

(* The overrides o are what a person typed.                                *)
TypedIn(o) == \A f \in Files, d \in Fields : o[f][d] # None => <<f, d, o[f][d]>> \in typed

(* Jobs that hold overrides in memory, and the places between the rewriting*)
(* of the csv and the moment it shows every override again.                *)
HoldPcs == AbsorbPcs \cup {"fieldsOvr", "fieldsCsv", "fieldsXlsx"}
BarePcs == HoldPcs \cup {"xlsx", "apply", "applyCsv"}

(* The workbook is overwritten by the rows the csv has just got.           *)
InStep == pc \in XlsxPcs \cup {"absorbOvr"} => csv = buf

(* What the workbook has and the csv has not was typed.                    *)
DiffTyped ==
  pc \notin XlsxPcs => \A f \in Files : \A d \in Diff(f) : <<f, d, xlsx[f].val[d]>> \in typed

BufShown ==
  /\ pc \in HoldPcs => ShownIn(buf, ovrBuf)
  /\ pc \in {"fieldsCsv", "fieldsXlsx"} => overrides = ovrBuf
  /\ pc = "applyCsv" => ShownIn(buf, overrides)

CsvShown == pc \notin BarePcs => ShownIn(csv, overrides)

AllTyped == TypedIn(overrides) /\ (pc \in HoldPcs => TypedIn(ovrBuf))

InvO == InStep /\ DiffTyped /\ BufShown /\ CsvShown /\ AllTyped

-----------------------------------------------------------------------------
(* EditsNotLost, when moreover Excel saves only between jobs, rebuilds and *)
(* edits of the detail page start with no edit waiting in the workbook,    *)
(* and the page submits every field.                                       *)

(* What was typed into table t is saved in the overrides o.                *)
SavedIn(t, o) ==
  \A f \in Files, d \in Fields : t[f] # NoRow /\ t[f].val[d] \in Manual => o[f][d] = t[f].val[d]

(* Table t is as it was extracted.                                         *)
Raw(t) == \A f \in Files, d \in Fields : t[f] # NoRow => t[f].val[d] \notin Manual

(* The overrides o have the last intent of the person for every field.     *)
Meets(o) == \A f \in Files, d \in Fields : intent[f][d] # None => o[f][d] = intent[f][d]

ManualSaved ==
  /\ pc \in {"extract", "csv"} => Raw(buf)
  /\ pc \in {"xlsx", "apply"} => Raw(csv)
  /\ pc \in HoldPcs => SavedIn(buf, ovrBuf)
  /\ pc = "applyCsv" => SavedIn(buf, overrides)
  /\ pc \notin BarePcs => SavedIn(csv, overrides)

(* The workbook has the rows of the csv, and differs in its values only    *)
(* between two jobs.                                                       *)
SameBook ==
  /\ \A f \in Files : csv[f] # NoRow => "csv" \in made
  /\ pc \notin XlsxPcs => \A f \in Files : xlsx[f] # NoRow => csv[f] # NoRow
  /\ pc \notin {"free", "absorb", "absorbCsv"} \cup XlsxPcs => \A f \in Files : Diff(f) = {}

Intended ==
  /\ pc \in {"free", "absorb"} =>
       \A f \in Files, d \in Fields :
         IF d \in Diff(f) THEN intent[f][d] = xlsx[f].val[d]
         ELSE intent[f][d] # None => overrides[f][d] = intent[f][d]
  /\ pc \in AbsorbPcs \cup {"fieldsOvr"} => Meets(ovrBuf)
  /\ pc \notin AbsorbPcs \cup {"free", "absorb", "fieldsOvr"} => Meets(overrides)

InvE == torn = {} /\ ManualSaved /\ SameBook /\ Intended

-----------------------------------------------------------------------------
(* RowsFollow, while no write fails, no process is killed, no file changes *)
(* between its extraction and the snapshot, and none goes that only the    *)
(* cost analysis has seen.                                                 *)

(* The files the cost outputs hold as they are.                            *)
Costed(f) == detail[f] = disk[f] /\ book[f] = disk[f]

KeepsRows ==
  pc \in {"absorbCsv", "applyCsv", "fieldsOvr", "fieldsCsv"} =>
    \A f \in Files : csv[f] = NoRow <=> buf[f] = NoRow

AllCosted ==
  /\ pc \notin {"book", "snapshot", "save"} =>
       \A f \in Files : disk[f] # 0 /\ processed[f] = disk[f] => Costed(f)
  /\ pc \in {"detail", "book"} =>
       \A f \in Files : csv[f] # NoRow /\ disk[f] # 0 => sigBuf[f] = disk[f]
  /\ pc = "book" => \A f \in Files : csv[f] # NoRow /\ disk[f] # 0 => detail[f] = disk[f]
  /\ pc = "snapshot" => \A f \in Files : csv[f] # NoRow /\ disk[f] # 0 => Costed(f)
  /\ pc = "save" => \A f \in Files : disk[f] # 0 /\ sigBuf[f] = disk[f] => Costed(f)

(* The places between the rewriting of the csv and the next save of the    *)
(* signatures, and those of them before the cost detail is rewritten.      *)
LatePcs == {"book", "snapshot", "save"}
MidPcs  == {"xlsx", "apply", "applyCsv", "applyXlsx", "cost", "detail"}

(* A row is known to detect_source_changes, or its file is there.          *)
NoGhost ==
  /\ pc \notin MidPcs \cup LatePcs => \A f \in Files : csv[f] # NoRow => processed[f] # Unseen
  /\ pc = "save" => \A f \in Files : csv[f] # NoRow => sigBuf[f] # Unseen
  /\ pc \notin MidPcs => \A f \in Files : csv[f] = NoRow /\ detail[f] # 0 => disk[f] # 0
  /\ pc \in {"detail", "book"} => \A f \in Files : csv[f] = NoRow /\ sigBuf[f] # 0 => disk[f] # 0

InvR == Fresh /\ KeepsRows /\ AllCosted /\ NoGhost

-----------------------------------------------------------------------------
(* What the steps do, place by place.                                      *)

LEMMA WriteCsvStep ==
  ASSUME WriteCsv
  PROVE  /\ csv' = buf /\ made' = made \cup {"csv"}
         /\ UNCHANGED <<disk, clock, xlsx, detail, book, torn, overrides, processed,
                        op, todo, buf, ovrBuf, sigBuf, edited, intent, typed>>
         /\ \/ pc = "csv" /\ pc' = "xlsx"
            \/ pc = "absorbCsv" /\ pc' = "absorbXlsx"
            \/ pc = "applyCsv" /\ pc' = "applyXlsx"
            \/ pc = "fieldsCsv" /\ pc' = "fieldsXlsx"
BY DEF WriteCsv, CsvPcs, After, Order, sources, states, user

LEMMA WriteXlsxStep ==
  ASSUME WriteXlsx
  PROVE  /\ xlsx' = buf /\ made' = made \cup {"xlsx"} /\ torn' = torn \ {"xlsx"}
         /\ UNCHANGED <<disk, clock, csv, detail, book, overrides, processed,
                        op, todo, buf, ovrBuf, sigBuf, edited, intent, typed>>
         /\ \/ pc = "xlsx" /\ pc' = "apply"
            \/ pc = "absorbXlsx" /\ pc' = "absorbOvr"
            \/ pc = "applyXlsx" /\ pc' = "cost"
            \/ pc = "fieldsXlsx" /\ pc' = "done"
BY DEF WriteXlsx, XlsxPcs, After, Order, sources, states, user

LEMMA WriteOverridesStep ==
  ASSUME WriteOverrides
  PROVE  /\ overrides' = ovrBuf
         /\ UNCHANGED <<disk, clock, csv, xlsx, detail, book, made, torn, processed,
                        op, todo, buf, ovrBuf, sigBuf, edited, intent, typed>>
         /\ \/ pc = "absorbOvr" /\ pc' = "detect"
            \/ pc = "fieldsOvr" /\ pc' = "fieldsCsv"
BY DEF WriteOverrides, OvrPcs, After, Order, sources, tables, user

LEMMA WriteCostStep ==
  ASSUME WriteDetail \/ WriteBook
  PROVE  /\ detail' = IF pc = "detail" THEN sigBuf ELSE detail
         /\ book' = IF pc = "book" THEN sigBuf ELSE book
         /\ "csv" \in made' <=> "csv" \in made
         /\ "xlsx" \in made' <=> "xlsx" \in made
         /\ torn' \subseteq torn /\ ("xlsx" \in torn' <=> "xlsx" \in torn)
         /\ UNCHANGED <<disk, clock, csv, xlsx, overrides, processed,
                        op, todo, buf, ovrBuf, sigBuf, edited, intent, typed>>
         /\ \/ pc = "detail" /\ pc' = "book"
            \/ pc = "schemaDetail" /\ pc' = "schemaBook"
            \/ pc = "book" /\ pc' = "snapshot"
            \/ pc = "schemaBook" /\ pc' = "done"
BY DEF WriteDetail, WriteBook, DetailPcs, BookPcs, After, Order, sources,
       states, user

(* The steps that leave every output, every override and what is held of   *)
(* them in memory alone, and go from one such place to another.            *)
Plain ==
  \/ StartSync \/ StartRebuild \/ AbsorbNothing \/ Detect
  \/ AnalyseCost \/ Snapshot \/ SaveProcessed \/ Finish

LEMMA PlainStep ==
  ASSUME Plain
  PROVE  /\ UNCHANGED <<disk, clock, csv, xlsx, detail, book, made, torn, overrides,
                        intent, typed>>
         /\ processed' = IF pc = "save" THEN sigBuf ELSE processed
         /\ \/ pc = "free" /\ pc' \in {"absorb", "list"}
            \/ pc = "absorb" /\ pc' = "detect"
            \/ pc = "detect" /\ pc' \in {"list", "schemaDetail", "done"}
            \/ pc = "cost" /\ pc' = "detail" /\ sigBuf' = disk
            \/ pc = "snapshot" /\ pc' = "save" /\ sigBuf' = RecordedSigs
            \/ pc = "save" /\ pc' = "done" /\ UNCHANGED sigBuf
            \/ pc = "done" /\ pc' = "free" /\ sigBuf' = NoSigs
         /\ pc \in {"free", "absorb", "detect"} => UNCHANGED sigBuf
BY DEF Plain, StartSync, StartRebuild, AbsorbNothing, Detect, AnalyseCost,
       Snapshot, SaveProcessed, Finish, EndJob, sources, tables, states, user

(* The listing empties the rows in memory, an extraction adds one.         *)
LEMMA ListStep ==
  ASSUME ListFiles
  PROVE  /\ UNCHANGED <<disk, clock, csv, xlsx, detail, book, made, torn, overrides,
                        processed, ovrBuf, sigBuf, intent, typed>>
         /\ buf' = NoTable
         /\ pc = "list" /\ pc' \in {"csv", "extract"}
BY DEF ListFiles, sources, tables, states, user

LEMMA ExtractStep ==
  ASSUME TypeOK, NEW g \in Files, Extract(g)
  PROVE  /\ UNCHANGED <<disk, clock, csv, xlsx, detail, book, made, torn, overrides,
                        processed, ovrBuf, sigBuf, intent, typed>>
         /\ pc = "extract" /\ pc' \in {"csv", "extract"}
         /\ \A f \in Files, d \in Fields :
              IF f = g THEN buf'[f].val[d] \in Nat ELSE buf'[f] = buf[f]
<1>1. PICK got \in {disk[g]} \cup (IF "unreadable" \in Allowed THEN {0} ELSE {}) :
        buf' = [buf EXCEPT ![g] = [ver |-> got, val |-> [d \in Fields |-> got]]]
  BY DEF Extract
<1>2. got \in Nat /\ buf \in [Files -> Row \cup {NoRow}]
  BY DEF TypeOK, Table
<1> QED
  BY <1>1, <1>2 DEF Extract, sources, tables, states, user

(* What is absorbed: the differing fields of the rows both tables have.    *)
LEMMA AbsorbStep ==
  ASSUME TypeOK, AbsorbEdits
  PROVE  /\ UNCHANGED <<disk, clock, csv, xlsx, detail, book, made, torn, overrides,
                        processed, sigBuf, intent, typed>>
         /\ pc = "absorb" /\ pc' = "absorbCsv"
         /\ \A f \in Files : buf'[f] = NoRow <=> csv[f] = NoRow
         /\ \A f \in Files, d \in Fields : csv[f] # NoRow =>
              buf'[f].val[d] = IF d \in Diff(f) THEN xlsx[f].val[d]
                                                ELSE csv[f].val[d]
         /\ \A f \in Files, d \in Fields :
              ovrBuf'[f][d] = IF d \in Diff(f) THEN xlsx[f].val[d]
                                               ELSE overrides[f][d]
<1> DEFINE new(f, d) == IF d \in Diff(f) THEN xlsx[f].val[d] ELSE csv[f].val[d]
<1>1. ASSUME NEW f \in Files, csv[f] # NoRow
      PROVE  buf'[f] # NoRow
  <2>1. PICK val \in [Fields -> Value] : buf'[f] = WithVal(csv[f], val)
    BY <1>1, RewrittenRow
  <2>2. WithVal(csv[f], val) \in Row
    BY <1>1, WithValType DEF TypeOK, Table
  <2> QED
    BY <2>1, <2>2, ConstantsAssumption
<1>2. ASSUME NEW f \in Files, csv[f] # NoRow
      PROVE  buf'[f].val = [d \in Fields |-> new(f, d)]
  BY <1>2 DEF AbsorbEdits, WithVal
<1>3. \A f \in Files : csv[f] = NoRow => buf'[f] = NoRow
  BY DEF AbsorbEdits
<1>4. \A f \in Files, d \in Fields :
        ovrBuf'[f][d] = IF d \in Diff(f) THEN xlsx[f].val[d] ELSE overrides[f][d]
  BY DEF AbsorbEdits
<1>5. \A f \in Files, d \in Fields : csv[f] # NoRow => buf'[f].val[d] = new(f, d)
  BY <1>2
<1>6. /\ UNCHANGED <<disk, clock, csv, xlsx, detail, book, made, torn, overrides,
                     processed, sigBuf, intent, typed>>
      /\ pc = "absorb" /\ pc' = "absorbCsv"
  BY DEF AbsorbEdits, sources, tables, states, user
<1> QED
  BY <1>1, <1>3, <1>4, <1>5, <1>6

(* What is put over the extracted values: the saved overrides.             *)
LEMMA ApplyStep ==
  ASSUME TypeOK, ApplyOverrides
  PROVE  /\ UNCHANGED <<disk, clock, csv, xlsx, detail, book, made, torn, overrides,
                        processed, ovrBuf, sigBuf, intent, typed>>
         /\ pc = "apply" /\ pc' \in {"cost", "applyCsv"}
         /\ pc' = "cost" => buf' = csv
         /\ \A f \in Files : buf'[f] = NoRow <=> csv[f] = NoRow
         /\ \A f \in Files, d \in Fields : csv[f] # NoRow =>
              buf'[f].val[d] = IF overrides[f][d] # None THEN overrides[f][d]
                                                         ELSE csv[f].val[d]
<1>1. ASSUME NEW f \in Files, csv[f] # NoRow
      PROVE  buf'[f] # NoRow
  <2>1. PICK val \in [Fields -> Value] : buf'[f] = WithVal(csv[f], val)
    BY <1>1, RewrittenRow
  <2>2. WithVal(csv[f], val) \in Row
    BY <1>1, WithValType DEF TypeOK, Table
  <2> QED
    BY <2>1, <2>2, ConstantsAssumption
<1>2. ASSUME NEW f \in Files, csv[f] # NoRow
      PROVE  buf'[f].val = [d \in Fields |-> Shown(f, d)]
  BY <1>2 DEF ApplyOverrides, Applied, WithVal
<1>3. \A f \in Files : csv[f] = NoRow => buf'[f] = NoRow
  BY DEF ApplyOverrides, Applied
<1>4. \A f \in Files, d \in Fields : csv[f] # NoRow =>
        buf'[f].val[d] = IF overrides[f][d] # None THEN overrides[f][d]
                                                   ELSE csv[f].val[d]
  BY <1>2 DEF Shown
<1>5. /\ UNCHANGED <<disk, clock, csv, xlsx, detail, book, made, torn, overrides,
                     processed, ovrBuf, sigBuf, intent, typed>>
      /\ pc = "apply" /\ pc' \in {"cost", "applyCsv"}
      /\ pc' = "cost" => buf' = csv
  BY DEF ApplyOverrides, sources, tables, states, user
<1> QED
  BY <1>1, <1>3, <1>4, <1>5

(* What a PATCH will save: the submitted fields, the others not overridden.*)
LEMMA PatchStep ==
  ASSUME TypeOK, NEW g \in Files, NEW b \in Fields, NEW v \in Manual, NEW names,
         StartPatch(g, b, v, names)
  PROVE  /\ UNCHANGED <<disk, clock, csv, xlsx, detail, book, made, torn, overrides,
                        processed, sigBuf>>
         /\ pc = "free" /\ pc' = "fieldsOvr" /\ csv[g] # NoRow
         /\ "pendingPatch" \notin Allowed => ~PendingEdit
         /\ "partial" \notin Allowed => names = Fields
         /\ \A f \in Files : buf'[f] = NoRow <=> csv[f] = NoRow
         /\ \A f \in Files, d \in Fields : csv[f] # NoRow =>
              buf'[f].val[d] = IF f = g /\ d \in names
                               THEN (IF d = b THEN v ELSE Shown(g, d))
                               ELSE csv[f].val[d]
         /\ \A f \in Files, d \in Fields :
              ovrBuf'[f][d] = IF f # g THEN overrides[f][d]
                              ELSE IF d \notin names THEN None
                              ELSE IF d = b THEN v ELSE Shown(g, d)
         /\ \A f \in Files, d \in Fields :
              intent'[f][d] = IF f = g /\ d = b THEN v ELSE intent[f][d]
         /\ typed \subseteq typed'
         /\ \A d \in names : <<g, d, IF d = b THEN v ELSE Shown(g, d)>> \in typed'
<1> DEFINE sent(e) == IF e = b THEN v ELSE Shown(g, e)
           kept(e) == IF e \in names THEN sent(e) ELSE csv[g].val[e]
           ovr(e)  == IF e \in names THEN sent(e) ELSE None
<1>1. /\ UNCHANGED <<disk, clock, csv, xlsx, detail, book, made, torn, overrides,
                     processed, sigBuf>>
      /\ pc = "free" /\ pc' = "fieldsOvr" /\ csv[g] # NoRow
      /\ "pendingPatch" \notin Allowed => ~PendingEdit
      /\ "partial" \notin Allowed => names = Fields
  BY DEF StartPatch, sources, tables, states
<1>2. csv \in [Files -> Row \cup {NoRow}] /\ csv[g] \in Row
  BY <1>1 DEF TypeOK, Table
<1>3. /\ overrides \in [Files -> Override] /\ intent \in [Files -> Override]
  BY DEF TypeOK
<1>4. \A f \in Files : buf'[f] = NoRow <=> csv[f] = NoRow
  <2>1. PICK val \in [Fields -> Value] :
          buf' = [csv EXCEPT ![g] = WithVal(csv[g], val)]
    BY PatchedRow
  <2>2. WithVal(csv[g], val) \in Row
    BY <1>2, WithValType
  <2> QED
    BY <1>1, <1>2, <2>1, <2>2, ConstantsAssumption
<1>5. buf' = [csv EXCEPT ![g] = WithVal(csv[g], [e \in Fields |-> kept(e)])]
  BY DEF StartPatch
<1>6. WithVal(csv[g], [e \in Fields |-> kept(e)]).val = [e \in Fields |-> kept(e)]
  BY DEF WithVal
<1>7. ovrBuf' = [overrides EXCEPT ![g] = [e \in Fields |-> ovr(e)]]
  BY DEF StartPatch
<1>8. intent' = [intent EXCEPT ![g][b] = v]
  BY DEF StartPatch
<1>9. typed' = typed \cup {<<g, e, sent(e)>> : e \in names}
  BY DEF StartPatch
<1>10. \A f \in Files, d \in Fields :
         intent'[f][d] = IF f = g /\ d = b THEN v ELSE intent[f][d]
  BY <1>3, <1>8 DEF Override
<1>11. \A f \in Files, d \in Fields :
         ovrBuf'[f][d] = IF f # g THEN overrides[f][d] ELSE ovr(d)
  <2> HIDE DEF ovr
  <2> QED
    BY <1>3, <1>7
<1>12. \A f \in Files, d \in Fields : csv[f] # NoRow =>
         buf'[f].val[d] = IF f = g THEN kept(d) ELSE csv[f].val[d]
  <2> HIDE DEF kept
  <2> QED
    BY <1>2, <1>5, <1>6
<1> QED
  BY <1>1, <1>4, <1>9, <1>10, <1>11, <1>12

(* An edit in Excel.                                                       *)
LEMMA ExcelStep ==
  ASSUME TypeOK, NEW g \in Files, NEW b \in Fields, NEW v \in Manual,
         ExcelSave(g, b, v)
  PROVE  /\ UNCHANGED <<disk, clock, csv, detail, book, made, torn, overrides,
                        processed, op, pc, todo, buf, ovrBuf, sigBuf>>
         /\ "excelrace" \notin Allowed => pc = "free"
         /\ Readable("xlsx") /\ xlsx[g] # NoRow
         /\ \A f \in Files : xlsx'[f] = NoRow <=> xlsx[f] = NoRow
         /\ \A f \in Files, d \in Fields : xlsx[f] # NoRow =>
              xlsx'[f].val[d] = IF f = g /\ d = b THEN v ELSE xlsx[f].val[d]
         /\ \A f \in Files, d \in Fields :
              intent'[f][d] = IF f = g /\ d = b THEN v ELSE intent[f][d]
         /\ typed' = typed \cup {<<g, b, v>>}
<1>1. /\ UNCHANGED <<disk, clock, csv, detail, book, made, torn, overrides,
                     processed, op, pc, todo, buf, ovrBuf, sigBuf>>
      /\ "excelrace" \notin Allowed => pc = "free"
      /\ Readable("xlsx") /\ xlsx[g] # NoRow
      /\ xlsx' = [xlsx EXCEPT ![g] = WithVal(xlsx[g], [xlsx[g].val EXCEPT ![b] = v])]
      /\ intent' = [intent EXCEPT ![g][b] = v]
      /\ typed' = typed \cup {<<g, b, v>>}
  BY DEF ExcelSave, sources, states, job
<1>2. xlsx \in [Files -> Row \cup {NoRow}] /\ xlsx[g] \in Row
  BY <1>1 DEF TypeOK, Table
<1>3. xlsx[g].val \in [Fields -> Value]
  BY <1>2 DEF Row
<1>4. [xlsx[g].val EXCEPT ![b] = v] \in [Fields -> Value]
  BY <1>3 DEF Value
<1>5. WithVal(xlsx[g], [xlsx[g].val EXCEPT ![b] = v]) \in Row
  BY <1>2, <1>4, WithValType
<1>6. WithVal(xlsx[g], [xlsx[g].val EXCEPT ![b] = v]).val = [xlsx[g].val EXCEPT ![b] = v]
  BY DEF WithVal
<1>7. \A f \in Files : xlsx'[f] = NoRow <=> xlsx[f] = NoRow
  BY <1>1, <1>2, <1>5, ConstantsAssumption
<1>8. \A f \in Files, d \in Fields : xlsx[f] # NoRow =>
        xlsx'[f].val[d] = IF f = g /\ d = b THEN v ELSE xlsx[f].val[d]
  BY <1>1, <1>2, <1>3, <1>6
<1>9. \A f \in Files, d \in Fields :
        intent'[f][d] = IF f = g /\ d = b THEN v ELSE intent[f][d]
  BY <1>1 DEF TypeOK, Override
<1> QED
  BY <1>1, <1>7, <1>8, <1>9

(* A file of the folder is saved or deleted.                               *)
LEMMA FileStep ==
  ASSUME NEW g \in Files, SaveFile(g) \/ DeleteFile(g)
  PROVE  UNCHANGED <<csv, xlsx, detail, book, made, torn, overrides, processed,
                     op, pc, todo, buf, ovrBuf, sigBuf, intent, typed>>
BY DEF SaveFile, DeleteFile, tables, states, job, user

(* Nothing the differences are taken from has changed.                     *)
LEMMA SameDiff ==
  ASSUME UNCHANGED <<csv, xlsx>>, "csv" \in made' <=> "csv" \in made,
         "xlsx" \in made' <=> "xlsx" \in made, "xlsx" \in torn' <=> "xlsx" \in torn
  PROVE  \A f \in Files : Diff(f)' = Diff(f)
BY DEF Diff, Readable

(* A workbook with the rows of the csv differs from it nowhere.            *)
LEMMA NoDiff ==
  ASSUME xlsx = csv
  PROVE  \A f \in Files : Diff(f) = {}
BY DEF Diff

-----------------------------------------------------------------------------
(* Every step keeps InvO when no write fails and no process is killed.     *)
LEMMA InvOStep ==
  ASSUME TypeOK, InvO, [Next]_vars, "ioerror" \notin Allowed, "crash" \notin Allowed
  PROVE  InvO'
<1> USE DEF InvO, HoldPcs, BarePcs, AbsorbPcs, XlsxPcs
<1>1. ASSUME NEW g \in Files, SaveFile(g) \/ DeleteFile(g) PROVE InvO'
  BY <1>1, FileStep, SameDiff
  DEF InStep, DiffTyped, BufShown, CsvShown, AllTyped, ShownIn, TypedIn
<1>2. ASSUME NEW g \in Files, NEW b \in Fields, NEW v \in Manual, ExcelSave(g, b, v)
      PROVE  InvO'
  <2>1. /\ UNCHANGED <<csv, made, torn, overrides, pc, buf, ovrBuf>>
        /\ \A f \in Files : xlsx'[f] = NoRow <=> xlsx[f] = NoRow
        /\ \A f \in Files, d \in Fields : xlsx[f] # NoRow =>
             xlsx'[f].val[d] = IF f = g /\ d = b THEN v ELSE xlsx[f].val[d]
        /\ typed' = typed \cup {<<g, b, v>>}
    BY <1>2, ExcelStep
  <2>2. DiffTyped'
    BY <2>1 DEF DiffTyped, Diff, Readable
  <2> QED
    BY <2>1, <2>2 DEF InStep, BufShown, CsvShown, AllTyped, ShownIn, TypedIn
<1>3. CASE Plain
  BY <1>3, PlainStep, SameDiff
  DEF InStep, DiffTyped, BufShown, CsvShown, AllTyped, ShownIn, TypedIn
<1>4. ASSUME NEW g \in Files, NEW b \in Fields, NEW v \in Manual,
             NEW names \in {Fields, {b}}, StartPatch(g, b, v, names)
      PROVE InvO'
  <2>1. /\ UNCHANGED <<csv, xlsx, made, torn, overrides>>
        /\ pc = "free" /\ pc' = "fieldsOvr"
        /\ \A f \in Files : buf'[f] = NoRow <=> csv[f] = NoRow
        /\ \A f \in Files, d \in Fields : csv[f] # NoRow =>
             buf'[f].val[d] = IF f = g /\ d \in names
                              THEN (IF d = b THEN v ELSE Shown(g, d))
                              ELSE csv[f].val[d]
        /\ \A f \in Files, d \in Fields :
             ovrBuf'[f][d] = IF f # g THEN overrides[f][d]
                             ELSE IF d \notin names THEN None
                             ELSE IF d = b THEN v ELSE Shown(g, d)
        /\ typed \subseteq typed'
        /\ \A d \in names : <<g, d, IF d = b THEN v ELSE Shown(g, d)>> \in typed'
    BY <1>4, PatchStep
  <2>2. DiffTyped'
    BY <2>1, SameDiff DEF DiffTyped
  <2>3. BufShown'
    BY <2>1 DEF BufShown, CsvShown, ShownIn
  <2>4. AllTyped'
    BY <2>1 DEF AllTyped, TypedIn
  <2> QED
    BY <2>1, <2>2, <2>3, <2>4 DEF InStep, CsvShown, ShownIn
<1>5. CASE WriteCsv
  BY <1>5, WriteCsvStep
  DEF InStep, DiffTyped, BufShown, CsvShown, AllTyped, ShownIn, TypedIn
<1>6. CASE WriteXlsx
  <2>1. /\ xlsx' = buf
        /\ UNCHANGED <<csv, overrides, buf, ovrBuf, typed>>
        /\ \/ pc = "xlsx" /\ pc' = "apply"
           \/ pc = "absorbXlsx" /\ pc' = "absorbOvr"
           \/ pc = "applyXlsx" /\ pc' = "cost"
           \/ pc = "fieldsXlsx" /\ pc' = "done"
    BY <1>6, WriteXlsxStep
  <2>2. xlsx' = csv'
    BY <2>1 DEF InStep
  <2>3. \A f \in Files : Diff(f)' = {}
    BY <2>2 DEF Diff
  <2> QED
    BY <2>1, <2>3
    DEF InStep, DiffTyped, BufShown, CsvShown, AllTyped, ShownIn, TypedIn
<1>7. CASE WriteOverrides
  BY <1>7, WriteOverridesStep, SameDiff
  DEF InStep, DiffTyped, BufShown, CsvShown, AllTyped, ShownIn, TypedIn
<1>8. CASE WriteDetail \/ WriteBook
  BY <1>8, WriteCostStep, SameDiff
  DEF InStep, DiffTyped, BufShown, CsvShown, AllTyped, ShownIn, TypedIn
<1>9. CASE AbsorbEdits
  <2>1. /\ UNCHANGED <<csv, xlsx, made, torn, overrides, typed>>
        /\ pc = "absorb" /\ pc' = "absorbCsv"
        /\ \A f \in Files : buf'[f] = NoRow <=> csv[f] = NoRow
        /\ \A f \in Files, d \in Fields : csv[f] # NoRow =>
             buf'[f].val[d] = IF d \in Diff(f) THEN xlsx[f].val[d]
                                               ELSE csv[f].val[d]
        /\ \A f \in Files, d \in Fields :
             ovrBuf'[f][d] = IF d \in Diff(f) THEN xlsx[f].val[d]
                                              ELSE overrides[f][d]
    BY <1>9, AbsorbStep
  <2>2. DiffTyped'
    BY <2>1, SameDiff DEF DiffTyped
  <2>3. BufShown'
    BY <2>1 DEF BufShown, CsvShown, ShownIn
  <2>4. AllTyped'
    BY <2>1 DEF AllTyped, TypedIn, DiffTyped
  <2> QED
    BY <2>1, <2>2, <2>3, <2>4 DEF InStep, CsvShown
<1>10. CASE ListFiles
  BY <1>10, ListStep, SameDiff
  DEF InStep, DiffTyped, BufShown, CsvShown, AllTyped, ShownIn, TypedIn
<1>11. ASSUME NEW g \in Files, Extract(g) PROVE InvO'
  BY <1>11, ExtractStep, SameDiff
  DEF InStep, DiffTyped, BufShown, CsvShown, AllTyped, ShownIn, TypedIn
<1>12. CASE ApplyOverrides
  <2>1. /\ UNCHANGED <<csv, xlsx, made, torn, overrides, ovrBuf, typed>>
        /\ pc = "apply" /\ pc' \in {"cost", "applyCsv"}
        /\ pc' = "cost" => buf' = csv
        /\ \A f \in Files : buf'[f] = NoRow <=> csv[f] = NoRow
        /\ \A f \in Files, d \in Fields : csv[f] # NoRow =>
             buf'[f].val[d] = IF overrides[f][d] # None THEN overrides[f][d]
                                                        ELSE csv[f].val[d]
    BY <1>12, ApplyStep
  <2>2. ShownIn(buf', overrides)
    BY <2>1 DEF ShownIn
  <2>3. BufShown' /\ CsvShown'
    BY <2>1, <2>2 DEF BufShown, CsvShown, ShownIn
  <2> QED
    BY <2>1, <2>3, SameDiff DEF InStep, DiffTyped, AllTyped, TypedIn
<1>13. CASE \E cut : FailWrite(cut) \/ Crash(cut)
  BY <1>13 DEF FailWrite, Crash
<1>14. CASE UNCHANGED vars
  <2>1. UNCHANGED <<csv, xlsx, made, torn, overrides, pc, buf, ovrBuf, typed>>
    BY <1>14 DEF vars, tables, states, job, user
  <2> QED
    BY <2>1, SameDiff
    DEF InStep, DiffTyped, BufShown, CsvShown, AllTyped, ShownIn, TypedIn
<1> QED
  BY <1>1, <1>2, <1>3, <1>4, <1>5, <1>6, <1>7, <1>8, <1>9, <1>10, <1>11,
     <1>12, <1>13, <1>14
  DEF Next, JobStep, Plain

(* What a job saved under an override it shows: detect_source_changes, the *)
(* absorption of the workbook, the rebuild and a PATCH put the overrides   *)
(* back over whatever they wrote, and nothing but what a person typed ever *)
(* becomes one, as long as no write fails and no process is killed.        *)
THEOREM OverridesAreShown ==
  ASSUME "ioerror" \notin Allowed, "crash" \notin Allowed
  PROVE  Spec => []OverridesFollow
<1>1. Init => TypeOK /\ CostSigs /\ InvO
  <2> SUFFICES ASSUME Init PROVE TypeOK /\ CostSigs /\ InvO
    OBVIOUS
  <2>1. \A f \in Files : Diff(f) = {}
    BY DEF Init, Diff
  <2>2. \A f \in Files, d \in Fields : overrides[f][d] = None
    BY DEF Init, NoOverrides
  <2>3. pc = "free"
    BY DEF Init
  <2>4. InvO
    BY <2>1, <2>2, <2>3
    DEF InvO, InStep, DiffTyped, BufShown, CsvShown, AllTyped, ShownIn, TypedIn,
        HoldPcs, BarePcs, AbsorbPcs, XlsxPcs
  <2> QED
    BY <2>4, InitType
<1>2. TypeOK /\ CostSigs /\ InvO /\ [Next]_vars => (TypeOK /\ CostSigs /\ InvO)'
  BY TypeStep, CostSigsStep, InvOStep
<1>3. InvO => OverridesFollow
  BY DEF InvO, CsvShown, AllTyped, ShownIn, TypedIn, OverridesFollow,
         OverridesShown, OverridesTyped, Settled, AtRest, BarePcs, HoldPcs, AbsorbPcs
<1> QED
  BY <1>1, <1>2, <1>3, PTL DEF Spec

-----------------------------------------------------------------------------
(* Every step keeps InvE under what EditsAreKept assumes.                  *)

Careful ==
  Allowed \cap {"ioerror", "crash", "excelrace", "pendingRebuild", "pendingPatch",
                "partial"} = {}

(* Where the job holds, writes and shows what, in a step that leaves the   *)
(* outputs, the overrides and the memory alone.                            *)
LEMMA InvESame ==
  ASSUME InvE,
         UNCHANGED <<csv, xlsx, overrides, buf, ovrBuf, intent, torn>>,
         "csv" \in made' <=> "csv" \in made, "xlsx" \in made' <=> "xlsx" \in made,
         pc \notin {"free", "absorb"} \/ pc' \in {"free", "absorb"}
           \/ (\A f \in Files : Diff(f) = {}),
         pc' \in {"free", "absorb"} =>
           pc \in {"free", "absorb"} \/ pc \notin AbsorbPcs \cup XlsxPcs \cup {"fieldsOvr"},
         pc' \in {"extract", "csv"} => pc = pc' \/ Raw(buf),
         pc' \in {"xlsx", "apply"} => pc = pc',
         pc' \in HoldPcs \cup XlsxPcs \cup {"applyCsv"} => pc = pc',
         pc \in BarePcs \cup XlsxPcs => pc' = pc
  PROVE  InvE'
<1> USE DEF InvE, HoldPcs, BarePcs, AbsorbPcs, XlsxPcs
<1>1. \A f \in Files : Diff(f)' = Diff(f)
  BY DEF Diff, Readable
<1>2. ManualSaved'
  BY DEF ManualSaved, Raw, SavedIn
<1>3. SameBook'
  BY <1>1 DEF SameBook
<1>4. Intended'
  BY <1>1 DEF Intended, SameBook, Meets
<1> QED
  BY <1>2, <1>3, <1>4

LEMMA InvEStep ==
  ASSUME TypeOK, InvO, InvE, [Next]_vars, Careful
  PROVE  InvE'
<1> USE DEF InvE, HoldPcs, BarePcs, AbsorbPcs, XlsxPcs
<1>0. /\ "ioerror" \notin Allowed /\ "crash" \notin Allowed
      /\ "excelrace" \notin Allowed /\ "pendingRebuild" \notin Allowed
      /\ "pendingPatch" \notin Allowed /\ "partial" \notin Allowed
  BY DEF Careful
<1>a. Manual \cap Nat = {} /\ None \notin Manual /\ None \notin Nat
  BY ConstantsAssumption
<1>1. ASSUME NEW g \in Files, SaveFile(g) \/ DeleteFile(g) PROVE InvE'
  <2>1. UNCHANGED <<csv, xlsx, overrides, buf, ovrBuf, intent, torn, made, pc>>
    BY <1>1, FileStep
  <2> QED
    BY <2>1, InvESame
<1>2. ASSUME NEW g \in Files, NEW b \in Fields, NEW v \in Manual, ExcelSave(g, b, v)
      PROVE  InvE'
  <2>1. /\ UNCHANGED <<csv, made, torn, overrides, pc, buf, ovrBuf>>
        /\ pc = "free"
        /\ Readable("xlsx") /\ xlsx[g] # NoRow
        /\ \A f \in Files : xlsx'[f] = NoRow <=> xlsx[f] = NoRow
        /\ \A f \in Files, d \in Fields : xlsx[f] # NoRow =>
             xlsx'[f].val[d] = IF f = g /\ d = b THEN v ELSE xlsx[f].val[d]
        /\ \A f \in Files, d \in Fields :
             intent'[f][d] = IF f = g /\ d = b THEN v ELSE intent[f][d]
    BY <1>0, <1>2, ExcelStep
  <2>2. csv[g] # NoRow /\ "csv" \in made
    BY <2>1 DEF SameBook
  <2>3. ASSUME NEW f \in Files, NEW d \in Fields, ~(f = g /\ d = b)
        PROVE  d \in Diff(f)' <=> d \in Diff(f)
    BY <2>1, <2>3 DEF Diff, Readable
  <2>4. b \in Diff(g)' <=> csv[g].val[b] # v
    BY <2>1, <2>2 DEF Diff, Readable
  <2>5. csv[g].val[b] = v => overrides[g][b] = v
    BY <2>1, <2>2 DEF ManualSaved, SavedIn
  <2>6. Intended'
    <3>1. ASSUME NEW f \in Files, NEW d \in Fields
          PROVE  (IF d \in Diff(f) THEN intent[f][d] = xlsx[f].val[d]
                  ELSE intent[f][d] # None => overrides[f][d] = intent[f][d])'
      <4>1. CASE f = g /\ d = b
        BY <2>1, <2>4, <2>5, <4>1
      <4>2. CASE ~(f = g /\ d = b)
        <5>1. d \in Diff(f) => xlsx[f] # NoRow
          BY DEF Diff
        <5> QED
          BY <2>1, <2>3, <4>2, <5>1 DEF Intended
      <4> QED
        BY <4>1, <4>2
    <3> QED
      BY <2>1, <3>1 DEF Intended
  <2>7. ManualSaved' /\ SameBook' /\ torn' = {}
    BY <2>1 DEF ManualSaved, Raw, SavedIn, SameBook
  <2> QED
    BY <2>6, <2>7
<1>3. CASE Plain /\ pc # "done"
  <2>1. /\ UNCHANGED <<csv, xlsx, made, torn, overrides, intent, buf, ovrBuf>>
        /\ \/ pc = "free" /\ pc' = "absorb"
           \/ pc = "free" /\ pc' = "list" /\ ~PendingEdit
           \/ pc = "absorb" /\ pc' = "detect" /\ ~PendingEdit
           \/ pc = "detect" /\ pc' \in {"list", "schemaDetail", "done"}
           \/ pc = "cost" /\ pc' = "detail"
           \/ pc = "snapshot" /\ pc' = "save"
           \/ pc = "save" /\ pc' = "done"
    BY <1>0, <1>3 DEF Plain, StartSync, StartRebuild, AbsorbNothing, Detect,
       AnalyseCost, Snapshot, SaveProcessed, Finish, tables, states, user
  <2>2. ~PendingEdit => \A f \in Files : Diff(f) = {}
    BY DEF PendingEdit
  <2> QED
    BY <2>1, <2>2, InvESame
<1>4. CASE Finish
  <2>1. /\ UNCHANGED <<csv, xlsx, made, torn, overrides, intent>>
        /\ pc = "done" /\ pc' = "free"
    BY <1>4 DEF Finish, EndJob, tables, user
  <2>2. \A f \in Files : Diff(f)' = Diff(f)
    BY <2>1, SameDiff
  <2> QED
    BY <2>1, <2>2 DEF ManualSaved, Raw, SavedIn, SameBook, Intended, Meets
<1>5. ASSUME NEW g \in Files, NEW b \in Fields, NEW v \in Manual,
             NEW names \in {Fields, {b}}, StartPatch(g, b, v, names)
      PROVE InvE'
  <2>1. /\ UNCHANGED <<csv, xlsx, made, torn, overrides>>
        /\ pc = "free" /\ pc' = "fieldsOvr" /\ csv[g] # NoRow
        /\ ~PendingEdit /\ names = Fields
        /\ \A f \in Files : buf'[f] = NoRow <=> csv[f] = NoRow
        /\ \A f \in Files, d \in Fields : csv[f] # NoRow =>
             buf'[f].val[d] = IF f = g /\ d \in names
                              THEN (IF d = b THEN v ELSE Shown(g, d))
                              ELSE csv[f].val[d]
        /\ \A f \in Files, d \in Fields :
             ovrBuf'[f][d] = IF f # g THEN overrides[f][d]
                             ELSE IF d \notin names THEN None
                             ELSE IF d = b THEN v ELSE Shown(g, d)
        /\ \A f \in Files, d \in Fields :
             intent'[f][d] = IF f = g /\ d = b THEN v ELSE intent[f][d]
    BY <1>0, <1>5, PatchStep
  <2>2. \A f \in Files : Diff(f) = {} /\ Diff(f)' = {}
    BY <2>1, SameDiff DEF PendingEdit
  <2>3. SavedIn(csv, overrides)
    BY <2>1 DEF ManualSaved
  <2>4. SavedIn(buf', ovrBuf')
    BY <2>1, <2>3 DEF SavedIn
  <2>5. ManualSaved'
    BY <2>1, <2>4 DEF ManualSaved, SavedIn
  <2>6. SameBook'
    BY <2>1, <2>2 DEF SameBook
  <2>7. \A f \in Files, d \in Fields : intent[f][d] # None => overrides[f][d] = intent[f][d]
    BY <2>1, <2>2 DEF Intended
  <2>8. Intended'
    BY <2>1, <2>7 DEF Intended, Meets, Shown
  <2> QED
    BY <2>1, <2>5, <2>6, <2>8
<1>6. CASE WriteCsv
  <2>1. /\ csv' = buf /\ made' = made \cup {"csv"}
        /\ UNCHANGED <<xlsx, torn, overrides, buf, ovrBuf, intent>>
        /\ \/ pc = "csv" /\ pc' = "xlsx"
           \/ pc = "absorbCsv" /\ pc' = "absorbXlsx"
           \/ pc = "applyCsv" /\ pc' = "applyXlsx"
           \/ pc = "fieldsCsv" /\ pc' = "fieldsXlsx"
    BY <1>6, WriteCsvStep
  <2>2. ManualSaved'
    BY <2>1 DEF ManualSaved, Raw, SavedIn
  <2>3. SameBook'
    BY <2>1 DEF SameBook
  <2>4. Intended'
    BY <2>1 DEF Intended, Meets
  <2> QED
    BY <2>1, <2>2, <2>3, <2>4
<1>7. CASE WriteXlsx
  <2>1. /\ xlsx' = buf
        /\ "csv" \in made' <=> "csv" \in made
        /\ torn' = torn \ {"xlsx"}
        /\ UNCHANGED <<csv, overrides, buf, ovrBuf, intent>>
        /\ \/ pc = "xlsx" /\ pc' = "apply"
           \/ pc = "absorbXlsx" /\ pc' = "absorbOvr"
           \/ pc = "applyXlsx" /\ pc' = "cost"
           \/ pc = "fieldsXlsx" /\ pc' = "done"
    BY <1>7, WriteXlsxStep
  <2>2. csv = buf /\ xlsx' = csv'
    BY <2>1 DEF InvO, InStep
  <2>3. \A f \in Files : Diff(f)' = {}
    BY <2>2 DEF Diff
  <2>4. ManualSaved'
    BY <2>1, <2>2 DEF ManualSaved, Raw, SavedIn, InvO, BufShown
  <2>5. SameBook'
    BY <2>1, <2>2, <2>3 DEF SameBook
  <2>6. Intended'
    BY <2>1, <2>3 DEF Intended, Meets
  <2> QED
    BY <2>1, <2>4, <2>5, <2>6
<1>8. CASE WriteOverrides
  <2>1. /\ overrides' = ovrBuf
        /\ UNCHANGED <<csv, xlsx, made, torn, buf, ovrBuf, intent>>
        /\ \/ pc = "absorbOvr" /\ pc' = "detect"
           \/ pc = "fieldsOvr" /\ pc' = "fieldsCsv"
    BY <1>8, WriteOverridesStep
  <2>2. \A f \in Files : Diff(f)' = Diff(f)
    BY <2>1, SameDiff
  <2>3. pc = "absorbOvr" => csv = buf
    BY DEF InvO, InStep
  <2>4. ManualSaved'
    BY <2>1, <2>3 DEF ManualSaved, Raw, SavedIn
  <2>5. SameBook'
    BY <2>1, <2>2 DEF SameBook
  <2>6. Intended'
    BY <2>1 DEF Intended, Meets
  <2> QED
    BY <2>1, <2>4, <2>5, <2>6
<1>9. CASE WriteDetail \/ WriteBook
  <2>1. /\ UNCHANGED <<csv, xlsx, overrides, buf, ovrBuf, intent>>
        /\ "csv" \in made' <=> "csv" \in made
        /\ "xlsx" \in made' <=> "xlsx" \in made
        /\ torn' \subseteq torn
        /\ \/ pc = "detail" /\ pc' = "book"
           \/ pc = "schemaDetail" /\ pc' = "schemaBook"
           \/ pc = "book" /\ pc' = "snapshot"
           \/ pc = "schemaBook" /\ pc' = "done"
    BY <1>9, WriteCostStep
  <2> QED
    BY <2>1, InvESame
<1>10. CASE AbsorbEdits
  <2>1. /\ UNCHANGED <<csv, xlsx, made, torn, overrides, intent>>
        /\ pc = "absorb" /\ pc' = "absorbCsv"
        /\ \A f \in Files : buf'[f] = NoRow <=> csv[f] = NoRow
        /\ \A f \in Files, d \in Fields : csv[f] # NoRow =>
             buf'[f].val[d] = IF d \in Diff(f) THEN xlsx[f].val[d]
                                               ELSE csv[f].val[d]
        /\ \A f \in Files, d \in Fields :
             ovrBuf'[f][d] = IF d \in Diff(f) THEN xlsx[f].val[d]
                                              ELSE overrides[f][d]
    BY <1>10, AbsorbStep
  <2>2. \A f \in Files : Diff(f)' = Diff(f)
    BY <2>1, SameDiff
  <2>3. SavedIn(csv, overrides)
    BY <2>1 DEF ManualSaved
  <2>4. SavedIn(buf', ovrBuf')
    BY <2>1, <2>3 DEF SavedIn
  <2>5. ManualSaved'
    BY <2>1, <2>4 DEF ManualSaved, SavedIn
  <2>6. SameBook'
    BY <2>1 DEF SameBook
  <2>7. Intended'
    BY <2>1 DEF Intended, Meets
  <2> QED
    BY <2>1, <2>5, <2>6, <2>7
<1>11. CASE ListFiles
  <2>1. /\ UNCHANGED <<csv, xlsx, made, torn, overrides, ovrBuf, intent>>
        /\ buf' = NoTable
        /\ pc = "list" /\ pc' \in {"csv", "extract"}
    BY <1>11, ListStep
  <2>2. \A f \in Files : Diff(f)' = Diff(f)
    BY <2>1, SameDiff
  <2> QED
    BY <2>1, <2>2
    DEF NoTable, ManualSaved, Raw, SavedIn, SameBook, Intended, Meets
<1>12. ASSUME NEW g \in Files, Extract(g) PROVE InvE'
  <2>1. /\ UNCHANGED <<csv, xlsx, made, torn, overrides, ovrBuf, intent>>
        /\ pc = "extract" /\ pc' \in {"csv", "extract"}
        /\ \A f \in Files, d \in Fields :
             IF f = g THEN buf'[f].val[d] \in Nat ELSE buf'[f] = buf[f]
    BY <1>12, ExtractStep
  <2>2. \A f \in Files : Diff(f)' = Diff(f)
    BY <2>1, SameDiff
  <2>3. Raw(buf')
    BY <1>a, <2>1 DEF ManualSaved, Raw
  <2>4. ManualSaved'
    BY <2>1, <2>3 DEF ManualSaved, Raw, SavedIn
  <2> QED
    BY <2>1, <2>2, <2>4 DEF SameBook, Intended, Meets
<1>13. CASE ApplyOverrides
  <2>1. /\ UNCHANGED <<csv, xlsx, made, torn, overrides, ovrBuf, intent>>
        /\ pc = "apply" /\ pc' \in {"cost", "applyCsv"}
        /\ pc' = "cost" => buf' = csv
        /\ \A f \in Files : buf'[f] = NoRow <=> csv[f] = NoRow
        /\ \A f \in Files, d \in Fields : csv[f] # NoRow =>
             buf'[f].val[d] = IF overrides[f][d] # None THEN overrides[f][d]
                                                        ELSE csv[f].val[d]
    BY <1>13, ApplyStep
  <2>2. \A f \in Files : Diff(f)' = Diff(f)
    BY <2>1, SameDiff
  <2>3. Raw(csv)
    BY <2>1 DEF ManualSaved
  <2>4. SavedIn(buf', overrides)
    BY <2>1, <2>3 DEF Raw, SavedIn
  <2>5. ManualSaved'
    BY <2>1, <2>4 DEF ManualSaved, SavedIn
  <2> QED
    BY <2>1, <2>2, <2>5 DEF SameBook, Intended, Meets
<1>14. CASE \E cut : FailWrite(cut) \/ Crash(cut)
  BY <1>0, <1>14 DEF FailWrite, Crash
<1>15. CASE UNCHANGED vars
  <2>1. UNCHANGED <<csv, xlsx, overrides, buf, ovrBuf, intent, torn, made, pc>>
    BY <1>15 DEF vars, tables, states, job, user
  <2> QED
    BY <2>1, InvESame
<1>16. Finish \/ (Plain /\ pc # "done") \/ ~Plain
  BY DEF Plain, StartSync, StartRebuild, AbsorbNothing, Detect, AnalyseCost,
         Snapshot, SaveProcessed
<1> QED
  BY <1>1, <1>2, <1>3, <1>4, <1>5, <1>6, <1>7, <1>8, <1>9, <1>10, <1>11,
     <1>12, <1>13, <1>14, <1>15, <1>16
  DEF Next, JobStep, Plain

(* A correction of a field stays in the overrides, or is held by the job   *)
(* that saves it, or waits in the workbook for the next sync, as long as   *)
(* no write fails, no process is killed, Excel saves only between jobs, no *)
(* rebuild or PATCH starts before the sync has absorbed what was typed in  *)
(* Excel, and the page submits every field: what is left when one of these *)
(* goes wrong is another matter, see the README.                           *)
THEOREM EditsAreKept ==
  ASSUME Careful
  PROVE  Spec => []EditsNotLost
<1>1. Init => TypeOK /\ CostSigs /\ InvO /\ InvE
  <2> SUFFICES ASSUME Init PROVE TypeOK /\ CostSigs /\ InvO /\ InvE
    OBVIOUS
  <2>1. \A f \in Files : Diff(f) = {}
    BY DEF Init, Diff
  <2>2. \A f \in Files, d \in Fields : overrides[f][d] = None /\ intent[f][d] = None
    BY DEF Init, NoOverrides
  <2>3. \A f \in Files : csv[f] = NoRow /\ xlsx[f] = NoRow
    BY DEF Init, NoTable
  <2>4. pc = "free" /\ torn = {}
    BY DEF Init
  <2>5. InvO
    BY <2>1, <2>2, <2>4
    DEF InvO, InStep, DiffTyped, BufShown, CsvShown, AllTyped, ShownIn, TypedIn,
        HoldPcs, BarePcs, AbsorbPcs, XlsxPcs
  <2>6. InvE
    BY <2>1, <2>2, <2>3, <2>4
    DEF InvE, ManualSaved, SameBook, Intended, Meets, SavedIn, HoldPcs,
        BarePcs, AbsorbPcs, XlsxPcs
  <2> QED
    BY <2>5, <2>6, InitType
<1>2. Careful => "ioerror" \notin Allowed /\ "crash" \notin Allowed
  BY DEF Careful
<1>3. TypeOK /\ CostSigs /\ InvO /\ InvE /\ [Next]_vars
        => (TypeOK /\ CostSigs /\ InvO /\ InvE)'
  BY <1>2, TypeStep, CostSigsStep, InvOStep, InvEStep
<1>4. InvE => EditsNotLost
  <2> SUFFICES ASSUME InvE, NEW f \in Files, NEW d \in Fields, intent[f][d] # None
               PROVE  \/ overrides[f][d] = intent[f][d]
                      \/ ovrBuf[f][d] = intent[f][d]
                      \/ Readable("xlsx") /\ xlsx[f] # NoRow /\ xlsx[f].val[d] = intent[f][d]
    BY DEF EditsNotLost
  <2>1. d \in Diff(f) => Readable("xlsx") /\ xlsx[f] # NoRow
    BY DEF Diff
  <2> QED
    BY <2>1 DEF InvE, Intended, Meets, AbsorbPcs
<1> QED
  BY <1>1, <1>3, <1>4, PTL DEF Spec

-----------------------------------------------------------------------------
(* Every step keeps InvR under what RowsFollowFiles assumes.               *)

Orderly == Allowed \cap {"ioerror", "crash", "race", "brief"} = {}

LEMMA InvRStep ==
  ASSUME TypeOK, InvR, [Next]_vars, Orderly
  PROVE  InvR'
<1> USE DEF InvR, LatePcs, MidPcs
<1>0. /\ "ioerror" \notin Allowed /\ "crash" \notin Allowed
      /\ "race" \notin Allowed /\ "brief" \notin Allowed
  BY DEF Orderly
<1>a. /\ disk \in [Files -> Nat] /\ clock \in Nat
      /\ processed \in [Files -> Nat \cup {Unseen}]
      /\ sigBuf \in [Files -> Nat \cup {Unseen}]
      /\ Unseen \notin Nat
  BY ConstantsAssumption DEF TypeOK
<1>1. ASSUME NEW g \in Files, SaveFile(g) PROVE InvR'
  <2>1. /\ disk' = [disk EXCEPT ![g] = clock + 1] /\ clock' = clock + 1
        /\ ~Extracted(g)
    BY <1>0, <1>1 DEF SaveFile
  <2>2. UNCHANGED <<csv, detail, book, processed, pc, buf, sigBuf>>
    BY <1>1, FileStep
  <2>3. Fresh'
    BY <1>a, <2>1, <2>2 DEF Fresh
  <2>4. processed[g] # clock + 1 /\ sigBuf[g] # clock + 1
    BY <1>a DEF Fresh
  <2>5. pc \in {"detail", "book", "snapshot"} => csv[g] = NoRow
    BY <2>1 DEF Extracted
  <2>6. \A f \in Files : f # g => disk'[f] = disk[f]
    BY <1>a, <2>1
  <2>7. disk'[g] = clock + 1 /\ disk'[g] # 0
    BY <1>a, <2>1
  <2>8. AllCosted'
    BY <2>2, <2>4, <2>5, <2>6, <2>7 DEF AllCosted, Costed
  <2>9. NoGhost'
    BY <2>2, <2>6, <2>7 DEF NoGhost
  <2> QED
    BY <2>2, <2>3, <2>8, <2>9 DEF KeepsRows
<1>2. ASSUME NEW g \in Files, DeleteFile(g) PROVE InvR'
  <2>1. /\ disk' = [disk EXCEPT ![g] = 0] /\ clock' = clock
        /\ ~CostOnly(g)
    BY <1>0, <1>2 DEF DeleteFile
  <2>2. UNCHANGED <<csv, detail, book, processed, pc, buf, sigBuf>>
    BY <1>2, FileStep
  <2>3. Fresh'
    BY <1>a, <2>1, <2>2 DEF Fresh
  <2>4. \A f \in Files : disk'[f] = IF f = g THEN 0 ELSE disk[f]
    BY <1>a, <2>1
  <2>5. AllCosted'
    BY <2>2, <2>4 DEF AllCosted, Costed
  <2>6. NoGhost'
    BY <2>1, <2>2, <2>4 DEF NoGhost, CostOnly
  <2> QED
    BY <2>2, <2>3, <2>5, <2>6 DEF KeepsRows
<1>3. CASE Plain
  <2>1. /\ UNCHANGED <<disk, clock, csv, detail, book>>
        /\ processed' = IF pc = "save" THEN sigBuf ELSE processed
        /\ \/ pc = "free" /\ pc' \in {"absorb", "list"} /\ UNCHANGED sigBuf
           \/ pc = "absorb" /\ pc' = "detect" /\ UNCHANGED sigBuf
           \/ pc = "detect" /\ pc' \in {"list", "schemaDetail", "done"} /\ UNCHANGED sigBuf
           \/ pc = "cost" /\ pc' = "detail" /\ sigBuf' = disk
           \/ pc = "snapshot" /\ pc' = "save" /\ sigBuf' = RecordedSigs
           \/ pc = "save" /\ pc' = "done" /\ UNCHANGED sigBuf
           \/ pc = "done" /\ pc' = "free" /\ sigBuf' = NoSigs
    BY <1>3, PlainStep
  <2>2. \A f \in Files : RecordedSigs[f] = IF csv[f] = NoRow THEN Unseen ELSE disk[f]
    BY DEF RecordedSigs
  <2>3. \A f \in Files : NoSigs[f] = 0
    BY DEF NoSigs
  <2>4. Fresh'
    BY <1>a, <2>1, <2>2, <2>3 DEF Fresh
  <2>5. AllCosted'
    BY <1>a, <2>1, <2>2, <2>3 DEF AllCosted, Costed
  <2>6. NoGhost'
    BY <1>a, <2>1, <2>2, <2>3 DEF NoGhost
  <2> QED
    BY <2>1, <2>4, <2>5, <2>6 DEF KeepsRows
<1>4. ASSUME NEW g \in Files, NEW b \in Fields, NEW v \in Manual,
             NEW names \in {Fields, {b}}, StartPatch(g, b, v, names)
      PROVE InvR'
  <2>1. /\ UNCHANGED <<disk, clock, csv, detail, book, processed, sigBuf>>
        /\ pc = "free" /\ pc' = "fieldsOvr"
        /\ \A f \in Files : buf'[f] = NoRow <=> csv[f] = NoRow
    BY <1>4, PatchStep
  <2> QED
    BY <2>1 DEF Fresh, KeepsRows, AllCosted, Costed, NoGhost
<1>5. CASE WriteCsv
  <2>1. /\ csv' = buf
        /\ UNCHANGED <<disk, clock, detail, book, processed, buf, sigBuf>>
        /\ \/ pc = "csv" /\ pc' = "xlsx"
           \/ pc = "absorbCsv" /\ pc' = "absorbXlsx"
           \/ pc = "applyCsv" /\ pc' = "applyXlsx"
           \/ pc = "fieldsCsv" /\ pc' = "fieldsXlsx"
    BY <1>5, WriteCsvStep
  <2>2. NoGhost'
    BY <2>1 DEF NoGhost, KeepsRows
  <2> QED
    BY <2>1, <2>2 DEF Fresh, KeepsRows, AllCosted, Costed
<1>6. CASE WriteXlsx
  <2>1. /\ UNCHANGED <<disk, clock, csv, detail, book, processed, buf, sigBuf>>
        /\ \/ pc = "xlsx" /\ pc' = "apply"
           \/ pc = "absorbXlsx" /\ pc' = "absorbOvr"
           \/ pc = "applyXlsx" /\ pc' = "cost"
           \/ pc = "fieldsXlsx" /\ pc' = "done"
    BY <1>6, WriteXlsxStep
  <2> QED
    BY <2>1 DEF Fresh, KeepsRows, AllCosted, Costed, NoGhost
<1>7. CASE WriteOverrides
  <2>1. /\ UNCHANGED <<disk, clock, csv, detail, book, processed, buf, sigBuf>>
        /\ \/ pc = "absorbOvr" /\ pc' = "detect"
           \/ pc = "fieldsOvr" /\ pc' = "fieldsCsv"
    BY <1>7, WriteOverridesStep
  <2> QED
    BY <2>1 DEF Fresh, KeepsRows, AllCosted, Costed, NoGhost
<1>8. CASE WriteDetail \/ WriteBook
  <2>1. /\ detail' = IF pc = "detail" THEN sigBuf ELSE detail
        /\ book' = IF pc = "book" THEN sigBuf ELSE book
        /\ UNCHANGED <<disk, clock, csv, processed, buf, sigBuf>>
        /\ \/ pc = "detail" /\ pc' = "book"
           \/ pc = "schemaDetail" /\ pc' = "schemaBook"
           \/ pc = "book" /\ pc' = "snapshot"
           \/ pc = "schemaBook" /\ pc' = "done"
    BY <1>8, WriteCostStep
  <2>2. AllCosted'
    BY <2>1 DEF AllCosted, Costed
  <2>3. NoGhost'
    BY <2>1 DEF NoGhost
  <2> QED
    BY <2>1, <2>2, <2>3 DEF Fresh, KeepsRows
<1>9. CASE AbsorbEdits
  <2>1. /\ UNCHANGED <<disk, clock, csv, detail, book, processed, sigBuf>>
        /\ pc = "absorb" /\ pc' = "absorbCsv"
        /\ \A f \in Files : buf'[f] = NoRow <=> csv[f] = NoRow
    BY <1>9, AbsorbStep
  <2> QED
    BY <2>1 DEF Fresh, KeepsRows, AllCosted, Costed, NoGhost
<1>10. CASE ListFiles
  <2>1. /\ UNCHANGED <<disk, clock, csv, detail, book, processed, sigBuf>>
        /\ pc = "list" /\ pc' \in {"csv", "extract"}
    BY <1>10, ListStep
  <2> QED
    BY <2>1 DEF Fresh, KeepsRows, AllCosted, Costed, NoGhost
<1>11. ASSUME NEW g \in Files, Extract(g) PROVE InvR'
  <2>1. /\ UNCHANGED <<disk, clock, csv, detail, book, processed, sigBuf>>
        /\ pc = "extract" /\ pc' \in {"csv", "extract"}
    BY <1>11, ExtractStep
  <2> QED
    BY <2>1 DEF Fresh, KeepsRows, AllCosted, Costed, NoGhost
<1>12. CASE ApplyOverrides
  <2>1. /\ UNCHANGED <<disk, clock, csv, detail, book, processed, sigBuf>>
        /\ pc = "apply" /\ pc' \in {"cost", "applyCsv"}
        /\ \A f \in Files : buf'[f] = NoRow <=> csv[f] = NoRow
    BY <1>12, ApplyStep
  <2> QED
    BY <2>1 DEF Fresh, KeepsRows, AllCosted, Costed, NoGhost
<1>13. CASE \/ \E g \in Files, b \in Fields, v \in Manual : ExcelSave(g, b, v)
            \/ UNCHANGED vars
  <2>1. UNCHANGED <<disk, clock, csv, detail, book, processed, pc, buf, sigBuf>>
    BY <1>13 DEF ExcelSave, vars, sources, tables, states, job
  <2> QED
    BY <2>1 DEF Fresh, KeepsRows, AllCosted, Costed, NoGhost
<1>14. CASE \E cut : FailWrite(cut) \/ Crash(cut)
  BY <1>0, <1>14 DEF FailWrite, Crash
<1> QED
  BY <1>1, <1>2, <1>3, <1>4, <1>5, <1>6, <1>7, <1>8, <1>9, <1>10, <1>11,
     <1>12, <1>13, <1>14
  DEF Next, JobStep, Plain

(* detect_source_changes compares the recorded signatures with the folder  *)
(* and nothing else, so a sync that finds nothing to do must find the cost *)
(* outputs with every invoice as it is, and no row of one that is gone, as *)
(* long as no write fails, no process is killed, no file is rewritten      *)
(* between its extraction and the snapshot, and none that only the cost    *)
(* analysis has seen is deleted.                                           *)
THEOREM RowsFollowFiles ==
  ASSUME Orderly
  PROVE  Spec => []RowsFollow
<1>1. Init => TypeOK /\ CostSigs /\ InvR
  <2> SUFFICES ASSUME Init PROVE TypeOK /\ CostSigs /\ InvR
    OBVIOUS
  <2>1. \A f \in Files : /\ csv[f] = NoRow /\ processed[f] = Unseen
                         /\ detail[f] = 0 /\ sigBuf[f] = 0
                         /\ disk[f] \in {0, 1}
    BY DEF Init, NoTable, NoSigs
  <2>2. pc = "free" /\ clock = 1
    BY DEF Init
  <2>3. InvR
    BY <2>1, <2>2, ConstantsAssumption
    DEF InvR, Fresh, KeepsRows, AllCosted, Costed, NoGhost, MidPcs, LatePcs
  <2> QED
    BY <2>3, InitType
<1>2. TypeOK /\ CostSigs /\ InvR /\ [Next]_vars => (TypeOK /\ CostSigs /\ InvR)'
  BY TypeStep, CostSigsStep, InvRStep
<1>3. TypeOK /\ InvR => RowsFollow
  <2> SUFFICES ASSUME TypeOK, InvR, Settled, NEW f \in Files
               PROVE  /\ csv[f] # NoRow \/ detail[f] # 0 => disk[f] # 0
                      /\ disk[f] # 0 => detail[f] = disk[f] /\ book[f] = disk[f]
    BY DEF RowsFollow, NoGhostRow, CostTracked
  <2>1. pc = "free" /\ processed[f] = Seen(f)
    BY DEF Settled, AtRest, MustRebuild, SourceChanged
  <2>2. disk[f] \in Nat /\ Unseen \notin Nat
    BY ConstantsAssumption DEF TypeOK
  <2> QED
    BY <2>1, <2>2 DEF InvR, AllCosted, Costed, NoGhost, Seen, MidPcs, LatePcs
<1> QED
  BY <1>1, <1>2, <1>3, PTL DEF Spec

-----------------------------------------------------------------------------
(* Previews and prints.                                                    *)

(* Sums and counts of the previews are those of the library.               *)
LEMMA PageSum == \A f, S : Pages!SumFunctionOnSet(f, S) = SumFunctionOnSet(f, S)
BY DEF Pages!SumFunctionOnSet, Pages!FoldFunctionOnSet, Pages!MapThenFoldSet,
       SumFunctionOnSet, FoldFunctionOnSet, MapThenFoldSet

\* The same count.
LEMMA PageCount == \A S : Pages!Cardinality(S) = Cardinality(S)
BY DEF Pages!Cardinality, Cardinality

\* The same finite sets.
LEMMA PageFinite == \A S : Pages!IsFiniteSet(S) <=> IsFiniteSet(S)
BY DEF Pages!IsFiniteSet, IsFiniteSet

(* What a job holds of a file, and a job within its limit.                 *)
Marks == 0..(MaxChanges + 1)
AnyEntry == [signature : Marks, type : {"pages", "error"}, page : Marks]
EntrySet == {e \in AnyEntry : e.signature # 0 /\ e.page \in {0, e.signature}}
Entered(m, set) == m = [f \in DOMAIN m |-> m[f]] /\ DOMAIN m \subseteq PageFiles /\ \A f \in DOMAIN m : m[f] \in set
IsJob(x) == /\ x = [entries |-> x.entries, age |-> x.age]
            /\ x.age \in Nat /\ Entered(x.entries, EntrySet)
AreJobs(js) == js = [j \in DOMAIN js |-> js[j]] /\ \A j \in DOMAIN js : IsJob(js[j])

\* The pages of a job take so many bytes.
LEMMA BytesIs ==
  ASSUME Pages!ConstantsSound, NEW x, DOMAIN x.entries \subseteq PageFiles
  PROVE  /\ Pages!Bytes(x) = SumFunctionOnSet(Size, {f \in DOMAIN x.entries : x.entries[f].page # 0})
         /\ Pages!Bytes(x) \in Nat
<1> DEFINE S == {f \in DOMAIN x.entries : x.entries[f].page # 0}
<1>1. IsFiniteSet(S) /\ \A f \in S : Size[f] \in Nat
  <2>1. IsFiniteSet(PageFiles) /\ Size \in [PageFiles -> Nat] /\ S \subseteq PageFiles
    BY PageFinite DEF Pages!ConstantsSound
  <2> HIDE DEF S
  <2>2. IsFiniteSet(S)
    BY <2>1, FS_Subset
  <2>3. \A f \in S : Size[f] \in Nat
    BY <2>1
  <2> QED BY <2>2, <2>3
<1>2. Pages!Bytes(x) = SumFunctionOnSet(Size, S)
  BY PageSum DEF Pages!Bytes, Pages!SumSize
<1>3. SumFunctionOnSet(Size, S) \in Nat
  <2> HIDE DEF S
  <2> QED BY <1>1, SumNat
<1> QED
  BY <1>2, <1>3

\* The bytes of each job.
Weights(js) == [j \in DOMAIN js |-> Pages!Bytes(js[j])]

\* What the jobs weigh together is the sum of their bytes.
LEMMA CachedIs ==
  ASSUME Pages!ConstantsSound, NEW js, AreJobs(js), IsFiniteSet(DOMAIN js)
  PROVE  /\ Pages!Cached(js) = SumFunctionOnSet(Weights(js), DOMAIN js)
         /\ Pages!Cached(js) \in Nat
         /\ \A j \in DOMAIN js : Weights(js)[j] = Pages!Bytes(js[j]) /\ Weights(js)[j] \in Nat
<1>1. DOMAIN Weights(js) = DOMAIN js /\ \A j \in DOMAIN js : Weights(js)[j] = Pages!Bytes(js[j])
  BY DEF Weights
<1>2. \A j \in DOMAIN js : Weights(js)[j] \in Nat
  <2> TAKE j \in DOMAIN js
  <2>1. DOMAIN js[j].entries \subseteq PageFiles
    BY DEF AreJobs, IsJob, Entered
  <2>2. Pages!Bytes(js[j]) \in Nat
    BY <2>1, BytesIs
  <2> QED BY <1>1, <2>2
<1>3. Pages!Cached(js) = SumFunctionOnSet(Weights(js), DOMAIN js)
  <2>1. Pages!SumFunction(Weights(js)) = Pages!SumFunctionOnSet(Weights(js), DOMAIN Weights(js))
    BY DEF Pages!SumFunction
  <2>2. Pages!Cached(js) = Pages!SumFunction(Weights(js))
    BY DEF Pages!Cached, Weights
  <2> QED BY <1>1, <2>1, <2>2, PageSum
<1>4. SumFunctionOnSet(Weights(js), DOMAIN js) \in Nat
  BY <1>2, SumNat
<1> QED
  BY <1>1, <1>2, <1>3, <1>4

\* Jobs that hold the same weigh the same.
LEMMA BytesSame ==
  ASSUME NEW x, NEW y, x.entries = y.entries
  PROVE  Pages!Bytes(x) = Pages!Bytes(y)
BY DEF Pages!Bytes

\* Some of the jobs weigh no more than all.
LEMMA CachedPart ==
  ASSUME Pages!ConstantsSound, NEW js, NEW less, AreJobs(js), AreJobs(less), IsFiniteSet(DOMAIN js),
         DOMAIN less \subseteq DOMAIN js, \A j \in DOMAIN less : less[j].entries = js[j].entries
  PROVE  Pages!Cached(less) <= Pages!Cached(js) /\ IsFiniteSet(DOMAIN less)
         /\ Cardinality(DOMAIN less) <= Cardinality(DOMAIN js)
<1>1. IsFiniteSet(DOMAIN less) /\ Cardinality(DOMAIN less) <= Cardinality(DOMAIN js)
  BY FS_Subset
<1>2. \A j \in DOMAIN less : Weights(less)[j] = Weights(js)[j]
  <2> TAKE j \in DOMAIN less
  <2>1. Pages!Bytes(less[j]) = Pages!Bytes(js[j])
    BY BytesSame
  <2> QED BY <2>1 DEF Weights
<1>3. SumFunctionOnSet(Weights(less), DOMAIN less) = SumFunctionOnSet(Weights(js), DOMAIN less)
  BY <1>1, <1>2, SumEqual
<1>4. \A j \in DOMAIN js : Weights(js)[j] \in Nat
  BY CachedIs
<1>5. SumFunctionOnSet(Weights(js), DOMAIN less) <= SumFunctionOnSet(Weights(js), DOMAIN js)
  BY <1>4, SumPart
<1>6. Pages!Cached(less) = SumFunctionOnSet(Weights(less), DOMAIN less)
  BY <1>1, CachedIs
<1>7. Pages!Cached(js) = SumFunctionOnSet(Weights(js), DOMAIN js)
  BY CachedIs
<1> QED
  BY <1>1, <1>3, <1>5, <1>6, <1>7

\* A job more weighs its own bytes more, and a job that changes the difference.
LEMMA CachedMore ==
  ASSUME Pages!ConstantsSound, NEW js, NEW more, AreJobs(js), AreJobs(more), IsFiniteSet(DOMAIN js),
         NEW id, DOMAIN more = DOMAIN js \cup {id},
         \A j \in DOMAIN js : j # id => more[j].entries = js[j].entries,
         NEW extra \in Nat,
         id \in DOMAIN js => Pages!Bytes(more[id]) = Pages!Bytes(js[id]) + extra,
         id \notin DOMAIN js => Pages!Bytes(more[id]) = extra
  PROVE  Pages!Cached(more) = Pages!Cached(js) + extra /\ IsFiniteSet(DOMAIN more)
<1> DEFINE D == DOMAIN more
           R == D \ {id}
<1>1. IsFiniteSet(D) /\ IsFiniteSet(R) /\ id \in D /\ R \subseteq DOMAIN js
  <2>1. IsFiniteSet(D)
    BY FS_AddElement
  <2> QED BY <2>1, FS_Subset
<1>2. \A j \in R : Weights(more)[j] = Weights(js)[j]
  <2> TAKE j \in R
  <2>1. Pages!Bytes(more[j]) = Pages!Bytes(js[j])
    BY BytesSame
  <2> QED BY <2>1 DEF Weights
<1>3. SumFunctionOnSet(Weights(more), R) = SumFunctionOnSet(Weights(js), R)
  <2> HIDE DEF R
  <2> QED BY <1>1, <1>2, SumEqual
<1>4. /\ \A j \in D : Weights(more)[j] \in Int
      /\ Weights(more)[id] = Pages!Bytes(more[id]) /\ Pages!Bytes(more[id]) \in Nat
      /\ Pages!Cached(more) = SumFunctionOnSet(Weights(more), D)
  <2>1. /\ \A j \in D : Weights(more)[j] = Pages!Bytes(more[j]) /\ Weights(more)[j] \in Nat
        /\ Pages!Cached(more) = SumFunctionOnSet(Weights(more), D)
    BY <1>1, CachedIs
  <2>2. \A k \in Nat : k \in Int
    OBVIOUS
  <2> QED BY <1>1, <2>1, <2>2
<1>5. SumFunctionOnSet(Weights(more), D) = Weights(more)[id] + SumFunctionOnSet(Weights(more), R)
  <2> HIDE DEF D
  <2> QED BY <1>1, <1>4, SumStep
<1>6. /\ Pages!Cached(js) = SumFunctionOnSet(Weights(js), DOMAIN js) /\ Pages!Cached(js) \in Nat
      /\ \A j \in DOMAIN js : Weights(js)[j] = Pages!Bytes(js[j]) /\ Weights(js)[j] \in Nat
  BY CachedIs
<1>7. CASE id \in DOMAIN js
  <2>1. R = DOMAIN js \ {id}
    BY <1>7
  <2>2. \A j \in DOMAIN js : Weights(js)[j] \in Int
    <3>1. \A k \in Nat : k \in Int
      OBVIOUS
    <3> QED BY <1>6, <3>1
  <2>3. SumFunctionOnSet(Weights(js), DOMAIN js) = Weights(js)[id] + SumFunctionOnSet(Weights(js), DOMAIN js \ {id})
    BY <1>7, <2>2, SumStep
  <2>4. SumFunctionOnSet(Weights(js), R) \in Int
    <3>1. \A j \in R : Weights(js)[j] \in Int
      BY <1>1, <2>2
    <3> HIDE DEF R
    <3> QED BY <1>1, <3>1, SumInt
  <2>5. Weights(js)[id] = Pages!Bytes(js[id]) /\ Weights(js)[id] \in Nat
    BY <1>6, <1>7
  <2> HIDE DEF R
  <2> QED BY <1>1, <1>3, <1>4, <1>5, <1>6, <1>7, <2>1, <2>3, <2>4, <2>5
<1>8. CASE id \notin DOMAIN js
  <2>1. R = DOMAIN js
    BY <1>8
  <2> HIDE DEF R
  <2>2. SumFunctionOnSet(Weights(more), R) = Pages!Cached(js)
    BY <1>3, <1>6, <2>1
  <2>3. Weights(more)[id] = extra
    BY <1>4, <1>8
  <2> QED BY <1>1, <1>4, <1>5, <1>6, <2>2, <2>3
<1> QED
  BY <1>7, <1>8

-----------------------------------------------------------------------------
(* Jobs that go.                                                           *)

\* Jobs without some of them are the others as they were.
LEMMA WithoutIs ==
  ASSUME NEW js, NEW S, AreJobs(js)
  PROVE  LET left == Pages!Without(js, S)
         IN /\ DOMAIN left = DOMAIN js \ S /\ AreJobs(left)
            /\ \A j \in DOMAIN left : left[j] = js[j]
BY DEF Pages!Without, AreJobs

\* Those that are evicted are used no later than those that stay, and there is room after.
LEMMA EvictedAre ==
  ASSUME NEW js, NEW room, NEW spare, NEW left \in Pages!Evicted(js, room, spare)
  PROVE  \E S \in SUBSET (DOMAIN js \ spare) :
            /\ left = Pages!Without(js, S)
            /\ \A j \in S, k \in (DOMAIN js \ spare) \ S : js[k].age <= js[j].age
            /\ Pages!Fits(left, room) \/ S = DOMAIN js \ spare
<1>1. PICK S \in SUBSET (DOMAIN js \ spare) :
         /\ left = Pages!Without(js, S) /\ Pages!OldestGo(js, S, DOMAIN js \ spare)
         /\ Pages!Fits(Pages!Without(js, S), room) \/ S = DOMAIN js \ spare
  BY DEF Pages!Evicted
<1>2. \A j \in S, k \in (DOMAIN js \ spare) \ S : js[k].age <= js[j].age
  BY <1>1 DEF Pages!OldestGo, Pages!Oldest
<1> QED
  BY <1>1, <1>2

(* What requests hold, and what is true of one that is at work.            *)
Points == {"idle", "entries", "render", "rendered", "store"}
Asking == [pc : Points, job : {None} \cup (1..MaxMade), file : {None} \cup PageFiles, seen : Nat,
           entries : UNION {[fs -> AnyEntry] : fs \in SUBSET PageFiles}]

\* Files of a job that is made are pending or as they were selected.
Made(m, kind) ==
  \A f \in DOMAIN m : \/ m[f].signature = 0 /\ m[f].page = 0
                      \/ m[f].signature # 0 /\ m[f].page = IF kind = "print" THEN m[f].signature ELSE 0
DoneOf(m) == {f \in DOMAIN m : m[f].signature # 0}

\* A page that is rendered is of the file the job has, if the job is still there.
Selected(q, js) ==
  q.job \in DOMAIN js => /\ q.file \in DOMAIN js[q.job].entries
                         /\ js[q.job].entries[q.file].signature = q.entries[q.file].signature

\* What a request at work knows: its job has a number that was given, files that are gone
\* through are within the limit, and a page that is to be stored is of the version selected.
Going(q, js, n, kind) ==
  /\ q.pc # "idle" => q.job \in 1..n
  /\ q.pc = "entries" => /\ q.job \notin DOMAIN js /\ Made(q.entries, kind)
                         /\ kind = "print" => SumFunctionOnSet(Size, DoneOf(q.entries)) <= MaxJobBytes
  /\ q.pc \in {"render", "rendered", "store"} =>
        /\ kind = "preview" /\ q.file \in DOMAIN q.entries /\ q.entries[q.file].signature # 0
        /\ Selected(q, js)
  /\ q.pc = "rendered" => q.seen \in 1..(MaxChanges + 1)
  /\ q.pc = "store" => q.seen = q.entries[q.file].signature

\* A page is rendered of no older version than the one that was selected, and of no later than now.
Recent(q, now) ==
  /\ q.pc = "render" => q.entries[q.file].signature <= now[q.file]
  /\ q.pc = "rendered" => q.entries[q.file].signature <= q.seen /\ q.seen <= now[q.file]

\* A job that is made has a number no other request knows.
Apart(p, q) == (p.pc = "entries" /\ q.pc # "idle") \/ (q.pc = "entries" /\ p.pc # "idle") => p.job # q.job

\* All of the requests.
Requesting ==
  /\ req \in [Requests -> Asking]
  /\ \A r \in Requests : Going(req[r], jobs, count, service) /\ Recent(req[r], shown)
  /\ \A r, s \in Requests : r # s => Apart(req[r], req[s])

\* The files, and how many jobs there were.
World ==
  /\ service \in {"preview", "print"} /\ changes \in 0..MaxChanges /\ count \in 0..MaxMade
  /\ shown \in [PageFiles -> 1..(changes + 1)] /\ slot \in Requests \cup {None}

\* The jobs are within their limits, whole when they are prints, and their age is the ghost.
Limited(js) ==
  /\ Pages!Cached(js) <= MaxCacheBytes /\ IsFiniteSet(DOMAIN js) /\ Cardinality(DOMAIN js) <= MaxJobs
  /\ \A j \in DOMAIN js : Pages!Bytes(js[j]) <= MaxJobBytes
Whole(js) == \A j \in DOMAIN js : \A f \in DOMAIN js[j].entries : js[j].entries[f].page = js[j].entries[f].signature
Aged(js, ages) == ages \in [1..MaxMade -> Nat] /\ \A j \in DOMAIN js : js[j].age = ages[j]

\* The jobs that are kept.
Keeping ==
  /\ AreJobs(jobs) /\ DOMAIN jobs \subseteq 1..count /\ Limited(jobs)
  /\ service = "print" => Whole(jobs)

\* A page is shown as it was selected.
Telling == told.seen = told.signature

\* The inductive invariant of the previews.
PageInv == World /\ Keeping /\ Aged(jobs, idle) /\ Requesting /\ Telling

-----------------------------------------------------------------------------
(* Requests.                                                               *)

\* A request that is idle says nothing.
LEMMA NoReqIs ==
  /\ Pages!NoReq \in Asking /\ Pages!NoReq.pc = "idle"
  /\ \A js, n, kind : Going(Pages!NoReq, js, n, kind) /\ \A now : Recent(Pages!NoReq, now)
<1>1. << >> \in [{} -> AnyEntry]
  BY SMT
<1>2. << >> \in UNION {[fs -> AnyEntry] : fs \in SUBSET PageFiles}
  BY <1>1
<1> HIDE DEF AnyEntry
<1> QED
  BY <1>2 DEF Pages!NoReq, Asking, Points, Going, Recent

\* Other jobs, or the same ones with other pages, take nothing from a request.
LEMMA StillGoing ==
  ASSUME NEW q, NEW js, NEW more, NEW n \in Nat, NEW m \in Nat, n <= m, NEW kind, Going(q, js, n, kind),
         q.pc # "idle" => \A j \in DOMAIN more : j = q.job =>
            /\ j \in DOMAIN js /\ DOMAIN more[j].entries = DOMAIN js[j].entries
            /\ \A f \in DOMAIN js[j].entries : more[j].entries[f].signature = js[j].entries[f].signature
  PROVE  Going(q, more, m, kind)
<1>1. q.pc # "idle" => q.job \in 1..m
  BY DEF Going
<1>2. q.pc = "entries" => q.job \notin DOMAIN more
  BY DEF Going
<1>3. q.pc \in {"render", "rendered", "store"} => Selected(q, more)
  BY DEF Going, Selected
<1> QED
  BY <1>1, <1>2, <1>3 DEF Going

\* One request moves on and the others go on as they were.
LEMMA RequestMoves ==
  ASSUME Requesting, count \in Nat, count' \in Nat, count <= count', service' = service, shown' = shown,
         NEW r \in Requests, NEW q \in Asking, req' = [req EXCEPT ![r] = q],
         Going(q, jobs', count', service), Recent(q, shown), \A s \in Requests : s # r => Apart(q, req[s]),
         \A s \in Requests \ {r} : req[s].pc # "idle" => \A j \in DOMAIN jobs' : j = req[s].job =>
            /\ j \in DOMAIN jobs /\ DOMAIN jobs'[j].entries = DOMAIN jobs[j].entries
            /\ \A f \in DOMAIN jobs[j].entries : jobs'[j].entries[f].signature = jobs[j].entries[f].signature
  PROVE  Requesting'
<1>1. req \in [Requests -> Asking] /\ req' \in [Requests -> Asking]
  BY DEF Requesting
<1>2. ASSUME NEW s \in Requests PROVE Going(req'[s], jobs', count', service')
  <2>1. CASE s = r
    BY <1>1, <2>1
  <2>2. CASE s # r
    <3>1. Going(req[s], jobs, count, service) /\ req'[s] = req[s]
      BY <2>2 DEF Requesting
    <3> DEFINE p == req[s]
               js == jobs'
               m == count'
    <3>2. p.pc # "idle" => \A j \in DOMAIN js : j = p.job =>
            /\ j \in DOMAIN jobs /\ DOMAIN js[j].entries = DOMAIN jobs[j].entries
            /\ \A f \in DOMAIN jobs[j].entries : js[j].entries[f].signature = jobs[j].entries[f].signature
      BY <2>2
    <3>3. Going(p, jobs, count, service) /\ m \in Nat /\ count <= m
      BY <3>1
    <3> HIDE DEF p, js, m
    <3>4. Going(p, js, m, service)
      BY <3>2, <3>3, StillGoing
    <3> QED BY <3>1, <3>4 DEF p, js, m
  <2> QED BY <2>1, <2>2
<1>3. ASSUME NEW s \in Requests, NEW t \in Requests, s # t PROVE Apart(req'[s], req'[t])
  <2>1. Apart(req[s], req[t])
    BY <1>3 DEF Requesting
  <2>2. s # r => Apart(q, req[s])
    OBVIOUS
  <2>3. t # r => Apart(q, req[t])
    OBVIOUS
  <2>4. req'[s] = (IF s = r THEN q ELSE req[s]) /\ req'[t] = (IF t = r THEN q ELSE req[t])
    BY <1>1
  <2> QED BY <1>3, <2>1, <2>2, <2>3, <2>4 DEF Apart
<1>4. (req \in [Requests -> Asking])'
  BY <1>1 DEF Asking, AnyEntry, Marks, Points
<1>5. ASSUME NEW s \in Requests PROVE Recent(req'[s], shown')
  <2>1. CASE s = r
    BY <1>1, <2>1
  <2>2. CASE s # r
    BY <1>1, <2>2 DEF Requesting
  <2> QED BY <2>1, <2>2
<1> QED
  BY <1>2, <1>3, <1>4, <1>5 DEF Requesting

\* Requests and jobs, where no job is added.
LEMMA RequestsWithFewer ==
  ASSUME Requesting, count \in Nat, count' = count, service' = service, shown' = shown,
         NEW r \in Requests, NEW q \in Asking, req' = [req EXCEPT ![r] = q],
         Going(q, jobs', count, service), Recent(q, shown), q.pc = "entries" => q.job = req[r].job /\ req[r].pc = "entries",
         q.pc # "idle" => q.job \in DOMAIN jobs \/ (q.job = req[r].job /\ req[r].pc # "idle"),
         \A j \in DOMAIN jobs' :
            /\ j \in DOMAIN jobs /\ DOMAIN jobs'[j].entries = DOMAIN jobs[j].entries
            /\ \A f \in DOMAIN jobs[j].entries : jobs'[j].entries[f].signature = jobs[j].entries[f].signature
  PROVE  Requesting'
<1>1. ASSUME NEW s \in Requests, s # r PROVE Apart(q, req[s])
  <2>1. Apart(req[r], req[s]) /\ Going(req[s], jobs, count, service)
    BY <1>1 DEF Requesting
  <2>2. CASE q.pc = "entries"
    BY <2>1, <2>2 DEF Apart
  <2>3. CASE q.pc # "entries" /\ req[s].pc = "entries" /\ q.pc # "idle"
    <3>1. req[s].job \notin DOMAIN jobs
      BY <2>1, <2>3 DEF Going
    <3>2. CASE q.job \in DOMAIN jobs
      BY <3>1, <3>2 DEF Apart
    <3>3. CASE q.job = req[r].job /\ req[r].pc # "idle"
      BY <2>1, <2>3, <3>3 DEF Apart
    <3> QED BY <2>3, <3>2, <3>3
  <2> QED BY <2>2, <2>3 DEF Apart
<1>2. Going(q, jobs', count', service) /\ count' \in Nat /\ count <= count'
  OBVIOUS
<1> QED
  BY <1>1, <1>2, RequestMoves

-----------------------------------------------------------------------------
(* The jobs after a request.                                               *)

\* Some of the jobs are within the limits when all are.
LEMMA FewerJobs ==
  ASSUME Pages!ConstantsSound, Keeping, NEW less, AreJobs(less), DOMAIN less \subseteq DOMAIN jobs,
         \A j \in DOMAIN less : less[j].entries = jobs[j].entries
  PROVE  /\ Limited(less) /\ DOMAIN less \subseteq 1..count /\ (service = "print" => Whole(less))
         /\ Pages!Cached(less) \in Nat
<1>1. AreJobs(jobs) /\ Limited(jobs) /\ DOMAIN jobs \subseteq 1..count /\ IsFiniteSet(DOMAIN jobs)
  BY DEF Keeping, Limited
<1>2. /\ Pages!Cached(less) <= Pages!Cached(jobs) /\ IsFiniteSet(DOMAIN less)
      /\ Cardinality(DOMAIN less) <= Cardinality(DOMAIN jobs)
  BY <1>1, CachedPart
<1>3. Pages!Cached(less) \in Nat /\ Pages!Cached(jobs) \in Nat
  BY <1>1, <1>2, CachedIs
<1>4. Cardinality(DOMAIN less) \in Nat /\ Cardinality(DOMAIN jobs) \in Nat
  BY <1>1, <1>2, FS_CardinalityType
<1>5. Pages!Cached(less) <= MaxCacheBytes /\ Cardinality(DOMAIN less) <= MaxJobs
  BY <1>1, <1>2, <1>3, <1>4 DEF Limited, Pages!ConstantsSound
<1>6. \A j \in DOMAIN less : Pages!Bytes(less[j]) <= MaxJobBytes
  <2> TAKE j \in DOMAIN less
  <2>1. Pages!Bytes(less[j]) = Pages!Bytes(jobs[j])
    BY BytesSame
  <2> QED BY <1>1, <2>1 DEF Limited
<1>7. service = "print" => Whole(less)
  BY DEF Keeping, Whole
<1> QED
  BY <1>1, <1>2, <1>3, <1>5, <1>6, <1>7 DEF Limited

\* Those that have not expired are as they were.
LEMMA LiveIs ==
  ASSUME AreJobs(jobs)
  PROVE  /\ AreJobs(Pages!Live) /\ DOMAIN Pages!Live = {j \in DOMAIN jobs : ~(jobs[j].age >= TTL)}
         /\ \A j \in DOMAIN Pages!Live : Pages!Live[j] = jobs[j]
<1> DEFINE S == Pages!Expired(jobs)
           left == Pages!Without(jobs, S)
<1>1. DOMAIN left = DOMAIN jobs \ S /\ AreJobs(left) /\ \A j \in DOMAIN left : left[j] = jobs[j]
  BY WithoutIs
<1>2. DOMAIN jobs \ S = {j \in DOMAIN jobs : ~(jobs[j].age >= TTL)}
  BY DEF Pages!Expired
<1>3. Pages!Live = left
  BY DEF Pages!Live
<1> HIDE DEF left, S
<1> QED
  BY <1>1, <1>2, <1>3

\* A job that is renewed keeps its files.
LEMMA RenewedIs ==
  ASSUME NEW js, AreJobs(js), NEW j \in DOMAIN js
  PROVE  LET new == Pages!Renewed(js, j)
         IN /\ AreJobs(new) /\ DOMAIN new = DOMAIN js
            /\ \A k \in DOMAIN js : new[k].entries = js[k].entries
            /\ \A k \in DOMAIN js : new[k].age = IF k = j /\ service # "print" THEN 0 ELSE js[k].age
<1>1. CASE service = "print"
  <2>1. Pages!Renewed(js, j) = js
    BY <1>1 DEF Pages!Renewed
  <2> QED BY <1>1, <2>1
<1>2. CASE service # "print"
  <2> DEFINE new == [js EXCEPT ![j].age = 0]
  <2>1. Pages!Renewed(js, j) = new
    BY <1>2 DEF Pages!Renewed
  <2>2. DOMAIN new = DOMAIN js /\ new = [k \in DOMAIN new |-> new[k]]
    BY DEF AreJobs
  <2>3. \A k \in DOMAIN js : k # j => new[k] = js[k]
    BY DEF AreJobs
  <2>4. new[j] = [js[j] EXCEPT !.age = 0]
    BY DEF AreJobs
  <2>5. new[j].entries = js[j].entries /\ new[j].age = 0 /\ IsJob(new[j])
    <3>1. IsJob(js[j])
      BY DEF AreJobs
    <3>2. js[j] = [entries |-> js[j].entries, age |-> js[j].age] /\ Entered(js[j].entries, EntrySet)
      BY <3>1 DEF IsJob
    <3>3. new[j] = [entries |-> js[j].entries, age |-> 0]
      BY <2>4, <3>2
    <3> HIDE DEF new
    <3> QED BY <3>2, <3>3 DEF IsJob
  <2>6. AreJobs(new)
    <3> HIDE DEF new
    <3> QED BY <2>2, <2>3, <2>5 DEF AreJobs
  <2> HIDE DEF new
  <2> QED BY <1>2, <2>1, <2>2, <2>3, <2>5, <2>6
<1> QED
  BY <1>1, <1>2

\* The ghost follows the age of every job that stays, and starts with the one asked for.
LEMMA AgesAre ==
  ASSUME Aged(jobs, idle), NEW asked, Pages!IdleOf(asked), DOMAIN jobs' \subseteq 1..MaxMade,
         \A j \in DOMAIN jobs' : \/ j \in asked /\ jobs'[j].age = 0
                                 \/ j \notin asked /\ j \in DOMAIN jobs /\ jobs'[j].age = jobs[j].age
  PROVE  Aged(jobs, idle)'
<1>1. idle' = [j \in 1..MaxMade |-> IF j \in DOMAIN jobs' \ asked THEN idle[j] ELSE 0]
  BY DEF Pages!IdleOf, Pages!JobIds
<1>2. idle \in [1..MaxMade -> Nat] /\ \A j \in DOMAIN jobs : jobs[j].age = idle[j]
  BY DEF Aged
<1>3. idle' \in [1..MaxMade -> Nat]
  BY <1>1, <1>2
<1>4. \A j \in DOMAIN jobs' : jobs'[j].age = idle'[j]
  BY <1>1, <1>2
<1> QED
  BY <1>3, <1>4 DEF Aged

\* The jobs are known after a step that keeps some of them, renewed or not.
LEMMA KeepsFewer ==
  ASSUME Pages!ConstantsSound, World, Keeping, service' = service, count' = count,
         AreJobs(jobs'), DOMAIN jobs' \subseteq DOMAIN jobs,
         \A j \in DOMAIN jobs' : jobs'[j].entries = jobs[j].entries
  PROVE  Keeping' /\ DOMAIN jobs' \subseteq 1..MaxMade
<1>0. PICK less : less = jobs'
  OBVIOUS
<1>1. AreJobs(less) /\ DOMAIN less \subseteq DOMAIN jobs /\ \A j \in DOMAIN less : less[j].entries = jobs[j].entries
  BY <1>0
<1>2. Limited(less) /\ DOMAIN less \subseteq 1..count /\ (service = "print" => Whole(less))
  BY <1>1, FewerJobs
<1>3. 1..count \subseteq 1..MaxMade
  BY DEF World, Pages!ConstantsSound
<1>4. AreJobs(jobs)'
  BY <1>0, <1>1 DEF AreJobs, IsJob, Entered, EntrySet, AnyEntry, Marks
<1>5. Limited(jobs)'
  BY <1>0, <1>2 DEF Limited
<1>6. (service = "print" => Whole(jobs))'
  BY <1>0, <1>2 DEF Whole
<1>7. DOMAIN jobs' \subseteq 1..count' /\ DOMAIN jobs' \subseteq 1..MaxMade
  BY <1>0, <1>2, <1>3
<1> QED
  BY <1>4, <1>5, <1>6, <1>7 DEF Keeping

\* Asking for a job renews it.
LEMMA Got ==
  ASSUME Pages!ConstantsSound, PageInv, NEW j, Pages!GetJob(j), service' = service, count' = count
  PROVE  /\ Keeping' /\ Aged(jobs, idle)'
         /\ DOMAIN jobs' = DOMAIN Pages!Live /\ DOMAIN jobs' \subseteq DOMAIN jobs
         /\ \A k \in DOMAIN jobs' : jobs'[k].entries = jobs[k].entries
<1>1. AreJobs(jobs) /\ Aged(jobs, idle) /\ service \in {"preview", "print"} /\ World /\ Keeping
  BY DEF PageInv, Keeping, World
<1>2. /\ AreJobs(Pages!Live) /\ DOMAIN Pages!Live \subseteq DOMAIN jobs
      /\ \A k \in DOMAIN Pages!Live : Pages!Live[k] = jobs[k]
  BY <1>1, LiveIs
<1> DEFINE asked == IF service = "preview" THEN {j} ELSE {}
<1>3. Pages!IdleOf(asked)
  BY DEF Pages!GetJob
<1>4. CASE j \in DOMAIN Pages!Live
  <2>1. jobs' = Pages!Renewed(Pages!Live, j)
    BY <1>4 DEF Pages!GetJob
  <2>2. /\ AreJobs(jobs') /\ DOMAIN jobs' = DOMAIN Pages!Live
        /\ \A k \in DOMAIN Pages!Live : jobs'[k].entries = Pages!Live[k].entries
        /\ \A k \in DOMAIN Pages!Live : jobs'[k].age = IF k = j /\ service # "print" THEN 0 ELSE Pages!Live[k].age
    BY <1>2, <1>4, <2>1, RenewedIs
  <2>3. DOMAIN jobs' \subseteq DOMAIN jobs /\ \A k \in DOMAIN jobs' : jobs'[k].entries = jobs[k].entries
    BY <1>2, <2>2
  <2>4. Keeping' /\ DOMAIN jobs' \subseteq 1..MaxMade
    BY <1>1, <2>2, <2>3, KeepsFewer
  <2>5. \A k \in DOMAIN jobs' : \/ k \in asked /\ jobs'[k].age = 0
                                \/ k \notin asked /\ k \in DOMAIN jobs /\ jobs'[k].age = jobs[k].age
    BY <1>1, <1>2, <2>2, <2>3
  <2>6. Aged(jobs, idle)'
    <3> HIDE DEF asked
    <3> QED BY <1>1, <1>3, <2>4, <2>5, AgesAre
  <2> QED BY <2>2, <2>3, <2>4, <2>6
<1>5. CASE j \notin DOMAIN Pages!Live
  <2>1. jobs' = Pages!Live
    BY <1>5 DEF Pages!GetJob
  <2>2. DOMAIN jobs' \subseteq DOMAIN jobs /\ \A k \in DOMAIN jobs' : jobs'[k].entries = jobs[k].entries
    BY <1>2, <2>1
  <2>3. Keeping' /\ DOMAIN jobs' \subseteq 1..MaxMade
    BY <1>1, <1>2, <2>1, <2>2, KeepsFewer
  <2>4. \A k \in DOMAIN jobs' : k \notin asked /\ k \in DOMAIN jobs /\ jobs'[k].age = jobs[k].age
    BY <1>2, <1>5, <2>1
  <2>5. Aged(jobs, idle)'
    <3> HIDE DEF asked
    <3> QED BY <1>1, <1>3, <2>3, <2>4, AgesAre
  <2> QED BY <2>1, <2>2, <2>3, <2>5
<1> QED
  BY <1>4, <1>5

-----------------------------------------------------------------------------
(* A job comes or gets a page.                                             *)

\* Jobs that go leave jobs that are as they were.
LEMMA LeftIs ==
  ASSUME Pages!ConstantsSound, Keeping, NEW js, AreJobs(js), DOMAIN js \subseteq DOMAIN jobs,
         \A k \in DOMAIN js : js[k].entries = jobs[k].entries,
         NEW room, NEW spare, NEW left \in Pages!Evicted(js, room, spare)
  PROVE  /\ AreJobs(left) /\ DOMAIN left \subseteq DOMAIN js /\ spare \cap DOMAIN js \subseteq DOMAIN left
         /\ \A k \in DOMAIN left : left[k] = js[k]
         /\ Limited(left) /\ DOMAIN left \subseteq 1..count /\ (service = "print" => Whole(left))
         /\ Pages!Cached(left) \in Nat
         /\ Pages!Fits(left, room) \/ DOMAIN left \subseteq spare
         /\ \A j \in DOMAIN js \ DOMAIN left, k \in DOMAIN left \ spare : js[k].age <= js[j].age
<1>1. PICK S \in SUBSET (DOMAIN js \ spare) :
         /\ left = Pages!Without(js, S)
         /\ \A j \in S, k \in (DOMAIN js \ spare) \ S : js[k].age <= js[j].age
         /\ Pages!Fits(left, room) \/ S = DOMAIN js \ spare
  BY EvictedAre
<1>2. DOMAIN left = DOMAIN js \ S /\ AreJobs(left) /\ \A k \in DOMAIN left : left[k] = js[k]
  BY <1>1, WithoutIs
<1>3. DOMAIN left \subseteq DOMAIN jobs /\ \A k \in DOMAIN left : left[k].entries = jobs[k].entries
  BY <1>2
<1>4. /\ Limited(left) /\ DOMAIN left \subseteq 1..count /\ (service = "print" => Whole(left))
      /\ Pages!Cached(left) \in Nat
  BY <1>2, <1>3, FewerJobs
<1> QED
  BY <1>1, <1>2, <1>4

\* A new job has room once those go that had to.
LEMMA Added ==
  ASSUME Pages!ConstantsSound, Keeping, NEW js, AreJobs(js), DOMAIN js \subseteq DOMAIN jobs,
         \A k \in DOMAIN js : js[k].entries = jobs[k].entries,
         NEW new, IsJob(new), Pages!Bytes(new) <= MaxJobBytes,
         NEW id, id \notin DOMAIN jobs,
         NEW room, room.jobs = 1, room.bytes = Pages!Bytes(new), NEW left \in Pages!Evicted(js, room, {}),
         NEW more, more = Pages!With(left, id, new)
  PROVE  /\ AreJobs(more) /\ DOMAIN more = DOMAIN left \cup {id} /\ Limited(more)
         /\ more[id] = new /\ \A k \in DOMAIN left : more[k] = left[k]
<1>1. /\ AreJobs(left) /\ DOMAIN left \subseteq DOMAIN js /\ Limited(left)
      /\ Pages!Cached(left) \in Nat
      /\ Pages!Fits(left, room) \/ DOMAIN left = {}
  <2>1. /\ AreJobs(left) /\ DOMAIN left \subseteq DOMAIN js /\ Limited(left)
        /\ Pages!Cached(left) \in Nat
        /\ Pages!Fits(left, room) \/ DOMAIN left \subseteq {}
    BY LeftIs
  <2> QED BY <2>1
<1>2. id \notin DOMAIN left
  BY <1>1
<1>3. DOMAIN more = DOMAIN left \cup {id} /\ more[id] = new /\ \A k \in DOMAIN left : more[k] = left[k]
  BY <1>2 DEF Pages!With
<1>4. AreJobs(more)
  <2>1. more = [k \in DOMAIN more |-> more[k]]
    BY DEF Pages!With
  <2> QED BY <1>1, <1>3, <2>1 DEF AreJobs
<1>5. Pages!Bytes(new) \in Nat
  <2>1. DOMAIN new.entries \subseteq PageFiles
    BY DEF IsJob, Entered
  <2> QED BY <2>1, BytesIs
<1>6. IsFiniteSet(DOMAIN left) /\ Cardinality(DOMAIN left) \in Nat
  BY <1>1, FS_CardinalityType DEF Limited
<1>7. Pages!Cached(more) = Pages!Cached(left) + Pages!Bytes(new) /\ IsFiniteSet(DOMAIN more)
  <2>1. \A j \in DOMAIN left : j # id => more[j].entries = left[j].entries
    BY <1>3
  <2> QED BY <1>1, <1>2, <1>3, <1>4, <1>5, <1>6, <2>1, CachedMore
<1>8. Cardinality(DOMAIN more) = Cardinality(DOMAIN left) + 1
  BY <1>2, <1>3, <1>6, FS_AddElement
<1>9. Pages!Cached(more) <= MaxCacheBytes /\ Cardinality(DOMAIN more) <= MaxJobs
  <2>1. CASE Pages!Fits(left, room)
    <3>1. Cardinality(DOMAIN left) + 1 <= MaxJobs /\ Pages!Cached(left) + Pages!Bytes(new) <= MaxCacheBytes
      BY <2>1, PageCount DEF Pages!Fits
    <3> QED BY <1>7, <1>8, <3>1
  <2>2. CASE DOMAIN left = {}
    <3>1. Cardinality(DOMAIN left) = 0
      BY <2>2, FS_EmptySet
    <3>2. Pages!Cached(left) = 0
      <4>1. Pages!Cached(left) = SumFunctionOnSet(Weights(left), DOMAIN left)
        BY <1>1, <1>6, CachedIs
      <4> QED BY <2>2, <4>1, SumEmpty
    <3> QED BY <1>5, <1>7, <1>8, <3>1, <3>2 DEF Pages!ConstantsSound
  <2> QED BY <1>1, <2>1, <2>2
<1>10. \A k \in DOMAIN more : Pages!Bytes(more[k]) <= MaxJobBytes
  BY <1>1, <1>3 DEF Limited
<1> QED
  BY <1>3, <1>4, <1>7, <1>9, <1>10 DEF Limited

\* The jobs with a page more.
Stored(js, j, f, v) == [js EXCEPT ![j].entries[f].page = v]

\* A page that is stored weighs its own size more, in its job and in all.
LEMMA Paged ==
  ASSUME Pages!ConstantsSound, NEW js, AreJobs(js), Limited(js), NEW j \in DOMAIN js,
         NEW f \in DOMAIN js[j].entries, js[j].entries[f].page = 0,
         NEW v, v = js[j].entries[f].signature,
         Pages!Bytes(js[j]) + Size[f] <= MaxJobBytes, Pages!Cached(js) + Size[f] <= MaxCacheBytes,
         NEW more, more = Stored(js, j, f, v)
  PROVE  /\ AreJobs(more) /\ DOMAIN more = DOMAIN js /\ Limited(more)
         /\ \A k \in DOMAIN js : /\ more[k].age = js[k].age /\ DOMAIN more[k].entries = DOMAIN js[k].entries
                                 /\ \A g \in DOMAIN js[k].entries :
                                       more[k].entries[g].signature = js[k].entries[g].signature
<1> DEFINE old == js[j].entries
           e == [old[f] EXCEPT !.page = v]
           new == [old EXCEPT ![f] = e]
<1>1. IsJob(js[j]) /\ old[f] \in EntrySet /\ f \in PageFiles /\ Entered(old, EntrySet)
  BY DEF AreJobs, IsJob, Entered
<1>2. /\ DOMAIN more = DOMAIN js /\ more = [k \in DOMAIN js |-> more[k]]
      /\ \A k \in DOMAIN js : k # j => more[k] = js[k]
      /\ more[j] = [js[j] EXCEPT !.entries = new]
  BY DEF AreJobs, Stored
<1>3. more[j].entries = new /\ more[j].age = js[j].age /\ more[j] = [entries |-> new, age |-> js[j].age]
  <2>1. js[j] = [entries |-> js[j].entries, age |-> js[j].age]
    BY <1>1 DEF IsJob
  <2> HIDE DEF new
  <2> QED BY <1>2, <2>1
<1>4. v \in Marks /\ v # 0 /\ e \in EntrySet /\ e.page = v /\ e.signature = old[f].signature
  BY <1>1 DEF EntrySet, AnyEntry
<1>5. DOMAIN new = DOMAIN old /\ new[f] = e /\ \A g \in DOMAIN old : g # f => new[g] = old[g]
  OBVIOUS
<1>6. new = [g \in DOMAIN new |-> new[g]]
  BY <1>1 DEF Entered
<1> HIDE DEF new, e
<1>7. Entered(new, EntrySet)
  BY <1>1, <1>4, <1>5, <1>6 DEF Entered
<1>8. IsJob(more[j])
  BY <1>1, <1>3, <1>7 DEF IsJob
<1>9. AreJobs(more)
  BY <1>2, <1>8 DEF AreJobs
<1>10. Pages!Bytes(more[j]) = Pages!Bytes(js[j]) + Size[f]
  <2> DEFINE S == {g \in DOMAIN old : old[g].page # 0}
             T == {g \in DOMAIN new : new[g].page # 0}
  <2>1. T = S \cup {f} /\ f \notin S
    BY <1>4, <1>5
  <2>2. DOMAIN old \subseteq PageFiles /\ DOMAIN new \subseteq PageFiles
    BY <1>1, <1>7 DEF Entered
  <2>3. IsFiniteSet(T) /\ \A g \in T : Size[g] \in Int
    <3>1. IsFiniteSet(PageFiles) /\ Size \in [PageFiles -> Nat] /\ T \subseteq PageFiles
      BY <2>2, PageFinite DEF Pages!ConstantsSound
    <3> HIDE DEF T
    <3>2. \A g \in T : Size[g] \in Nat
      BY <3>1
    <3>3. \A k \in Nat : k \in Int
      OBVIOUS
    <3> QED BY <3>1, <3>2, <3>3, FS_Subset
  <2>4. Pages!Bytes(js[j]) = SumFunctionOnSet(Size, S)
    BY <2>2, BytesIs
  <2>5. Pages!Bytes(more[j]) = SumFunctionOnSet(Size, T)
    BY <1>3, <2>2, BytesIs
  <2>6. T \ {f} = S /\ f \in T
    BY <2>1
  <2> HIDE DEF S, T
  <2>7. SumFunctionOnSet(Size, T) = Size[f] + SumFunctionOnSet(Size, S)
    BY <2>3, <2>6, SumStep
  <2>8. Pages!Bytes(js[j]) \in Nat /\ Size[f] \in Nat
    <3>1. Pages!Bytes(js[j]) \in Nat
      BY <2>2, BytesIs
    <3> QED BY <1>1, <3>1 DEF Pages!ConstantsSound
  <2> QED BY <2>4, <2>5, <2>7, <2>8
<1>11. IsFiniteSet(DOMAIN js) /\ Size[f] \in Nat
  BY <1>1 DEF Limited, Pages!ConstantsSound
<1>12. Pages!Cached(more) = Pages!Cached(js) + Size[f]
  <2>1. DOMAIN more = DOMAIN js \cup {j}
    BY <1>2
  <2>2. \A k \in DOMAIN js : k # j => more[k].entries = js[k].entries
    BY <1>2
  <2>3. j \in DOMAIN js
    OBVIOUS
  <2>4. AreJobs(js) /\ AreJobs(more) /\ IsFiniteSet(DOMAIN js) /\ Size[f] \in Nat
    BY <1>9, <1>11
  <2>5. /\ j \in DOMAIN js => Pages!Bytes(more[j]) = Pages!Bytes(js[j]) + Size[f]
        /\ j \notin DOMAIN js => Pages!Bytes(more[j]) = Size[f]
    BY <1>10
  <2> HIDE DEF old
  <2> QED BY ONLY <2>1, <2>2, <2>4, <2>5, CachedMore, Pages!ConstantsSound
<1>13. Limited(more)
  BY <1>2, <1>10, <1>12 DEF Limited
<1> QED
  BY <1>2, <1>3, <1>4, <1>5, <1>9, <1>13

-----------------------------------------------------------------------------
(* Steps.                                                                  *)

\* The entries a request holds are of files there are.
LEMMA AskingIs ==
  /\ \A m : m \in UNION {[fs -> AnyEntry] : fs \in SUBSET PageFiles} <=> Entered(m, AnyEntry)
  /\ \A q \in Asking : Entered(q.entries, AnyEntry)
<1>1. ASSUME NEW m, Entered(m, AnyEntry) PROVE m \in UNION {[fs -> AnyEntry] : fs \in SUBSET PageFiles}
  <2>1. m \in [DOMAIN m -> AnyEntry] /\ DOMAIN m \in SUBSET PageFiles
    BY <1>1 DEF Entered
  <2> HIDE DEF AnyEntry
  <2> QED BY <2>1
<1>2. ASSUME NEW m \in UNION {[fs -> AnyEntry] : fs \in SUBSET PageFiles} PROVE Entered(m, AnyEntry)
  <2>1. PICK fs \in SUBSET PageFiles : m \in [fs -> AnyEntry]
    OBVIOUS
  <2> QED BY <2>1 DEF Entered
<1> QED
  BY <1>1, <1>2 DEF Asking

\* A request that goes on is a request.
LEMMA AskingMoves ==
  ASSUME NEW q \in Asking, NEW at \in Points
  PROVE  /\ [q EXCEPT !.pc = at] \in Asking
         /\ \A n \in Nat : [q EXCEPT !.seen = n, !.pc = at] \in Asking
         /\ \A m : Entered(m, AnyEntry) => [q EXCEPT !.entries = m] \in Asking
<1>1. ASSUME NEW m, Entered(m, AnyEntry) PROVE m \in UNION {[fs -> AnyEntry] : fs \in SUBSET PageFiles}
  BY <1>1, AskingIs
<1> QED
  BY <1>1 DEF Asking

\* And so is one that begins.
LEMMA AskingNew ==
  ASSUME NEW at \in Points, NEW id \in 1..MaxMade, NEW m, Entered(m, AnyEntry)
  PROVE  /\ [Pages!NoReq EXCEPT !.pc = at, !.job = id, !.entries = m] \in Asking
         /\ \A f \in PageFiles : [Pages!NoReq EXCEPT !.pc = at, !.job = id, !.file = f, !.entries = m] \in Asking
<1>1. m \in UNION {[fs -> AnyEntry] : fs \in SUBSET PageFiles}
  BY AskingIs
<1> HIDE DEF AnyEntry
<1> QED
  BY <1>1 DEF Asking, Pages!NoReq

\* The jobs stay as they are.
LEMMA SameJobs ==
  ASSUME Keeping, Aged(jobs, idle), count \in Nat, count' \in Nat, count <= count',
         UNCHANGED <<service, jobs, idle>>
  PROVE  Keeping' /\ Aged(jobs, idle)'
<1>1. AreJobs(jobs)'
  BY DEF Keeping, AreJobs, IsJob, Entered, EntrySet, AnyEntry, Marks
<1>2. Limited(jobs)'
  BY DEF Keeping, Limited
<1>3. (service = "print" => Whole(jobs))'
  BY DEF Keeping, Whole
<1>4. DOMAIN jobs' \subseteq 1..count'
  BY DEF Keeping
<1>5. Aged(jobs, idle)'
  BY DEF Aged
<1> QED
  BY <1>1, <1>2, <1>3, <1>4, <1>5 DEF Keeping

\* Files and services stay as they are.
LEMMA SameWorld ==
  ASSUME World, UNCHANGED <<service, shown, changes>>, slot' \in Requests \cup {None}, count' \in 0..MaxMade
  PROVE  World'
BY DEF World

\* A request that goes on or ends leaves the jobs and what it knows of them.
LEMMA RequestOnly ==
  ASSUME Pages!ConstantsSound, PageInv, UNCHANGED <<service, shown, changes, jobs, idle, count>>,
         slot' \in Requests \cup {None},
         NEW r \in Requests, NEW q \in Asking, req' = [req EXCEPT ![r] = q],
         Going(q, jobs, count, service), Recent(q, shown), q.pc # "idle" => q.job = req[r].job /\ req[r].pc # "idle",
         q.pc = "entries" => req[r].pc = "entries", told'.seen = told'.signature
  PROVE  PageInv'
<1>1. World /\ Keeping /\ Aged(jobs, idle) /\ Requesting /\ count \in Nat
  BY DEF PageInv, World, Pages!ConstantsSound
<1>2. World'
  BY <1>1, SameWorld DEF World
<1>3. Keeping' /\ Aged(jobs, idle)'
  BY <1>1, SameJobs
<1>4. Requesting'
  <2>1. Going(q, jobs', count, service)
    OBVIOUS
  <2>2. q.pc = "entries" => q.job = req[r].job /\ req[r].pc = "entries"
    OBVIOUS
  <2>3. q.pc # "idle" => q.job \in DOMAIN jobs \/ (q.job = req[r].job /\ req[r].pc # "idle")
    OBVIOUS
  <2>4. \A j \in DOMAIN jobs' :
            /\ j \in DOMAIN jobs /\ DOMAIN jobs'[j].entries = DOMAIN jobs[j].entries
            /\ \A f \in DOMAIN jobs[j].entries : jobs'[j].entries[f].signature = jobs[j].entries[f].signature
    OBVIOUS
  <2> QED BY <1>1, <2>1, <2>2, <2>3, <2>4, RequestsWithFewer
<1>5. Telling'
  BY DEF Telling
<1> QED
  BY <1>2, <1>3, <1>4, <1>5 DEF PageInv

\* There is nothing in memory at first.
LEMMA PagesInitially == ASSUME Pages!ConstantsSound, Pages!Init PROVE PageInv
<1>1. World /\ Telling
  BY DEF Pages!Init, World, Telling, Pages!NoPage, Pages!ConstantsSound
<1>2. DOMAIN jobs = {} /\ AreJobs(jobs)
  BY DEF Pages!Init, AreJobs
<1>3. IsFiniteSet(DOMAIN jobs) /\ Cardinality(DOMAIN jobs) = 0
  BY <1>2, FS_EmptySet
<1>4. Pages!Cached(jobs) = 0
  <2>1. Pages!Cached(jobs) = SumFunctionOnSet(Weights(jobs), DOMAIN jobs)
    BY <1>2, <1>3, CachedIs
  <2> QED BY <1>2, <2>1, SumEmpty
<1>5. Keeping
  BY <1>2, <1>3, <1>4 DEF Keeping, Limited, Whole, Pages!ConstantsSound
<1>6. Aged(jobs, idle)
  BY <1>2 DEF Aged, Pages!Init, Pages!JobIds
<1>7. Requesting
  <2>1. req = [r \in Requests |-> Pages!NoReq]
    BY DEF Pages!Init
  <2>2. Pages!NoReq \in Asking /\ Pages!NoReq.pc = "idle" /\ Going(Pages!NoReq, jobs, count, service) /\ Recent(Pages!NoReq, shown)
    BY NoReqIs
  <2> QED BY <2>1, <2>2 DEF Requesting, Apart
<1> QED
  BY <1>1, <1>5, <1>6, <1>7 DEF PageInv

\* A request for some files gets the number of a new job.
LEMMA PrepareStep == ASSUME Pages!ConstantsSound, PageInv, NEW r \in Requests, Pages!Prepare(r) PROVE PageInv'
<1>1. /\ World /\ Keeping /\ Aged(jobs, idle) /\ Requesting /\ count \in 0..MaxMade /\ count < MaxMade
      /\ count' = count + 1 /\ UNCHANGED <<service, shown, changes, jobs, idle, slot>>
      /\ told' = Pages!NoPage
  BY DEF PageInv, World, Pages!Prepare, Pages!world, Pages!cache, Pages!Silent
<1>2. count \in Nat /\ count' \in 0..MaxMade /\ count' \in 1..MaxMade /\ count <= count' /\ count' \in Nat
  BY <1>1 DEF Pages!ConstantsSound
<1>3. PICK fs \in SUBSET PageFiles :
         req' = [req EXCEPT ![r] = [Pages!NoReq EXCEPT !.pc = "entries", !.job = count + 1,
                                      !.entries = [f \in fs |-> Pages!Entry(0, "pages", 0)]]]
  BY DEF Pages!Prepare
<1> DEFINE m == [f \in fs |-> Pages!Entry(0, "pages", 0)]
           q == [Pages!NoReq EXCEPT !.pc = "entries", !.job = count + 1, !.entries = m]
<1>4. Entered(m, AnyEntry) /\ Made(m, service) /\ DoneOf(m) = {}
  BY DEF Pages!Entry, Entered, AnyEntry, Marks, Made, DoneOf, Pages!ConstantsSound
<1>5. q \in Asking
  <2> HIDE DEF m
  <2> QED BY <1>1, <1>2, <1>4, AskingNew DEF Points
<1>6. q.pc = "entries" /\ q.job = count + 1 /\ q.entries = m
  BY DEF Pages!NoReq
<1>7. Going(q, jobs, count', service)
  <2>1. q.job \notin DOMAIN jobs /\ q.job \in 1..count'
    BY <1>1, <1>2, <1>6 DEF Keeping
  <2>2. SumFunctionOnSet(Size, DoneOf(m)) <= MaxJobBytes
    BY <1>4, SumEmpty DEF Pages!ConstantsSound
  <2> HIDE DEF q, m
  <2> QED BY <1>4, <1>6, <2>1, <2>2 DEF Going
<1>8. \A s \in Requests : s # r => Apart(q, req[s])
  <2> TAKE s \in Requests
  <2>1. req[s].pc # "idle" => req[s].job \in 1..count
    BY <1>1 DEF Requesting, Going
  <2> QED BY <1>1, <1>2, <1>6, <2>1 DEF Apart
<1> HIDE DEF q, m
<1>9. Requesting'
  <2>1. req' = [req EXCEPT ![r] = q]
    BY <1>3 DEF q, m
  <2>2. Going(q, jobs', count', service) /\ Recent(q, shown)
    BY <1>1, <1>6, <1>7 DEF Recent
  <2> QED BY <1>1, <1>2, <1>5, <1>8, <2>1, <2>2, RequestMoves
<1>10. World' /\ Keeping' /\ Aged(jobs, idle)'
  <2>1. World'
    BY <1>1, <1>2, SameWorld DEF World
  <2> QED BY <1>1, <1>2, <2>1, SameJobs
<1>11. Telling'
  BY <1>1 DEF Telling, Pages!NoPage
<1> QED
  BY <1>9, <1>10, <1>11 DEF PageInv

\* An answer ends the request.
LEMMA Answered ==
  ASSUME Pages!ConstantsSound, PageInv, UNCHANGED <<service, shown, changes, jobs, idle, count>>,
         slot' \in Requests \cup {None}, NEW r \in Requests,
         req' = [req EXCEPT ![r] = Pages!NoReq], told'.seen = told'.signature
  PROVE  PageInv'
<1>1. Pages!NoReq \in Asking /\ Pages!NoReq.pc = "idle" /\ Going(Pages!NoReq, jobs, count, service) /\ Recent(Pages!NoReq, shown)
  BY NoReqIs
<1> QED
  BY <1>1, RequestOnly

\* A step that shows no page says nothing wrong.
LEMMA SilentTells == Pages!Silent => told'.seen = told'.signature
BY DEF Pages!Silent, Pages!NoPage

\* The entry of a file that was pending.
LEMMA EntryGoes ==
  ASSUME NEW q \in Asking, q.pc = "entries", NEW f \in DOMAIN q.entries, NEW e \in AnyEntry,
         NEW js, NEW n, NEW kind, Going(q, js, n, kind), e.signature # 0,
         e.page = (IF kind = "print" THEN e.signature ELSE 0),
         kind = "print" => SumFunctionOnSet(Size, DoneOf(q.entries) \cup {f}) <= MaxJobBytes
  PROVE  LET new == [q EXCEPT !.entries[f] = e]
         IN new \in Asking /\ Going(new, js, n, kind) /\ new.pc = "entries" /\ new.job = q.job
<1> DEFINE m == [q.entries EXCEPT ![f] = e]
           new == [q EXCEPT !.entries = m]
<1>1. Entered(q.entries, AnyEntry)
  BY AskingIs
<1>2. Entered(m, AnyEntry)
  <2>1. DOMAIN m = DOMAIN q.entries /\ m = [g \in DOMAIN m |-> m[g]]
    BY <1>1 DEF Entered
  <2>2. \A g \in DOMAIN m : m[g] \in AnyEntry
    BY <1>1 DEF Entered
  <2> HIDE DEF m
  <2> QED BY <1>1, <2>1, <2>2 DEF Entered
<1>3. Made(m, kind)
  BY DEF Going, Made
<1>4. DoneOf(m) = DoneOf(q.entries) \cup {f}
  BY DEF DoneOf
<1> HIDE DEF m
<1>5. new \in Asking
  <2>1. "entries" \in Points
    BY DEF Points
  <2> QED BY <1>2, <2>1, AskingMoves
<1>6. new.pc = "entries" /\ new.job = q.job /\ new.entries = m
  BY DEF Asking
<1> HIDE DEF new
<1>7. Going(new, js, n, kind)
  BY <1>3, <1>4, <1>6 DEF Going
<1>8. [q EXCEPT !.entries[f] = e] = new
  BY DEF new, m
<1> QED
  BY <1>5, <1>6, <1>7, <1>8

\* Files are gone through one after another.
LEMMA EntryStep ==
  ASSUME Pages!ConstantsSound, PageInv, NEW r \in Requests, Pages!PreviewEntry(r) \/ Pages!PrintEntry(r)
  PROVE  PageInv'
<1> DEFINE f == Pages!Following(r)
           q == req[r]
<1>1. /\ UNCHANGED <<service, shown, changes, jobs, idle, count, slot>>
      /\ q.pc = "entries" /\ Pages!Pending(r) # {}
  BY DEF Pages!PreviewEntry, Pages!PrintEntry, Pages!world, Pages!cache
<1>2. /\ q \in Asking /\ Going(q, jobs, count, service) /\ Recent(q, shown) /\ req \in [Requests -> Asking]
      /\ slot' \in Requests \cup {None} /\ shown \in [PageFiles -> 1..(changes + 1)] /\ changes \in 0..MaxChanges
  BY <1>1 DEF PageInv, Requesting, World
<1>3. f \in DOMAIN q.entries /\ q.entries[f].signature = 0 /\ f \in PageFiles
  <2>1. f \in Pages!Pending(r)
    BY <1>1 DEF Pages!Following
  <2> HIDE DEF f
  <2> QED BY <1>2, <2>1, AskingIs DEF Pages!Pending, Entered
<1>4. shown[f] \in Marks /\ shown[f] # 0
  <2>1. shown[f] \in 1..(changes + 1)
    BY <1>2, <1>3
  <2> HIDE DEF f
  <2> QED BY <1>2, <2>1 DEF Marks, Pages!ConstantsSound
<1>5. CASE Pages!PreviewEntry(r)
  <2> DEFINE e == Pages!Entry(shown[f], IF Pages!Opens(f) THEN "pages" ELSE "error", 0)
             new == [q EXCEPT !.entries[f] = e]
  <2>1. req' = [req EXCEPT ![r].entries[f] = e] /\ service = "preview" /\ Pages!Silent
    BY <1>5 DEF Pages!PreviewEntry
  <2>2. e \in AnyEntry /\ e.signature # 0 /\ e.page = 0
    <3> HIDE DEF f
    <3> QED BY <1>4 DEF AnyEntry, Pages!Entry, Marks, Pages!ConstantsSound
  <2> HIDE DEF e, f
  <2>3. new \in Asking /\ Going(new, jobs, count, service) /\ new.pc = "entries" /\ new.job = q.job
    BY <1>1, <1>2, <1>3, <2>1, <2>2, EntryGoes
  <2>4. req' = [req EXCEPT ![r] = new]
    BY <1>2, <2>1
  <2> HIDE DEF new
  <2> QED BY <1>1, <1>2, <2>1, <2>3, <2>4, RequestOnly, SilentTells DEF Recent
<1>6. CASE Pages!PrintEntry(r)
  <2> DEFINE e == Pages!Entry(shown[f], "pages", shown[f])
             new == [q EXCEPT !.entries[f] = e]
             held == Pages!SumSize(DOMAIN q.entries \ Pages!Pending(r)) + Size[f]
  <2>1. CASE Pages!Answers(r, "refused")
    BY <1>1, <1>2, <2>1, Answered, SilentTells DEF Pages!Answers
  <2>2. CASE ~Pages!Answers(r, "refused")
    <3>1. /\ req' = [req EXCEPT ![r].entries[f] = e] /\ service = "print" /\ Pages!Silent
          /\ ~(held > MaxJobBytes)
      BY <1>6, <2>2 DEF Pages!PrintEntry
    <3>2. e \in AnyEntry /\ e.signature # 0 /\ e.page = e.signature
      <4> HIDE DEF f
      <4> QED BY <1>4 DEF AnyEntry, Pages!Entry, Marks, Pages!ConstantsSound
    <3>3. DOMAIN q.entries \ Pages!Pending(r) = DoneOf(q.entries)
      BY DEF Pages!Pending, DoneOf
    <3>4. SumFunctionOnSet(Size, DoneOf(q.entries) \cup {f}) <= MaxJobBytes
      <4> DEFINE S == DoneOf(q.entries)
                 T == S \cup {f}
      <4>1. f \notin S /\ T \subseteq PageFiles /\ f \in T /\ T \ {f} = S
        <5>1. S \subseteq PageFiles
          BY <1>2, AskingIs DEF DoneOf, Entered
        <5>2. f \notin S
          BY <1>3 DEF DoneOf
        <5> HIDE DEF S, f
        <5> QED BY <1>3, <5>1, <5>2
      <4>2. Pages!SumSize(S) = SumFunctionOnSet(Size, S)
        BY PageSum DEF Pages!SumSize
      <4>3. held = SumFunctionOnSet(Size, S) + Size[f]
        BY <3>3, <4>2
      <4> HIDE DEF S, T, held, f
      <4>4. IsFiniteSet(T) /\ (\A g \in T : Size[g] \in Int) /\ (\A g \in S : Size[g] \in Nat) /\ IsFiniteSet(S)
        <5>1. IsFiniteSet(PageFiles) /\ Size \in [PageFiles -> Nat] /\ S \subseteq T
          BY <4>1, PageFinite DEF Pages!ConstantsSound
        <5>2. \A g \in T : Size[g] \in Nat
          BY <4>1, <5>1
        <5>3. \A k \in Nat : k \in Int
          OBVIOUS
        <5>4. IsFiniteSet(T) /\ IsFiniteSet(S)
          BY <4>1, <5>1, FS_Subset
        <5>5. \A g \in S : Size[g] \in Nat
          BY <5>1, <5>2
        <5>6. \A g \in T : Size[g] \in Int
          BY <5>2, <5>3
        <5> QED BY <5>4, <5>5, <5>6
      <4>5. SumFunctionOnSet(Size, T) = Size[f] + SumFunctionOnSet(Size, S)
        BY <4>1, <4>4, SumStep
      <4>6. SumFunctionOnSet(Size, S) \in Nat /\ Size[f] \in Int
        BY <4>1, <4>4, SumNat
      <4> QED BY <3>1, <4>3, <4>5, <4>6 DEF T, S, Pages!ConstantsSound
    <3> HIDE DEF e, f
    <3>5. new \in Asking /\ Going(new, jobs, count, service) /\ new.pc = "entries" /\ new.job = q.job
      BY <1>1, <1>2, <1>3, <3>1, <3>2, <3>4, EntryGoes
    <3>6. req' = [req EXCEPT ![r] = new]
      BY <1>2, <3>1
    <3> HIDE DEF new
    <3> QED BY <1>1, <1>2, <3>1, <3>5, <3>6, RequestOnly, SilentTells DEF Recent
  <2> QED BY <2>1, <2>2
<1> QED
  BY <1>5, <1>6

\* A page is rendered while its file may change.
LEMMA RenderStep ==
  ASSUME Pages!ConstantsSound, PageInv, NEW r \in Requests,
         Pages!Render(r) \/ Pages!RenderFails(r) \/ Pages!Rendered(r)
  PROVE  PageInv'
<1> DEFINE q == req[r]
<1>1. /\ UNCHANGED <<service, shown, changes, jobs, idle, count>>
      /\ slot' \in {slot, r, None} /\ q.pc \in {"render", "rendered"}
  BY DEF Pages!Render, Pages!RenderFails, Pages!Rendered, Pages!world, Pages!cache, Pages!SlotAfter
<1>2. /\ q \in Asking /\ Going(q, jobs, count, service) /\ Recent(q, shown) /\ req \in [Requests -> Asking]
      /\ slot' \in Requests \cup {None} /\ shown \in [PageFiles -> 1..(changes + 1)] /\ changes \in 0..MaxChanges
  BY <1>1 DEF PageInv, Requesting, World
<1>3. q.file \in DOMAIN q.entries /\ q.file \in PageFiles
  BY <1>1, <1>2, AskingIs DEF Going, Entered
<1>4. CASE req' = [req EXCEPT ![r] = Pages!NoReq] /\ Pages!Silent
  BY <1>1, <1>2, <1>4, Answered, SilentTells
<1>5. CASE ~(req' = [req EXCEPT ![r] = Pages!NoReq] /\ Pages!Silent)
  <2>1. CASE Pages!Render(r)
    <3> DEFINE v == shown[q.file]
               new == [q EXCEPT !.seen = v, !.pc = "rendered"]
    <3>1. req' = [req EXCEPT ![r].seen = v, ![r].pc = "rendered"] /\ Pages!Silent /\ q.pc = "render"
      BY <1>5, <2>1 DEF Pages!Render, Pages!Answers
    <3>2. v \in 1..(MaxChanges + 1) /\ v \in Nat
      <4>1. v \in 1..(changes + 1)
        BY <1>2, <1>3
      <4> HIDE DEF v
      <4> QED BY <1>2, <4>1 DEF Pages!ConstantsSound
    <3> HIDE DEF v
    <3>3. new \in Asking
      BY <1>2, <3>2, AskingMoves DEF Points
    <3>4. new.pc = "rendered" /\ new.job = q.job /\ new.file = q.file /\ new.entries = q.entries /\ new.seen = v
      BY <1>2 DEF Asking
    <3>5. req' = [req EXCEPT ![r] = new]
      BY <1>2, <3>1
    <3> HIDE DEF new
    <3>6. Going(new, jobs, count, service)
      BY <1>2, <3>1, <3>2, <3>4 DEF Going, Selected
    <3>7. Recent(new, shown)
      <4>1. q.entries[q.file].signature <= v
        BY <1>2, <3>1 DEF Recent, v
      <4> QED BY <1>2, <1>3, <3>2, <3>4, <4>1 DEF Recent, v
    <3> QED BY <1>1, <1>2, <3>1, <3>3, <3>4, <3>5, <3>6, <3>7, RequestOnly, SilentTells DEF Recent
  <2>2. CASE Pages!Rendered(r)
    <3> DEFINE new == [q EXCEPT !.pc = "store"]
    <3>1. req' = [req EXCEPT ![r].pc = "store"] /\ Pages!Silent /\ q.pc = "rendered" /\ Pages!StillSelected(r)
      BY <1>5, <2>2 DEF Pages!Rendered, Pages!Answers
    <3>2. q.seen = q.entries[q.file].signature
      <4> DEFINE v == q.entries[q.file].signature
      <4>1. v <= q.seen /\ q.seen <= shown[q.file] /\ shown[q.file] = v /\ q.seen \in 1..(MaxChanges + 1)
        BY <1>2, <3>1 DEF Recent, Going, Pages!StillSelected
      <4>2. v \in Nat
        <5>1. shown[q.file] \in 1..(changes + 1)
          BY <1>2, <1>3
        <5> HIDE DEF v
        <5> QED BY <1>2, <4>1, <5>1
      <4> HIDE DEF v
      <4>3. q.seen = v
        BY <4>1, <4>2
      <4> QED BY <4>3 DEF v
    <3>3. new \in Asking
      BY <1>2, AskingMoves DEF Points
    <3>4. new.pc = "store" /\ new.job = q.job /\ new.file = q.file /\ new.entries = q.entries /\ new.seen = q.seen
      BY <1>2 DEF Asking
    <3>5. req' = [req EXCEPT ![r] = new]
      BY <1>2, <3>1
    <3> HIDE DEF new
    <3>6. Going(new, jobs, count, service)
      BY <1>2, <3>1, <3>2, <3>4 DEF Going, Selected
    <3> QED BY <1>1, <1>2, <3>1, <3>3, <3>4, <3>5, <3>6, RequestOnly, SilentTells DEF Recent
  <2>3. ~Pages!RenderFails(r)
    BY <1>5 DEF Pages!RenderFails, Pages!Answers
  <2> QED BY <2>1, <2>2, <2>3
<1> QED
  BY <1>4, <1>5

\* A request that has got a job, and perhaps a page to render.
LEMMA GotStep ==
  ASSUME Pages!ConstantsSound, PageInv, NEW j, Pages!GetJob(j),
         UNCHANGED <<service, shown, changes, count, slot>>,
         NEW r \in Requests, NEW q \in Asking, req' = [req EXCEPT ![r] = q],
         Going(q, jobs', count, service), Recent(q, shown), q.pc # "entries",
         q.pc # "idle" => q.job \in DOMAIN jobs, told'.seen = told'.signature
  PROVE  PageInv'
<1>1. World /\ Requesting /\ count \in Nat /\ slot \in Requests \cup {None} /\ count \in 0..MaxMade
  BY DEF PageInv, World, Pages!ConstantsSound
<1>2. /\ Keeping' /\ Aged(jobs, idle)' /\ DOMAIN jobs' \subseteq DOMAIN jobs
      /\ \A k \in DOMAIN jobs' : jobs'[k].entries = jobs[k].entries
  BY Got
<1>3. World'
  BY <1>1, SameWorld
<1>4. Requesting'
  <2>1. \A k \in DOMAIN jobs' :
            /\ k \in DOMAIN jobs /\ DOMAIN jobs'[k].entries = DOMAIN jobs[k].entries
            /\ \A f \in DOMAIN jobs[k].entries : jobs'[k].entries[f].signature = jobs[k].entries[f].signature
    BY <1>2
  <2>2. q.pc = "entries" => q.job = req[r].job /\ req[r].pc = "entries"
    OBVIOUS
  <2>3. q.pc # "idle" => q.job \in DOMAIN jobs \/ (q.job = req[r].job /\ req[r].pc # "idle")
    OBVIOUS
  <2> QED BY <1>1, <2>1, <2>2, <2>3, RequestsWithFewer
<1>5. Telling'
  BY DEF Telling
<1> QED
  BY <1>2, <1>3, <1>4, <1>5 DEF PageInv

\* A request that has got a job ends with an answer.
LEMMA GotAnswer ==
  ASSUME Pages!ConstantsSound, PageInv, NEW j, Pages!GetJob(j),
         UNCHANGED <<service, shown, changes, count, slot>>,
         NEW r \in Requests, req' = [req EXCEPT ![r] = Pages!NoReq], told'.seen = told'.signature
  PROVE  PageInv'
<1>1. /\ Pages!NoReq \in Asking /\ Pages!NoReq.pc = "idle" /\ Going(Pages!NoReq, jobs', count, service)
      /\ Recent(Pages!NoReq, shown)
  BY NoReqIs
<1> QED
  BY <1>1, GotStep

\* A page is shown as it is kept, or a request goes to render it.
LEMMA AskPageStep ==
  ASSUME Pages!ConstantsSound, PageInv, NEW r \in Requests, NEW j \in Pages!JobIds, NEW f \in PageFiles,
         Pages!AskPage(r, j, f)
  PROVE  PageInv'
<1>1. Pages!GetJob(j) /\ UNCHANGED <<service, shown, changes, count, slot>>
  BY DEF Pages!AskPage, Pages!world
<1>2. CASE Pages!Answers(r, "expired") \/ Pages!Answers(r, "changed") \/ Pages!Answers(r, "error")
  BY <1>1, <1>2, GotAnswer, SilentTells DEF Pages!Answers
<1>3. CASE ~(Pages!Answers(r, "expired") \/ Pages!Answers(r, "changed") \/ Pages!Answers(r, "error"))
  <2> DEFINE entry == Pages!Entries(j)[f]
             q == [Pages!NoReq EXCEPT !.pc = "render", !.job = j, !.file = f, !.entries = [x \in {f} |-> entry]]
  <2>1. j \in DOMAIN Pages!Live /\ f \in DOMAIN Pages!Entries(j)
    BY <1>3 DEF Pages!AskPage
  <2>2. /\ j \in DOMAIN jobs /\ f \in DOMAIN jobs[j].entries /\ entry = jobs[j].entries[f]
        /\ entry \in EntrySet /\ (service = "print" => entry.page = entry.signature)
        /\ service \in {"preview", "print"} /\ j \in 1..count /\ j \in 1..MaxMade
    <3>1. AreJobs(jobs) /\ (service = "print" => Whole(jobs)) /\ DOMAIN jobs \subseteq 1..count
      BY DEF PageInv, Keeping
    <3>2. j \in DOMAIN jobs
      BY <2>1, <3>1, LiveIs
    <3>3. f \in DOMAIN jobs[j].entries /\ entry = jobs[j].entries[f]
      BY <2>1 DEF Pages!Entries
    <3>4. entry \in EntrySet
      BY <3>1, <3>2, <3>3 DEF AreJobs, IsJob, Entered
    <3>5. service = "print" => entry.page = entry.signature
      BY <3>1, <3>2, <3>3 DEF Whole
    <3>6. service \in {"preview", "print"} /\ j \in 1..count /\ j \in 1..MaxMade
      BY <3>1, <3>2 DEF PageInv, World, Pages!JobIds
    <3> QED BY <3>2, <3>3, <3>4, <3>5, <3>6
  <2>3. \/ Pages!Shows(r, entry.page, entry.signature) /\ (service = "print" \/ entry.page # 0)
        \/ /\ req' = [req EXCEPT ![r] = q] /\ Pages!Silent
           /\ service = "preview" /\ shown[f] = entry.signature
    <3> HIDE DEF entry
    <3>1. CASE service = "print"
      BY <1>3, <2>1, <3>1 DEF Pages!AskPage, entry
    <3>2. CASE service = "preview"
      BY <1>3, <2>1, <3>2 DEF Pages!AskPage, entry
    <3> QED BY <2>2, <3>1, <3>2
  <2>4. CASE Pages!Shows(r, entry.page, entry.signature) /\ (service = "print" \/ entry.page # 0)
    <3> HIDE DEF entry
    <3>1. entry.page = entry.signature
      BY <2>2, <2>4 DEF EntrySet
    <3>2. req' = [req EXCEPT ![r] = Pages!NoReq] /\ told'.seen = told'.signature
      BY <2>4, <3>1 DEF Pages!Shows
    <3> QED BY <1>1, <3>2, GotAnswer
  <2>5. CASE /\ req' = [req EXCEPT ![r] = q] /\ Pages!Silent
             /\ service = "preview" /\ shown[f] = entry.signature
    <3>0. PICK e : e = entry
      OBVIOUS
    <3>1. Entered([x \in {f} |-> e], AnyEntry)
      BY <2>2, <3>0 DEF Entered, EntrySet
    <3> DEFINE m == [x \in {f} |-> e]
    <3>2. q = [Pages!NoReq EXCEPT !.pc = "render", !.job = j, !.file = f, !.entries = m]
      BY <3>0
    <3>3. m[f] = e /\ DOMAIN m = {f}
      OBVIOUS
    <3> HIDE DEF m, entry
    <3>4. q \in Asking
      BY <2>2, <3>1, <3>2, AskingNew DEF Points, m
    <3>5. q.pc = "render" /\ q.job = j /\ q.file = f /\ q.entries = m
      BY <3>2 DEF Pages!NoReq
    <3> HIDE DEF q
    <3>6. Recent(q, shown)
      <4>1. e.signature \in Nat
        BY <2>2, <3>0 DEF EntrySet, AnyEntry, Marks
      <4> QED BY <2>5, <3>0, <3>3, <3>5, <4>1 DEF Recent
    <3>7. Going(q, jobs', count, service)
      <4>1. \A k \in DOMAIN jobs' : jobs'[k].entries = jobs[k].entries
        BY <1>1, Got
      <4>2. Selected(q, jobs')
        BY <2>2, <3>0, <3>3, <3>5, <4>1 DEF Selected
      <4>3. e.signature # 0
        BY <2>2, <3>0 DEF EntrySet
      <4> QED BY <2>2, <2>5, <3>3, <3>5, <4>2, <4>3 DEF Going
    <3> QED BY <1>1, <2>2, <2>5, <3>4, <3>5, <3>6, <3>7, GotStep, SilentTells
  <2> QED BY <2>3, <2>4, <2>5
<1> QED
  BY <1>2, <1>3

\* A job that is touched is renewed and nothing else happens.
LEMMA TouchStep ==
  ASSUME Pages!ConstantsSound, PageInv, NEW r \in Requests, NEW j \in Pages!JobIds, Pages!Touch(r, j)
  PROVE  PageInv'
<1>1. Pages!GetJob(j) /\ UNCHANGED <<service, shown, changes, count, slot, req>> /\ Pages!Silent
      /\ req[r].pc = "idle"
  BY DEF Pages!Touch, Pages!world
<1>2. req \in [Requests -> Asking] /\ Going(req[r], jobs, count, service)
  BY DEF PageInv, Requesting
<1>3. req' = [req EXCEPT ![r] = req[r]] /\ req[r] \in Asking
  BY <1>1, <1>2
<1>4. Going(req[r], jobs', count, service) /\ Recent(req[r], shown)
  BY <1>1 DEF Going, Recent
<1> QED
  BY <1>1, <1>3, <1>4, GotStep, SilentTells

\* What is true of the jobs there will be is true of them after the step.
LEMMA JobsAfter ==
  ASSUME NEW more, more = jobs', AreJobs(more), Limited(more), DOMAIN more \subseteq 1..count,
         service = "print" => Whole(more), service' = service, count' = count
  PROVE  Keeping'
<1>1. AreJobs(jobs)'
  BY DEF AreJobs, IsJob, Entered, EntrySet, AnyEntry, Marks
<1>2. Limited(jobs)'
  BY DEF Limited
<1>3. (service = "print" => Whole(jobs))'
  BY DEF Whole
<1> QED
  BY <1>1, <1>2, <1>3 DEF Keeping

\* Files that were gone through make a job within its limit.
LEMMA JobIsMade ==
  ASSUME Pages!ConstantsSound, NEW q \in Asking, NEW js, NEW n, service \in {"preview", "print"},
         Going(q, js, n, service), q.pc = "entries",
         \A f \in DOMAIN q.entries : q.entries[f].signature # 0,
         NEW new, new = [entries |-> q.entries, age |-> 0]
  PROVE  /\ IsJob(new) /\ Pages!Bytes(new) <= MaxJobBytes
         /\ service = "print" => \A f \in DOMAIN new.entries : new.entries[f].page = new.entries[f].signature
<1>1. Entered(q.entries, AnyEntry) /\ Made(q.entries, service)
  BY AskingIs DEF Going
<1>2. Entered(q.entries, EntrySet)
  BY <1>1 DEF Entered, Made, EntrySet
<1>3. IsJob(new) /\ new.entries = q.entries
  BY <1>2 DEF IsJob
<1> DEFINE S == {f \in DOMAIN new.entries : new.entries[f].page # 0}
<1>4. DOMAIN new.entries \subseteq PageFiles
  BY <1>3 DEF IsJob, Entered
<1>5. Pages!Bytes(new) = SumFunctionOnSet(Size, S)
  BY <1>4, BytesIs
<1>6. CASE service = "print"
  <2>1. S = DoneOf(q.entries)
    BY <1>1, <1>3, <1>6 DEF Made, DoneOf
  <2>2. SumFunctionOnSet(Size, DoneOf(q.entries)) <= MaxJobBytes
    BY <1>6 DEF Going
  <2> HIDE DEF S
  <2>3. \A f \in DOMAIN new.entries : new.entries[f].page = new.entries[f].signature
    BY <1>1, <1>3, <1>6 DEF Made
  <2> QED BY <1>3, <1>5, <2>1, <2>2, <2>3
<1>7. CASE service = "preview"
  <2>1. S = {}
    BY <1>1, <1>3, <1>7 DEF Made
  <2> HIDE DEF S
  <2> QED BY <1>3, <1>5, <1>7, <2>1, SumEmpty DEF Pages!ConstantsSound
<1> QED
  BY <1>6, <1>7

\* A request that makes a job: the least used go for it, and it is within the limits.
LEMMA CreateJobStep ==
  ASSUME Pages!ConstantsSound, PageInv, NEW r \in Requests, Pages!CreateJob(r)
  PROVE  PageInv'
<1> DEFINE q == req[r]
           new == [entries |-> q.entries, age |-> 0]
           room == [jobs |-> 1, bytes |-> Pages!Bytes(new)]
           id == q.job
<1>1. /\ q.pc = "entries" /\ Pages!Pending(r) = {} /\ Pages!IdleOf({id}) /\ Pages!Answers(r, "created")
      /\ UNCHANGED <<service, shown, changes, slot, count>>
  BY DEF Pages!CreateJob, Pages!world
<1>2. PICK left \in Pages!Evicted(Pages!Live, room, {}) : jobs' = Pages!With(left, id, new)
  BY DEF Pages!CreateJob
<1>3. /\ World /\ Keeping /\ Aged(jobs, idle) /\ Requesting /\ AreJobs(jobs) /\ service \in {"preview", "print"}
      /\ count \in 0..MaxMade /\ count \in Nat /\ slot \in Requests \cup {None} /\ DOMAIN jobs \subseteq 1..count
      /\ q \in Asking /\ Going(q, jobs, count, service) /\ MaxMade \in Nat
  BY DEF PageInv, Keeping, World, Requesting, Pages!ConstantsSound
<1>4. \A f \in DOMAIN q.entries : q.entries[f].signature # 0
  BY <1>1 DEF Pages!Pending
<1>5. id \in 1..count /\ id \notin DOMAIN jobs
  BY <1>1, <1>3 DEF Going
<1>6. /\ IsJob(new) /\ Pages!Bytes(new) <= MaxJobBytes
      /\ service = "print" => \A f \in DOMAIN new.entries : new.entries[f].page = new.entries[f].signature
  BY <1>1, <1>3, <1>4, JobIsMade
<1>7. /\ AreJobs(Pages!Live) /\ DOMAIN Pages!Live \subseteq DOMAIN jobs
      /\ \A k \in DOMAIN Pages!Live : Pages!Live[k] = jobs[k]
  BY <1>3, LiveIs
<1>8. new.age = 0
  OBVIOUS
<1>9. \A k \in DOMAIN Pages!Live : Pages!Live[k].entries = jobs[k].entries
  BY <1>7
<1>10. PICK more : more = jobs'
  OBVIOUS
<1>11. more = Pages!With(left, id, new)
  BY <1>2, <1>10
<1> HIDE DEF new, id, q
<1>12. /\ AreJobs(left) /\ DOMAIN left \subseteq DOMAIN Pages!Live
       /\ \A k \in DOMAIN left : left[k] = Pages!Live[k]
       /\ service = "print" => Whole(left)
  <2>1. left \in Pages!Evicted(Pages!Live, room, {})
    BY <1>2
  <2> HIDE DEF room
  <2> QED BY <1>3, <1>7, <1>9, <2>1, LeftIs
<1>13. /\ AreJobs(more) /\ DOMAIN more = DOMAIN left \cup {id} /\ Limited(more)
       /\ more[id] = new /\ \A k \in DOMAIN left : more[k] = left[k]
  <2>1. room.jobs = 1 /\ room.bytes = Pages!Bytes(new) /\ left \in Pages!Evicted(Pages!Live, room, {})
    OBVIOUS
  <2> HIDE DEF room
  <2>2. PICK js, x, i : js = Pages!Live /\ x = new /\ i = id
    OBVIOUS
  <2>3. /\ Keeping /\ AreJobs(js) /\ DOMAIN js \subseteq DOMAIN jobs
        /\ \A k \in DOMAIN js : js[k].entries = jobs[k].entries
        /\ IsJob(x) /\ Pages!Bytes(x) <= MaxJobBytes /\ i \notin DOMAIN jobs
        /\ room.jobs = 1 /\ room.bytes = Pages!Bytes(x) /\ left \in Pages!Evicted(js, room, {})
        /\ more = Pages!With(left, i, x)
    BY <1>3, <1>5, <1>6, <1>7, <1>9, <1>11, <2>1, <2>2
  <2>4. /\ AreJobs(more) /\ DOMAIN more = DOMAIN left \cup {i} /\ Limited(more)
        /\ more[i] = x /\ \A k \in DOMAIN left : more[k] = left[k]
    BY ONLY Pages!ConstantsSound, <2>3, Added
  <2> QED BY <2>2, <2>4
<1>14. DOMAIN more \subseteq 1..count /\ DOMAIN more \subseteq 1..MaxMade
  BY <1>3, <1>5, <1>7, <1>12, <1>13
<1>15. service = "print" => Whole(more)
  BY <1>6, <1>12, <1>13 DEF Whole
<1>16. Keeping'
  BY <1>1, <1>10, <1>13, <1>14, <1>15, JobsAfter
<1>17. Aged(jobs, idle)'
  <2>1. \A j \in DOMAIN jobs' : \/ j \in {id} /\ jobs'[j].age = 0
                                \/ j \notin {id} /\ j \in DOMAIN jobs /\ jobs'[j].age = jobs[j].age
    BY <1>7, <1>8, <1>10, <1>12, <1>13
  <2>2. DOMAIN jobs' \subseteq 1..MaxMade
    BY <1>10, <1>14
  <2> QED BY <1>1, <1>3, <2>1, <2>2, AgesAre
<1>18. Requesting'
  <2> DEFINE none == Pages!NoReq
  <2>1. /\ none \in Asking /\ none.pc = "idle" /\ Going(none, jobs', count', service)
        /\ Recent(none, shown) /\ req' = [req EXCEPT ![r] = none]
    BY <1>1, NoReqIs DEF Pages!Answers
  <2>2. \A s \in Requests : s # r => Apart(none, req[s])
    <3> TAKE s \in Requests
    <3>1. Apart(q, req[s]) \/ s = r
      BY <1>3 DEF Requesting, q
    <3> QED BY <2>1, <3>1 DEF Apart
  <2>3. \A s \in Requests \ {r} : req[s].pc # "idle" => \A j \in DOMAIN jobs' : j = req[s].job =>
            /\ j \in DOMAIN jobs /\ DOMAIN jobs'[j].entries = DOMAIN jobs[j].entries
            /\ \A f \in DOMAIN jobs[j].entries : jobs'[j].entries[f].signature = jobs[j].entries[f].signature
    <3> TAKE s \in Requests \ {r}
    <3>1. req[s].pc # "idle" => req[s].job # id
      BY <1>1, <1>3 DEF Requesting, Apart, q, id
    <3>2. \A j \in DOMAIN jobs' : j # id => j \in DOMAIN jobs /\ jobs'[j] = jobs[j]
      BY <1>7, <1>10, <1>12, <1>13
    <3> QED BY <3>1, <3>2
  <2>4. count' \in Nat /\ count <= count' /\ service' = service /\ shown' = shown
    BY <1>1, <1>3
  <2> HIDE DEF none
  <2> QED BY <1>3, <2>1, <2>2, <2>3, <2>4, RequestMoves
<1>19. World'
  <2>1. count' \in 0..MaxMade /\ slot' \in Requests \cup {None}
    BY <1>1, <1>3
  <2> QED BY <1>1, <1>3, <2>1, SameWorld
<1>20. Telling'
  BY <1>1, SilentTells DEF Telling, Pages!Answers
<1> QED
  BY <1>16, <1>17, <1>18, <1>19, <1>20 DEF PageInv

\* Time passes for every job.
LEMMA PageTick == ASSUME Pages!ConstantsSound, PageInv, Pages!Tick PROVE PageInv'
<1>1. /\ UNCHANGED <<service, shown, changes, slot, req, count>> /\ Pages!Silent
      /\ jobs' = [j \in DOMAIN jobs |-> [jobs[j] EXCEPT !.age = @ + 1]]
      /\ idle' = [j \in 1..MaxMade |-> IF j \in DOMAIN jobs THEN idle[j] + 1 ELSE idle[j]]
  BY DEF Pages!Tick, Pages!world, Pages!JobIds
<1>2. /\ World /\ Keeping /\ Aged(jobs, idle) /\ Requesting /\ AreJobs(jobs)
      /\ count \in 0..MaxMade /\ slot \in Requests \cup {None}
      /\ idle \in [1..MaxMade -> Nat] /\ (\A j \in DOMAIN jobs : jobs[j].age = idle[j])
      /\ DOMAIN jobs \subseteq 1..count /\ MaxMade \in Nat
  BY DEF PageInv, Keeping, World, Aged, Pages!ConstantsSound
<1>3. PICK more : more = jobs'
  OBVIOUS
<1>4. \A j \in DOMAIN jobs : more[j] = [entries |-> jobs[j].entries, age |-> jobs[j].age + 1]
  <2> TAKE j \in DOMAIN jobs
  <2>1. jobs[j] = [entries |-> jobs[j].entries, age |-> jobs[j].age]
    BY <1>2 DEF AreJobs, IsJob
  <2>2. more[j] = [jobs[j] EXCEPT !.age = jobs[j].age + 1]
    BY <1>1, <1>3
  <2> QED BY <2>1, <2>2
<1>5. DOMAIN more = DOMAIN jobs /\ more = [j \in DOMAIN more |-> more[j]]
  BY <1>1, <1>3
<1>6. AreJobs(more)
  <2>1. ASSUME NEW j \in DOMAIN more PROVE IsJob(more[j])
    <3>1. IsJob(jobs[j]) /\ more[j] = [entries |-> jobs[j].entries, age |-> jobs[j].age + 1]
      BY <1>2, <1>4, <1>5 DEF AreJobs
    <3>2. more[j].entries = jobs[j].entries /\ more[j].age = jobs[j].age + 1
      BY <3>1
    <3>3. more[j] = [entries |-> more[j].entries, age |-> more[j].age]
      BY <3>1
    <3>4. more[j].age \in Nat /\ Entered(more[j].entries, EntrySet)
      BY <3>1, <3>2 DEF IsJob
    <3> QED BY <3>3, <3>4 DEF IsJob
  <2> QED BY <1>5, <2>1 DEF AreJobs
<1>7. \A j \in DOMAIN more : more[j].entries = jobs[j].entries
  BY <1>4, <1>5
<1>8. Limited(more) /\ DOMAIN more \subseteq 1..count /\ (service = "print" => Whole(more))
  <2>1. DOMAIN more \subseteq DOMAIN jobs
    BY <1>5
  <2> QED BY <1>2, <1>6, <1>7, <2>1, FewerJobs
<1>9. Keeping'
  BY <1>1, <1>3, <1>6, <1>8, JobsAfter
<1>10. Aged(jobs, idle)'
  <2>1. idle' \in [1..MaxMade -> Nat]
    BY <1>1, <1>2
  <2>2. \A j \in DOMAIN jobs' : jobs'[j].age = idle'[j]
    <3> TAKE j \in DOMAIN jobs'
    <3>1. j \in DOMAIN jobs /\ j \in 1..MaxMade
      BY <1>2, <1>3, <1>5
    <3>2. more[j] = [entries |-> jobs[j].entries, age |-> jobs[j].age + 1]
      BY <1>4, <3>1
    <3>3. more[j].age = jobs[j].age + 1
      BY <3>2
    <3> QED BY <1>1, <1>2, <1>3, <3>1, <3>3
  <2> QED BY <2>1, <2>2 DEF Aged
<1>11. Requesting'
  <2>1. (req \in [Requests -> Asking])'
    BY <1>1, <1>2 DEF Requesting, Asking, AnyEntry, Marks, Points
  <2>2. ASSUME NEW s \in Requests PROVE Going(req'[s], jobs', count', service') /\ Recent(req'[s], shown')
    <3> DEFINE p == req[s]
    <3>1. Going(p, jobs, count, service) /\ Recent(p, shown)
      BY <1>2 DEF Requesting
    <3> HIDE DEF p
    <3>2. count \in Nat /\ count <= count
      BY <1>2 DEF Pages!ConstantsSound
    <3>3. p.pc # "idle" => \A j \in DOMAIN more : j = p.job =>
            /\ j \in DOMAIN jobs /\ DOMAIN more[j].entries = DOMAIN jobs[j].entries
            /\ \A f \in DOMAIN jobs[j].entries : more[j].entries[f].signature = jobs[j].entries[f].signature
      BY <1>5, <1>7
    <3>4. Going(p, more, count, service)
      BY <3>1, <3>2, <3>3, StillGoing
    <3> QED BY <1>1, <1>3, <3>1, <3>4 DEF p
  <2>3. \A r, s \in Requests : r # s => Apart(req'[r], req'[s])
    BY <1>1, <1>2 DEF Requesting
  <2> QED BY <2>1, <2>2, <2>3 DEF Requesting
<1>12. World' /\ Telling'
  <2>1. count' \in 0..MaxMade /\ slot' \in Requests \cup {None}
    BY <1>1, <1>2
  <2> QED BY <1>1, <1>2, <2>1, SameWorld, SilentTells DEF Telling
<1> QED
  BY <1>9, <1>10, <1>11, <1>12 DEF PageInv

\* A file that changes has a later version, and no request has seen a later one.
LEMMA FileChangesStep ==
  ASSUME Pages!ConstantsSound, PageInv, NEW f \in PageFiles, Pages!FileChanges(f)
  PROVE  PageInv'
<1>1. /\ UNCHANGED <<service, jobs, idle, slot, req, count>> /\ Pages!Silent
      /\ shown' = [shown EXCEPT ![f] = @ + 1] /\ changes' = changes + 1 /\ changes < MaxChanges
  BY DEF Pages!FileChanges, Pages!cache
<1>2. /\ World /\ Keeping /\ Aged(jobs, idle) /\ Requesting /\ count \in Nat /\ count \in 0..MaxMade
      /\ changes \in 0..MaxChanges /\ shown \in [PageFiles -> 1..(changes + 1)]
      /\ slot \in Requests \cup {None} /\ MaxChanges \in Nat
  BY DEF PageInv, World, Pages!ConstantsSound
<1>3. World'
  <2>1. changes' \in 0..MaxChanges
    BY <1>1, <1>2
  <2>2. shown' \in [PageFiles -> 1..(changes' + 1)]
    <3>1. \A g \in PageFiles : shown[g] \in 1..(changes + 1)
      BY <1>2
    <3>2. \A g \in PageFiles : shown'[g] = IF g = f THEN shown[f] + 1 ELSE shown[g]
      BY <1>1, <1>2
    <3>3. \A g \in PageFiles : shown'[g] \in 1..(changes' + 1)
      BY <1>1, <1>2, <3>1, <3>2
    <3> QED BY <1>1, <1>2, <3>3
  <2> QED BY <1>1, <1>2, <2>1, <2>2 DEF World
<1>4. Keeping' /\ Aged(jobs, idle)'
  BY <1>1, <1>2, SameJobs
<1>5. ASSUME NEW s \in Requests PROVE Recent(req[s], shown')
  <2> DEFINE q == req[s]
  <2>1. Recent(q, shown) /\ Going(q, jobs, count, service) /\ q \in Asking
    BY <1>2 DEF Requesting
  <2>2. q.pc \in {"render", "rendered"} => q.file \in PageFiles /\ q.entries[q.file].signature \in Nat
    <3>1. Entered(q.entries, AnyEntry)
      BY <2>1, AskingIs
    <3>2. q.pc \in {"render", "rendered"} => q.file \in DOMAIN q.entries
      BY <2>1 DEF Going
    <3>3. \A m \in Marks : m \in Nat
      BY <1>2 DEF Marks
    <3>4. \A e \in AnyEntry : e.signature \in Nat
      BY <3>3 DEF AnyEntry
    <3> HIDE DEF q
    <3> QED BY <3>1, <3>2, <3>4 DEF Entered
  <2>3. \A g \in PageFiles : shown[g] \in Nat /\ shown'[g] \in Nat /\ shown[g] <= shown'[g]
    <3>1. \A g \in PageFiles : shown[g] \in 1..(changes + 1)
      BY <1>2
    <3> QED BY <1>1, <1>2, <3>1
  <2>4. q.seen \in Nat
    BY <2>1 DEF Asking
  <2> HIDE DEF q
  <2> QED BY <2>1, <2>2, <2>3, <2>4 DEF Recent, q
<1>6. Requesting'
  <2>1. (req \in [Requests -> Asking])'
    BY <1>1, <1>2 DEF Requesting, Asking, AnyEntry, Marks, Points
  <2>2. \A s \in Requests : Going(req'[s], jobs', count', service') /\ Recent(req'[s], shown')
    BY <1>1, <1>2, <1>5 DEF Requesting
  <2>3. \A r, s \in Requests : r # s => Apart(req'[r], req'[s])
    BY <1>1, <1>2 DEF Requesting
  <2> QED BY <2>1, <2>2, <2>3 DEF Requesting
<1>7. Telling'
  BY <1>1, SilentTells DEF Telling
<1> QED
  BY <1>3, <1>4, <1>6, <1>7 DEF PageInv

\* Some of the jobs stay, with the files they have and j renewed.
Remain(more, j) ==
  /\ AreJobs(more) /\ Limited(more) /\ DOMAIN more \subseteq DOMAIN jobs
  /\ \A k \in DOMAIN more : /\ DOMAIN more[k].entries = DOMAIN jobs[k].entries
                           /\ \A g \in DOMAIN jobs[k].entries :
                                 more[k].entries[g].signature = jobs[k].entries[g].signature
  /\ \A k \in DOMAIN more : more[k].age = IF k = j THEN 0 ELSE jobs[k].age

\* A request that ends with jobs that are some of those there were, one of them renewed.
LEMMA StoreEnds ==
  ASSUME Pages!ConstantsSound, PageInv, service = "preview",
         UNCHANGED <<service, shown, changes, slot, count>>,
         NEW r \in Requests, req' = [req EXCEPT ![r] = Pages!NoReq], told'.seen = told'.signature,
         NEW j, Pages!IdleOf({j}), NEW more, more = jobs', Remain(more, j)
  PROVE  PageInv'
<1>1. /\ World /\ Keeping /\ Aged(jobs, idle) /\ Requesting /\ count \in 0..MaxMade /\ count \in Nat
      /\ slot \in Requests \cup {None} /\ DOMAIN jobs \subseteq 1..count /\ MaxMade \in Nat
  BY DEF PageInv, Keeping, World, Pages!ConstantsSound
<1>2. Keeping'
  <2>1. DOMAIN more \subseteq 1..count /\ AreJobs(more) /\ Limited(more)
    BY <1>1 DEF Remain
  <2>2. service = "print" => Whole(more)
    OBVIOUS
  <2>3. service' = service /\ count' = count
    OBVIOUS
  <2> QED BY <2>1, <2>2, <2>3, JobsAfter
<1>3. Aged(jobs, idle)'
  <2>1. DOMAIN jobs' \subseteq 1..MaxMade
    BY <1>1 DEF Remain
  <2>2. \A k \in DOMAIN jobs' : \/ k \in {j} /\ jobs'[k].age = 0
                                \/ k \notin {j} /\ k \in DOMAIN jobs /\ jobs'[k].age = jobs[k].age
    BY DEF Remain
  <2> QED BY <1>1, <2>1, <2>2, AgesAre
<1>4. Requesting'
  <2> DEFINE none == Pages!NoReq
  <2>1. /\ none \in Asking /\ none.pc = "idle" /\ Going(none, jobs', count, service)
        /\ Recent(none, shown) /\ req' = [req EXCEPT ![r] = none]
    BY NoReqIs
  <2>2. \A k \in DOMAIN jobs' :
            /\ k \in DOMAIN jobs /\ DOMAIN jobs'[k].entries = DOMAIN jobs[k].entries
            /\ \A f \in DOMAIN jobs[k].entries : jobs'[k].entries[f].signature = jobs[k].entries[f].signature
    BY DEF Remain
  <2>3. none.pc = "entries" => none.job = req[r].job /\ req[r].pc = "entries"
    BY <2>1
  <2>4. none.pc # "idle" => none.job \in DOMAIN jobs \/ (none.job = req[r].job /\ req[r].pc # "idle")
    BY <2>1
  <2> HIDE DEF none
  <2> QED BY <1>1, <2>1, <2>2, <2>3, <2>4, RequestsWithFewer
<1>5. World'
  <2>1. count' \in 0..MaxMade /\ slot' \in Requests \cup {None}
    BY <1>1
  <2> QED BY <1>1, <2>1, SameWorld
<1>6. Telling'
  BY DEF Telling
<1> QED
  BY <1>2, <1>3, <1>4, <1>5, <1>6 DEF PageInv

\* A page that is stored is of the version the job has, in a job that stays within its limit.
LEMMA StorePageStep ==
  ASSUME Pages!ConstantsSound, PageInv, NEW r \in Requests, Pages!StorePage(r)
  PROVE  PageInv'
<1> DEFINE q == req[r]
           j == q.job
           f == q.file
           v == q.entries[f].signature
           live == Pages!Live
           left == Pages!Renewed(live, j)
           room == [jobs |-> 0, bytes |-> Size[f]]
<1>1. /\ q.pc = "store" /\ Pages!IdleOf({j}) /\ UNCHANGED <<service, shown, changes, slot, count>>
      /\ req' = [req EXCEPT ![r] = Pages!NoReq]
  BY DEF Pages!StorePage, Pages!world, Pages!Answers, Pages!Shows
<1>2. /\ Keeping /\ AreJobs(jobs) /\ Going(q, jobs, count, service)
  BY DEF PageInv, Keeping, Requesting
<1>3. service = "preview" /\ Selected(q, jobs) /\ q.seen = v
  BY <1>1, <1>2 DEF Going
<1>4. /\ AreJobs(live) /\ DOMAIN live \subseteq DOMAIN jobs
      /\ \A k \in DOMAIN live : live[k] = jobs[k]
  BY <1>2, LiveIs
<1>5. CASE j \notin DOMAIN live
  <2>1. jobs' = live /\ Pages!Silent
    BY <1>5 DEF Pages!StorePage, Pages!Answers
  <2>2. PICK more : more = jobs'
    OBVIOUS
  <2>3. /\ AreJobs(more) /\ DOMAIN more \subseteq DOMAIN jobs /\ \A k \in DOMAIN more : more[k].entries = jobs[k].entries
    BY <1>4, <2>1, <2>2
  <2>4. Limited(more)
    BY <1>2, <2>3, FewerJobs
  <2>5. \A k \in DOMAIN more : more[k].age = IF k = j THEN 0 ELSE jobs[k].age
    BY <1>4, <1>5, <2>1, <2>2
  <2>6. told'.seen = told'.signature
    BY <2>1, SilentTells
  <2>7. \A k \in DOMAIN more : /\ DOMAIN more[k].entries = DOMAIN jobs[k].entries
                                /\ \A g \in DOMAIN jobs[k].entries :
                                      more[k].entries[g].signature = jobs[k].entries[g].signature
    BY <2>3
  <2> HIDE DEF j
  <2>8. Remain(more, j)
    BY <2>3, <2>4, <2>5, <2>7 DEF Remain
  <2> QED BY <1>1, <1>3, <2>2, <2>6, <2>8, StoreEnds
<1>6. CASE j \in DOMAIN live
  <2>1. /\ AreJobs(left) /\ DOMAIN left = DOMAIN live /\ DOMAIN left \subseteq DOMAIN jobs
        /\ \A k \in DOMAIN left : left[k].entries = jobs[k].entries
        /\ \A k \in DOMAIN left : left[k].age = IF k = j THEN 0 ELSE jobs[k].age
    <3> HIDE DEF live, j
    <3>1. LET new == left
          IN /\ AreJobs(new) /\ DOMAIN new = DOMAIN live
             /\ \A k \in DOMAIN live : new[k].entries = live[k].entries
             /\ \A k \in DOMAIN live : new[k].age = IF k = j /\ service # "print" THEN 0 ELSE live[k].age
      BY <1>4, <1>6, RenewedIs
    <3> HIDE DEF left
    <3> QED BY <1>3, <1>4, <3>1
  <2>2. f \in DOMAIN left[j].entries /\ left[j].entries[f].signature = v /\ left[j].entries[f].page \in {0, v}
    <3>1. j \in DOMAIN jobs /\ left[j].entries = jobs[j].entries
      BY <1>4, <1>6, <2>1
    <3>2. f \in DOMAIN jobs[j].entries /\ jobs[j].entries[f].signature = v
      BY <1>3, <3>1 DEF Selected
    <3>3. jobs[j].entries[f] \in EntrySet
      BY <1>2, <3>1, <3>2 DEF AreJobs, IsJob, Entered
    <3>4. jobs[j].entries[f].page \in {0, v}
      BY <3>2, <3>3 DEF EntrySet
    <3> HIDE DEF left, j, f, v
    <3> QED BY <3>1, <3>2, <3>4
  <2>3. Limited(left)
    <3> HIDE DEF left
    <3> QED BY <1>2, <2>1, FewerJobs
  <2>4. ASSUME jobs' = left, told'.seen = told'.signature PROVE PageInv'
    <3>1. PICK more : more = jobs'
      OBVIOUS
    <3> HIDE DEF left, j
    <3>2. AreJobs(more) /\ Limited(more) /\ DOMAIN more \subseteq DOMAIN jobs
      BY <2>1, <2>3, <2>4, <3>1
    <3>3. \A k \in DOMAIN more : /\ DOMAIN more[k].entries = DOMAIN jobs[k].entries
                                 /\ \A g \in DOMAIN jobs[k].entries :
                                       more[k].entries[g].signature = jobs[k].entries[g].signature
      BY <2>1, <2>4, <3>1
    <3>4. \A k \in DOMAIN more : more[k].age = IF k = j THEN 0 ELSE jobs[k].age
      BY <2>1, <2>4, <3>1
    <3>5. Remain(more, j)
      BY <3>2, <3>3, <3>4 DEF Remain
    <3> QED BY <1>1, <1>3, <2>4, <3>1, <3>5, StoreEnds
  <2>5. ASSUME NEW kept \in Pages!Evicted(left, room, {j}) PROVE
          /\ AreJobs(kept) /\ Limited(kept) /\ DOMAIN kept \subseteq DOMAIN left /\ j \in DOMAIN kept
          /\ Pages!Cached(kept) \in Nat
          /\ \A k \in DOMAIN kept : kept[k] = left[k]
    <3> DEFINE spare == {j}
    <3>1. kept \in Pages!Evicted(left, room, spare) /\ j \in spare /\ j \in DOMAIN left
      BY <1>6, <2>1, <2>5
    <3> HIDE DEF left, j, room, spare
    <3>2. /\ AreJobs(kept) /\ DOMAIN kept \subseteq DOMAIN left /\ spare \cap DOMAIN left \subseteq DOMAIN kept
          /\ \A k \in DOMAIN kept : kept[k] = left[k]
          /\ Limited(kept) /\ Pages!Cached(kept) \in Nat
      BY <1>2, <2>1, <3>1, LeftIs
    <3> QED BY <3>1, <3>2
  <2>6. CASE left[j].entries[f].page # 0 /\ Pages!Shows(r, left[j].entries[f].page, v) /\ jobs' = left
    <3>1. left[j].entries[f].page = v
      BY <2>2, <2>6
    <3>2. told'.seen = told'.signature
      BY <2>6, <3>1 DEF Pages!Shows
    <3> QED BY <2>4, <2>6, <3>2
  <2>7. CASE Pages!Answers(r, "too_large") /\ jobs' = left
    BY <2>4, <2>7, SilentTells DEF Pages!Answers
  <2>8. CASE /\ left[j].entries[f].page = 0
             /\ Pages!Bytes(left[j]) + Size[f] <= MaxJobBytes
             /\ \E kept \in Pages!Evicted(left, room, {j}) :
                 IF Pages!Cached(kept) + Size[f] > MaxCacheBytes
                 THEN jobs' = kept /\ Pages!Answers(r, "full")
                 ELSE /\ jobs' = [kept EXCEPT ![j].entries[f].page = q.seen]
                      /\ Pages!Shows(r, q.seen, v)
    <3>1. PICK kept \in Pages!Evicted(left, room, {j}) :
                 IF Pages!Cached(kept) + Size[f] > MaxCacheBytes
                 THEN jobs' = kept /\ Pages!Answers(r, "full")
                 ELSE /\ jobs' = [kept EXCEPT ![j].entries[f].page = q.seen]
                      /\ Pages!Shows(r, q.seen, v)
      BY <2>8
    <3>2. /\ AreJobs(kept) /\ Limited(kept) /\ DOMAIN kept \subseteq DOMAIN jobs /\ j \in DOMAIN kept
          /\ kept[j] = left[j] /\ Pages!Cached(kept) \in Nat
          /\ \A k \in DOMAIN kept : kept[k].entries = jobs[k].entries
          /\ \A k \in DOMAIN kept : kept[k].age = IF k = j THEN 0 ELSE jobs[k].age
      <4> HIDE DEF left, j, room
      <4> QED BY <2>1, <2>5
    <3>3. CASE Pages!Cached(kept) + Size[f] > MaxCacheBytes
      <4>1. jobs' = kept /\ told'.seen = told'.signature
        BY <3>1, <3>3, SilentTells DEF Pages!Answers
      <4>2. PICK more : more = jobs'
        OBVIOUS
      <4> HIDE DEF j
      <4>3. AreJobs(more) /\ Limited(more) /\ DOMAIN more \subseteq DOMAIN jobs
        BY <3>2, <4>1, <4>2
      <4>4. \A k \in DOMAIN more : /\ DOMAIN more[k].entries = DOMAIN jobs[k].entries
                                   /\ \A g \in DOMAIN jobs[k].entries :
                                         more[k].entries[g].signature = jobs[k].entries[g].signature
        BY <3>2, <4>1, <4>2
      <4>5. \A k \in DOMAIN more : more[k].age = IF k = j THEN 0 ELSE jobs[k].age
        BY <3>2, <4>1, <4>2
      <4>6. Remain(more, j)
        BY <4>3, <4>4, <4>5 DEF Remain
      <4> QED BY <1>1, <1>3, <4>1, <4>2, <4>6, StoreEnds
    <3>4. CASE ~(Pages!Cached(kept) + Size[f] > MaxCacheBytes)
      <4>1. jobs' = [kept EXCEPT ![j].entries[f].page = q.seen] /\ Pages!Shows(r, q.seen, v)
        BY <3>1, <3>4
      <4>2. told'.seen = told'.signature
        BY <1>3, <4>1 DEF Pages!Shows
      <4>3. PICK more : more = jobs'
        OBVIOUS
      <4>4. more = [kept EXCEPT ![j].entries[f].page = v] /\ v = kept[j].entries[f].signature
        BY <1>3, <2>2, <3>2, <4>1, <4>3
      <4>5. f \in DOMAIN kept[j].entries /\ kept[j].entries[f].page = 0 /\ Pages!Bytes(kept[j]) + Size[f] <= MaxJobBytes
        BY <2>2, <2>8, <3>2
      <4>6. Pages!Cached(kept) + Size[f] <= MaxCacheBytes
        <5>1. f \in PageFiles
          BY <3>2, <4>5 DEF AreJobs, IsJob, Entered
        <5>2. Size[f] \in Nat /\ MaxCacheBytes \in Nat
          BY <5>1 DEF Pages!ConstantsSound
        <5> HIDE DEF f
        <5> QED BY <3>2, <3>4, <5>2
      <4> HIDE DEF j, f, v, left
      <4>12. j \in DOMAIN kept /\ AreJobs(kept) /\ Limited(kept)
        BY <3>2
      <4>7. /\ AreJobs(more) /\ DOMAIN more = DOMAIN kept /\ Limited(more)
            /\ \A k \in DOMAIN kept : /\ more[k].age = kept[k].age /\ DOMAIN more[k].entries = DOMAIN kept[k].entries
                                      /\ \A g \in DOMAIN kept[k].entries :
                                            more[k].entries[g].signature = kept[k].entries[g].signature
        <5>1. PICK i, g, w : i = j /\ g = f /\ w = v
          OBVIOUS
        <5>2. /\ AreJobs(kept) /\ Limited(kept) /\ i \in DOMAIN kept /\ g \in DOMAIN kept[i].entries
              /\ kept[i].entries[g].page = 0 /\ w = kept[i].entries[g].signature
              /\ Pages!Bytes(kept[i]) + Size[g] <= MaxJobBytes /\ Pages!Cached(kept) + Size[g] <= MaxCacheBytes
              /\ more = Stored(kept, i, g, w)
          BY <4>4, <4>5, <4>6, <4>12, <5>1 DEF Stored
        <5>3. /\ AreJobs(more) /\ DOMAIN more = DOMAIN kept /\ Limited(more)
              /\ \A k \in DOMAIN kept : /\ more[k].age = kept[k].age /\ DOMAIN more[k].entries = DOMAIN kept[k].entries
                                        /\ \A h \in DOMAIN kept[k].entries :
                                              more[k].entries[h].signature = kept[k].entries[h].signature
          BY ONLY Pages!ConstantsSound, <5>2, Paged
        <5> QED BY <5>3
      <4>8. \A k \in DOMAIN more : /\ DOMAIN more[k].entries = DOMAIN jobs[k].entries
                                   /\ \A g \in DOMAIN jobs[k].entries :
                                         more[k].entries[g].signature = jobs[k].entries[g].signature
        BY <3>2, <4>7
      <4>9. \A k \in DOMAIN more : more[k].age = IF k = j THEN 0 ELSE jobs[k].age
        BY <3>2, <4>7
      <4>10. DOMAIN more \subseteq DOMAIN jobs
        BY <3>2, <4>7
      <4>11. Remain(more, j)
        BY <4>7, <4>8, <4>9, <4>10 DEF Remain
      <4> QED BY <1>1, <1>3, <4>2, <4>3, <4>11, StoreEnds
    <3> QED BY <3>3, <3>4
  <2> QED BY <1>6, <2>6, <2>7, <2>8 DEF Pages!StorePage
<1> QED
  BY <1>5, <1>6

\* Every step of the previews keeps what is true of them.
LEMMA PageSteps == ASSUME Pages!ConstantsSound, PageInv, [Pages!Next]_(Pages!vars) PROVE PageInv'
<1>1. CASE UNCHANGED Pages!vars
  <2>1. /\ UNCHANGED <<service, shown, changes, jobs, idle, count, slot, req, told>>
    BY <1>1 DEF Pages!vars, Pages!world, Pages!cache
  <2>2. World /\ Keeping /\ Aged(jobs, idle) /\ Requesting /\ Telling /\ count \in Nat /\ count <= count
    BY DEF PageInv, World, Pages!ConstantsSound
  <2>3. World' /\ Telling'
    BY <2>1, <2>2 DEF World, Telling
  <2>4. Keeping' /\ Aged(jobs, idle)'
    BY <2>1, <2>2, SameJobs
  <2>5. Requesting'
    BY <2>1, <2>2 DEF Requesting, Asking, AnyEntry, Marks, Points, Going, Made, DoneOf, Selected, Recent, Apart
  <2> QED BY <2>3, <2>4, <2>5 DEF PageInv
<1>2. CASE \E r \in Requests : Pages!Prepare(r)
  BY <1>2, PrepareStep
<1>3. CASE \E r \in Requests : Pages!PreviewEntry(r) \/ Pages!PrintEntry(r)
  BY <1>3, EntryStep
<1>4. CASE \E r \in Requests : Pages!CreateJob(r)
  BY <1>4, CreateJobStep
<1>5. CASE \E r \in Requests, j \in Pages!JobIds, f \in PageFiles : Pages!AskPage(r, j, f)
  BY <1>5, AskPageStep
<1>6. CASE \E r \in Requests, j \in Pages!JobIds : Pages!Touch(r, j)
  BY <1>6, TouchStep
<1>7. CASE \E r \in Requests : Pages!Render(r) \/ Pages!RenderFails(r) \/ Pages!Rendered(r)
  BY <1>7, RenderStep
<1>8. CASE \E r \in Requests : Pages!StorePage(r)
  BY <1>8, StorePageStep
<1>9. CASE Pages!Tick
  BY <1>9, PageTick
<1>10. CASE \E f \in PageFiles : Pages!FileChanges(f)
  BY <1>10, FileChangesStep
<1> QED
  BY <1>1, <1>2, <1>3, <1>4, <1>5, <1>6, <1>7, <1>8, <1>9, <1>10 DEF Pages!Next

\* What is true of the previews says that they keep their limits and show what was selected.
LEMMA PageInvTells == ASSUME Pages!ConstantsSound, PageInv PROVE PreviewTrue
<1>1. World /\ Keeping /\ AreJobs(jobs) /\ Limited(jobs) /\ Telling /\ MaxChanges \in Nat
  BY DEF PageInv, Keeping, Pages!ConstantsSound
<1>2. ASSUME NEW j \in DOMAIN jobs, NEW f \in DOMAIN jobs[j].entries
      PROVE  /\ jobs[j].entries[f] \in [signature : 1..(MaxChanges + 1), type : {"pages", "error"}, page : 0..(MaxChanges + 1)]
             /\ jobs[j].entries[f].page \in {0, jobs[j].entries[f].signature}
  <2> DEFINE e == jobs[j].entries[f]
  <2>1. e \in EntrySet
    BY <1>1, <1>2 DEF AreJobs, IsJob, Entered
  <2> HIDE DEF e
  <2>2. e \in AnyEntry /\ e.signature # 0 /\ e.page \in {0, e.signature}
    BY <2>1 DEF EntrySet
  <2>3. e.signature \in 1..(MaxChanges + 1)
    BY <1>1, <2>2 DEF AnyEntry, Marks
  <2>4. e \in [signature : 1..(MaxChanges + 1), type : {"pages", "error"}, page : 0..(MaxChanges + 1)]
    BY <2>2, <2>3 DEF AnyEntry, Marks
  <2> QED BY <2>2, <2>4 DEF e
<1>3. Pages!TypeOK
  <2>1. shown \in [PageFiles -> 1..(MaxChanges + 1)]
    <3>1. changes \in 0..MaxChanges /\ shown \in [PageFiles -> 1..(changes + 1)]
      BY <1>1 DEF World
    <3>2. \A n \in 1..(changes + 1) : n \in 1..(MaxChanges + 1)
      BY <1>1, <3>1
    <3> QED BY <3>1, <3>2
  <2>2. DOMAIN jobs \subseteq 1..count /\ slot \in Requests \cup {None}
    BY <1>1 DEF World, Keeping
  <2> QED BY <1>2, <2>1, <2>2 DEF Pages!TypeOK, Pages!Version, Pages!Entries
<1>4. Pages!WithinLimits
  BY <1>1, PageCount DEF Limited, Pages!WithinLimits
<1>5. Pages!ShowsSelected
  BY <1>1, <1>2 DEF Pages!ShowsSelected, Pages!Entries, Telling
<1> QED
  BY <1>3, <1>4, <1>5 DEF PreviewTrue

\* Previews and prints (services/file_preview.py, invoice_printing.py): the caches keep
\* their limits whatever requests come together, and no page is shown or kept but of the
\* version that was selected.
THEOREM PreviewsAreTrue == ASSUME Pages!ConstantsSound PROVE Pages!Spec => []PreviewTrue
<1>1. Pages!Init => PageInv
  BY PagesInitially
<1>2. PageInv /\ [Pages!Next]_(Pages!vars) => PageInv'
  BY PageSteps
<1>3. PageInv => PreviewTrue
  BY PageInvTells
<1> QED
  BY <1>1, <1>2, <1>3, PTL DEF Pages!Spec

-----------------------------------------------------------------------------
(* Which jobs go.                                                          *)

\* A job may go: it expired, or those that stay were used no earlier.
Goes(j) ==
  \/ idle[j] >= TTL
  \/ \E r \in Requests : \A k \in DOMAIN jobs' \cap DOMAIN jobs : idle[k] <= idle[j] \/ k = req[r].job

\* A job that is asked for too late has expired.
LEMMA ExpiredGoes ==
  ASSUME PageInv, NEW j \in DOMAIN jobs, j \notin DOMAIN Pages!Live
  PROVE  Goes(j)
<1>1. AreJobs(jobs) /\ jobs[j].age = idle[j]
  BY DEF PageInv, Keeping, Aged
<1>2. jobs[j].age >= TTL
  BY <1>1, LiveIs
<1> QED
  BY <1>1, <1>2 DEF Goes

\* The least used go for a new job.
LEMMA CreateJobGoes ==
  ASSUME Pages!ConstantsSound, PageInv, NEW r \in Requests, Pages!CreateJob(r), NEW j \in DOMAIN jobs \ DOMAIN jobs'
  PROVE  Goes(j)
<1> DEFINE new == [entries |-> req[r].entries, age |-> 0]
           room == [jobs |-> 1, bytes |-> Pages!Bytes(new)]
           live == Pages!Live
           id == req[r].job
<1>1. PICK left \in Pages!Evicted(live, room, {}) : jobs' = Pages!With(left, id, new)
  BY DEF Pages!CreateJob
<1>2. Keeping /\ AreJobs(jobs) /\ (\A k \in DOMAIN jobs : jobs[k].age = idle[k]) /\ id \notin DOMAIN jobs
  BY DEF PageInv, Keeping, Aged, Requesting, Going, Pages!CreateJob
<1>3. /\ AreJobs(live) /\ DOMAIN live \subseteq DOMAIN jobs
      /\ \A k \in DOMAIN live : live[k] = jobs[k]
  BY <1>2, LiveIs
<1>4. DOMAIN jobs' = DOMAIN left \cup {id}
  BY <1>1 DEF Pages!With
<1> HIDE DEF live, room, id
<1>5. \A i \in DOMAIN live \ DOMAIN left, k \in DOMAIN left \ {} : live[k].age <= live[i].age
  <2>1. \A k \in DOMAIN live : live[k].entries = jobs[k].entries
    BY <1>3
  <2> QED BY <1>2, <1>3, <2>1, LeftIs
<1>6. DOMAIN left \subseteq DOMAIN live
  <2>1. \A k \in DOMAIN live : live[k].entries = jobs[k].entries
    BY <1>3
  <2> QED BY <1>2, <1>3, <2>1, LeftIs
<1>7. CASE j \in DOMAIN live
  <2>1. \A k \in DOMAIN jobs' \cap DOMAIN jobs : idle[k] <= idle[j]
    <3> TAKE k \in DOMAIN jobs' \cap DOMAIN jobs
    <3>1. k \in DOMAIN left
      BY <1>2, <1>4
    <3>2. live[k].age <= live[j].age
      BY <1>4, <1>5, <1>7, <3>1
    <3> QED BY <1>2, <1>3, <1>6, <1>7, <3>1, <3>2
  <2> QED BY <2>1 DEF Goes
<1>8. CASE j \notin DOMAIN live
  BY <1>8, ExpiredGoes DEF live
<1> QED
  BY <1>7, <1>8

\* And for a page of a job that stays.
LEMMA StorePageGoes ==
  ASSUME Pages!ConstantsSound, PageInv, NEW r \in Requests, Pages!StorePage(r), NEW i \in DOMAIN jobs \ DOMAIN jobs'
  PROVE  Goes(i)
<1> DEFINE j == req[r].job
           f == req[r].file
           live == Pages!Live
           left == Pages!Renewed(live, j)
           room == [jobs |-> 0, bytes |-> Size[f]]
           spare == {j}
<1>1. Keeping /\ AreJobs(jobs) /\ (\A k \in DOMAIN jobs : jobs[k].age = idle[k])
  BY DEF PageInv, Keeping, Aged
<1>2. /\ AreJobs(live) /\ DOMAIN live \subseteq DOMAIN jobs
      /\ \A k \in DOMAIN live : live[k] = jobs[k]
  BY <1>1, LiveIs
<1>3. CASE i \notin DOMAIN live
  BY <1>3, ExpiredGoes
<1>4. CASE i \in DOMAIN live
  <2>1. CASE j \notin DOMAIN live
    <3>1. jobs' = live
      BY <2>1 DEF Pages!StorePage
    <3> QED BY <1>4, <3>1
  <2>2. CASE j \in DOMAIN live
    <3> HIDE DEF live, j
    <3>1. LET new == left
          IN /\ AreJobs(new) /\ DOMAIN new = DOMAIN live
             /\ \A k \in DOMAIN live : new[k].entries = live[k].entries
             /\ \A k \in DOMAIN live : new[k].age = IF k = j /\ service # "print" THEN 0 ELSE live[k].age
      BY <1>2, <2>2, RenewedIs
    <3>2. jobs' # left
      BY <1>4, <3>1
    <3>3. PICK kept \in Pages!Evicted(left, room, spare) :
             jobs' = kept \/ jobs' = [kept EXCEPT ![j].entries[f].page = req[r].seen]
      BY <2>2, <3>2 DEF Pages!StorePage, live, j
    <3>4. DOMAIN jobs' = DOMAIN kept
      BY <3>3
    <3> HIDE DEF left, room, spare
    <3>5. \A k \in DOMAIN left : left[k].entries = jobs[k].entries
      BY <1>2, <3>1
    <3>6. DOMAIN left \subseteq DOMAIN jobs /\ AreJobs(left)
      BY <1>2, <3>1
    <3>7. /\ spare \cap DOMAIN left \subseteq DOMAIN kept /\ DOMAIN kept \subseteq DOMAIN left
          /\ \A x \in DOMAIN left \ DOMAIN kept, k \in DOMAIN kept \ spare : left[k].age <= left[x].age
      BY <1>1, <3>3, <3>5, <3>6, LeftIs
    <3>8. i # j /\ i \in DOMAIN left \ DOMAIN kept
      BY <1>4, <2>2, <3>1, <3>4, <3>7 DEF spare
    <3>9. \A k \in DOMAIN jobs' \cap DOMAIN jobs : idle[k] <= idle[i] \/ k = j
      <4> TAKE k \in DOMAIN jobs' \cap DOMAIN jobs
      <4>1. CASE k = j
        BY <4>1
      <4>2. CASE k # j
        <5>1. left[k].age <= left[i].age /\ k \in DOMAIN live
          BY <3>1, <3>4, <3>7, <3>8, <4>2 DEF spare
        <5>2. left[k].age = jobs[k].age /\ left[i].age = jobs[i].age
          BY <1>2, <1>4, <3>1, <3>8, <4>2, <5>1
        <5> QED BY <1>1, <5>1, <5>2
      <4> QED BY <4>1, <4>2
    <3> QED BY <3>9 DEF Goes, j
  <2> QED BY <2>1, <2>2
<1> QED
  BY <1>3, <1>4

\* Every other step leaves the jobs, but for those that expired.
LEMMA OthersGo ==
  ASSUME Pages!ConstantsSound, PageInv, [Pages!Next]_(Pages!vars), NEW j \in DOMAIN jobs \ DOMAIN jobs'
  PROVE  Goes(j)
<1>1. CASE \E r \in Requests : Pages!CreateJob(r)
  BY <1>1, CreateJobGoes
<1>2. CASE \E r \in Requests : Pages!StorePage(r)
  BY <1>2, StorePageGoes
<1>3. ASSUME NEW i, Pages!GetJob(i), UNCHANGED <<service, count>> PROVE Goes(j)
  <2>1. DOMAIN jobs' = DOMAIN Pages!Live
    BY <1>3, Got
  <2> QED BY <2>1, ExpiredGoes
<1>4. CASE \E r \in Requests, i \in Pages!JobIds, f \in PageFiles : Pages!AskPage(r, i, f)
  BY <1>3, <1>4 DEF Pages!AskPage, Pages!world
<1>5. CASE \E r \in Requests, i \in Pages!JobIds : Pages!Touch(r, i)
  BY <1>3, <1>5 DEF Pages!Touch, Pages!world
<1>6. ASSUME DOMAIN jobs' = DOMAIN jobs PROVE Goes(j)
  BY <1>6
<1>7. CASE UNCHANGED Pages!vars
  BY <1>6, <1>7 DEF Pages!vars, Pages!cache
<1>8. CASE \E r \in Requests : \/ Pages!Prepare(r) \/ Pages!PreviewEntry(r) \/ Pages!PrintEntry(r)
                               \/ Pages!Render(r) \/ Pages!RenderFails(r) \/ Pages!Rendered(r)
  BY <1>6, <1>8 DEF Pages!Prepare, Pages!PreviewEntry, Pages!PrintEntry, Pages!Render, Pages!RenderFails,
                    Pages!Rendered, Pages!cache
<1>9. CASE Pages!Tick
  BY <1>6, <1>9 DEF Pages!Tick
<1>10. CASE \E f \in PageFiles : Pages!FileChanges(f)
  BY <1>6, <1>10 DEF Pages!FileChanges, Pages!cache
<1> QED
  BY <1>1, <1>2, <1>4, <1>5, <1>7, <1>8, <1>9, <1>10 DEF Pages!Next

\* A job that was used within TTL goes only for room, and then it is one that was used no
\* later than any that stays, but for the job that gets the room (_evict_locked).
THEOREM LeastUsedGoFirst == ASSUME Pages!ConstantsSound PROVE Pages!Spec => LeastUsedGo
<1>1. Pages!Init => PageInv
  BY PagesInitially
<1>2. PageInv /\ [Pages!Next]_(Pages!vars) => PageInv'
  BY PageSteps
<1> DEFINE LeastGo == \A j \in DOMAIN jobs \ DOMAIN jobs' :
        \/ idle[j] >= TTL
        \/ \E r \in Requests : \A k \in DOMAIN jobs' \cap DOMAIN jobs :
            idle[k] <= idle[j] \/ k = req[r].job
<1>3. PageInv /\ [Pages!Next]_(Pages!vars) => [LeastGo]_(Pages!vars)
  BY OthersGo DEF Goes
<1>4. Pages!LeastUsedGo <=> [][LeastGo]_(Pages!vars)
  BY DEF Pages!LeastUsedGo
<1> HIDE DEF LeastGo
<1>5. Pages!Spec => [][LeastGo]_(Pages!vars)
  BY <1>1, <1>2, <1>3, PTL DEF Pages!Spec
<1> QED
  BY <1>4, <1>5 DEF LeastUsedGo
=============================================================================
