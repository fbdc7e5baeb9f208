--------------------------- MODULE InvoiceSelection ---------------------------
(***************************************************************************)
(* The list of invoices (services/app_state.py) and what the pages do with *)
(* rows ticked in it: totals, printing, the consistency report, the detail *)
(* page and its edits.  Requests run in threads of one server; they share  *)
(* a cache of the summary file that nothing locks.  A row is named by its  *)
(* position in the summary, and the summary is rewritten at any time.      *)
(*                                                                         *)
(* Files are numbers in the order of the scan; Copy names the invoice a    *)
(* file is a copy of.                                                      *)
(***************************************************************************)
EXTENDS Naturals, Sequences, FiniteSets, FiniteSetsExt, SequencesExt

CONSTANTS Files, Threads, None,
          Copy,        \* the number of the invoice a file shows
          FileNumber,  \* the number in the name of a file, or None
          Format       \* "pdf", "ofd" or "xml"

\* A number and the path of a file are keys of two kinds.
ConstantsSound ==
    /\ Files \subseteq Nat /\ IsFiniteSet(Files) /\ DOMAIN Copy = Files
    /\ Range(Copy) \cap (Files \cup {None}) = {} /\ None \notin Files

VARIABLES number, amount,        \* what a file's row says; None and 0: not recognised
          disk,                  \* the files that are there
          summary, stamp,        \* the summary file: rows and mtime_ns+size, 0 without one
          cacheKey, cacheRows,   \* AppState._invoice_cache_key, _invoice_cache_rows
          thread,                \* the request of each thread
          view,                  \* the rows the page shows, of a list or of one invoice: <<position, file>>
          answer,                \* what the step answered
          edited,                \* ghost: file the page showed, file the edit changed
          budget                 \* bound: requests and changes of the folder left

facts == <<number, amount>>
cache == <<cacheKey, cacheRows>>
vars == <<facts, disk, summary, stamp, cache, thread, view, answer, edited, budget>>

Idle == [pc |-> "idle", op |-> "none", asked |-> {}, stat |-> 0, read |-> <<>>]
NoAnswer == [op |-> "none", ok |-> FALSE, asked |-> {}, total |-> 0,
             conflicts |-> 0, told |-> {}]
Refusal(op, asked) == [NoAnswer EXCEPT !.op = op, !.asked = asked]

Increasing(items) == \A i, j \in DOMAIN items : i < j => items[i] < items[j]
Rows(S) == CHOOSE items \in [1..Cardinality(S) -> S] : Increasing(items)
Numbered(items) == {<<i, items[i]>> : i \in DOMAIN items}
Paths(rows) == {r[2] : r \in rows}
Spend == budget > 0 /\ budget' = budget - 1

Init ==
    /\ number \in [Files -> {None} \cup Range(Copy)]
    /\ \A f \in Files : number[f] \in {None, Copy[f]}
    /\ amount \in [Files -> 0..2]
    /\ disk \in SUBSET Files
    /\ summary = Rows(disk) /\ stamp = 1
    /\ cacheKey = 0 /\ cacheRows = <<>>
    /\ thread = [t \in Threads |-> Idle]
    /\ view = Numbered(summary)
    /\ answer = NoAnswer /\ edited = <<>>

-----------------------------------------------------------------------------
(* What the rows of a list mean.                                           *)

\* Mutant: the number in the name of a file makes no family.
FamilyKey_Split(f) == IF number[f] # None THEN number[f] ELSE <<FileNumber[f], f>>

\* _selection_family_key: numbers of the header and of the name are one kind.
FamilyKey(f) ==
    IF number[f] # None THEN number[f]
    ELSE IF FileNumber[f] # None THEN FileNumber[f] ELSE f

Family(f, S) == {g \in S : FamilyKey(g) = FamilyKey(f)}
Families(S) == {Family(f, S) : f \in S}

\* _selection_metric_total: a family with two values counts for neither.
Values(family) == {amount[f] : f \in family} \ {0}
Conflicts(S) == {F \in Families(S) : Cardinality(Values(F)) > 1}
Total(S) == SumFunction([F \in Families(S) |->
                           IF Cardinality(Values(F)) = 1 THEN Max(Values(F)) ELSE 0])

Pdfs(S) == {f \in S : Format[f] = "pdf"}
\* _print_pdf_path: a PDF that is still there.
Printable(S) == Pdfs(S) \cap disk

\* One PDF per family: one of the ticked files, or else any of the list.
Chosen(F, all) ==
    IF Printable(F) # {} THEN Min(Printable(F))
    ELSE Min(Printable(Family(CHOOSE f \in F : TRUE, all)))
Blocked(F, all) == Printable(Family(CHOOSE f \in F : TRUE, all) \cup F) = {}

\* _build_consistency_groups: copies in several formats whose rows differ; the
\* numbers of the header and of the name are two kinds here.
GroupKey(f) ==
    IF number[f] # None THEN <<"invoice", number[f]>>
    ELSE IF FileNumber[f] # None THEN <<"filename", FileNumber[f]>> ELSE <<"none", f>>
Group(f, S) == {g \in S : GroupKey(g) = GroupKey(f)}
Mismatches(S) ==
    {f \in S : /\ Cardinality({Format[g] : g \in Group(f, S)}) > 1
               /\ Cardinality(Values(Group(f, S))) > 1}

\* A row after another one with its number is a duplicate; a row without number
\* or amount is to be reviewed.
Duplicate(items, i) ==
    /\ number[items[i]] # None
    /\ \E j \in 1..(i - 1) : number[items[j]] = number[items[i]]
State(items, i) ==
    IF Duplicate(items, i) THEN "duplicate"
    ELSE IF number[items[i]] = None \/ amount[items[i]] = 0 THEN "review" ELSE "ok"
Filtered(items, states) == {r \in Numbered(items) : State(items, r[1]) \in states}

\* Mutant: a ticked row is looked for by its position.
StillThere_ByPosition(rows, items) == \A r \in rows : r[1] \in DOMAIN items

\* _validated_invoice_selection: each row must be where the page saw it.
StillThere(rows, items) == \A r \in rows : r[1] \in DOMAIN items /\ items[r[1]] = r[2]

Items(rows, items) == {items[r[1]] : r \in rows}

\* invoice_detail: the page of one row, by its position.
Detail(rows, items) == {r \in Numbered(items) : \E asked \in rows : asked[1] = r[1]}

-----------------------------------------------------------------------------
(* The threads.                                                            *)

At(t, pc) == thread[t].pc = pc
Becomes(t, new) == thread' = [thread EXCEPT ![t] = new]
Go(t, pc) == Becomes(t, [thread[t] EXCEPT !.pc = pc])
Silent == answer' = NoAnswer

\* A request for the list, or about rows that the page shows.
Ask(t, op, rows) ==
    /\ At(t, "idle") /\ Spend
    /\ Becomes(t, [Idle EXCEPT !.pc = "stat", !.op = op, !.asked = rows])
    /\ Silent
    /\ UNCHANGED <<facts, disk, summary, stamp, cache, view, edited>>

\* _summary_rows, one access of the shared cache at a time.
Stat(t) ==
    /\ At(t, "stat")
    /\ Becomes(t, [thread[t] EXCEPT !.stat = stamp, !.pc = IF stamp = 0 THEN "forget" ELSE "compare"])
    /\ Silent
    /\ UNCHANGED <<facts, disk, summary, stamp, cache, view, edited, budget>>

Compare(t) ==
    /\ At(t, "compare")
    /\ Go(t, IF thread[t].stat = cacheKey THEN "take" ELSE "read")
    /\ Silent
    /\ UNCHANGED <<facts, disk, summary, stamp, cache, view, edited, budget>>

Read(t) ==
    /\ At(t, "read")
    /\ Becomes(t, [thread[t] EXCEPT !.read = summary, !.pc = "rows"])
    /\ Silent
    /\ UNCHANGED <<facts, disk, summary, stamp, cache, view, edited, budget>>

SetRows(t) ==
    /\ At(t, "rows")
    /\ cacheRows' = thread[t].read
    /\ Go(t, "key")
    /\ Silent
    /\ UNCHANGED <<facts, disk, summary, stamp, cacheKey, view, edited, budget>>

SetKey(t) ==
    /\ At(t, "key")
    /\ cacheKey' = thread[t].stat
    /\ Go(t, "take")
    /\ Silent
    /\ UNCHANGED <<facts, disk, summary, stamp, cacheRows, view, edited, budget>>

Forget(t) ==
    /\ At(t, "forget")
    /\ cacheKey' = 0
    /\ Go(t, "clear")
    /\ Silent
    /\ UNCHANGED <<facts, disk, summary, stamp, cacheRows, view, edited, budget>>

\* The rows of a list whose file is missing are none.
Clear(t) ==
    /\ At(t, "clear")
    /\ cacheRows' = <<>>
    /\ Becomes(t, Idle)
    /\ IF thread[t].op = "list"
       THEN view' = {} /\ Silent
       ELSE /\ answer' = IF thread[t].op \in {"sum", "print"}
                         THEN Refusal(thread[t].op, Paths(thread[t].asked)) ELSE NoAnswer
            /\ UNCHANGED view
    /\ UNCHANGED <<facts, disk, summary, stamp, cacheKey, edited, budget>>

SumOf(rows, items) ==
    LET S == Items(rows, items)
    IN [NoAnswer EXCEPT !.op = "sum", !.ok = TRUE, !.asked = Paths(rows),
           !.total = Total(S), !.conflicts = Cardinality(Conflicts(S))]

PrintOf(rows, items) ==
    LET S == Items(rows, items)
    IN IF \E F \in Families(S) : Blocked(F, ToSet(items))
       THEN Refusal("print", Paths(rows))
       ELSE [NoAnswer EXCEPT !.op = "print", !.ok = TRUE, !.asked = Paths(rows),
                !.told = {Chosen(F, ToSet(items)) : F \in Families(S)}]

\* The request goes on with a copy of the cached rows.
Take(t) ==
    LET op == thread[t].op
        rows == thread[t].asked
        items == cacheRows
    IN /\ At(t, "take")
       /\ Becomes(t, Idle)
       /\ \/ /\ op = "list"
             /\ \E states \in {{"ok", "review", "duplicate"}, {"duplicate"}, {"review"}} :
                    view' = Filtered(items, states)
             /\ Silent
          \/ /\ op \in {"sum", "print"}
             /\ answer' = IF ~StillThere(rows, items) THEN Refusal(op, Paths(rows))
                          ELSE IF op = "sum" THEN SumOf(rows, items) ELSE PrintOf(rows, items)
             /\ UNCHANGED view
          \/ /\ op = "detail"
             /\ view' = Detail(rows, items)
             /\ Silent
          \/ /\ op = "report"
             /\ answer' = [NoAnswer EXCEPT !.op = op, !.ok = TRUE,
                              !.told = Mismatches(ToSet(items))]
             /\ UNCHANGED view
       /\ UNCHANGED <<facts, disk, summary, stamp, cache, edited, budget>>

-----------------------------------------------------------------------------
(* Writers of the summary.                                                 *)

\* update_manual_fields: the position alone, in the summary of now; the page
\* sends the number it saw on the invoice.
EditedRow(row) == summary[row[1]]

Edit(t, row) ==
    /\ At(t, "idle") /\ Spend
    /\ row[1] \in DOMAIN summary
    /\ number' = [number EXCEPT ![EditedRow(row)] = Copy[row[2]]]
    /\ stamp' = stamp + 1
    /\ edited' = <<row[2], EditedRow(row)>>
    /\ Becomes(t, [Idle EXCEPT !.pc = "forget", !.op = "edit"])
    /\ Silent
    /\ UNCHANGED <<amount, disk, summary, cache, view>>

\* The synchroniser writes the rows of the files it finds; a server that did so
\* itself forgets its cache, a monitor does not.
Rebuild(t) ==
    /\ t \in Threads => At(t, "idle")
    /\ Spend
    /\ summary' = Rows(disk) /\ stamp' = stamp + 1
    /\ IF t \in Threads THEN Becomes(t, [Idle EXCEPT !.pc = "forget", !.op = "sync"])
       ELSE UNCHANGED thread
    /\ Silent
    /\ UNCHANGED <<facts, disk, cache, view, edited>>

RemoveSummary ==
    /\ Spend /\ stamp # 0
    /\ summary' = <<>> /\ stamp' = 0
    /\ Silent
    /\ UNCHANGED <<facts, disk, cache, thread, view, edited>>

MoveFile(f) ==
    /\ Spend
    /\ disk' = IF f \in disk THEN disk \ {f} ELSE disk \cup {f}
    /\ Silent
    /\ UNCHANGED <<facts, summary, stamp, cache, thread, view, edited>>

Step(t) ==
    \/ Stat(t) \/ Compare(t) \/ Read(t) \/ SetRows(t) \/ SetKey(t)
    \/ Forget(t) \/ Clear(t) \/ Take(t)

Next ==
    \/ \E t \in Threads :
        \/ \E op \in {"list", "report"} : Ask(t, op, {})
        \/ \E row \in view : Ask(t, "detail", {row})
        \/ \E op \in {"sum", "print"}, rows \in (SUBSET view) \ {{}} : Ask(t, op, rows)
        \/ Step(t)
        \/ \E row \in view : Edit(t, row)
    \/ \E t \in Threads \cup {None} : Rebuild(t)
    \/ RemoveSummary
    \/ \E f \in Files : MoveFile(f)

Spec == Init /\ [][Next]_vars
-----------------------------------------------------------------------------
(* Properties.                                                             *)

TypeOK ==
    /\ number \in [Files -> {None} \cup Range(Copy)] /\ amount \in [Files -> 0..2]
    /\ ToSet(summary) \subseteq Files /\ IsInjective(summary) /\ IsInjective(cacheRows)
    /\ Paths(view) \subseteq Files /\ answer.told \subseteq Files

\* Two files that show one invoice, as far as the program can know it.
Same(f, g) ==
    f = g \/ /\ Copy[f] = Copy[g]
             /\ {number[f], FileNumber[f]} # {None} /\ {number[g], FileNumber[g]} # {None}
TrueNumbers == \A f \in Files : {number[f], FileNumber[f]} \subseteq {None, Copy[f]}

\* The total is of the ticked files, though rows have moved since the page showed them
\* and other threads fill the cache.  An invoice that is ticked in several formats counts
\* once, and not at all where its copies disagree on the amount; every other amount is
\* in the total.
MoneyOnce ==
    answer.op = "sum" /\ answer.ok /\ TrueNumbers =>
        \E R \in SUBSET answer.asked :
            /\ answer.total = SumFunctionOnSet(amount, R)
            /\ \A f, g \in R : Same(f, g) => f = g
            /\ \A f \in answer.asked : amount[f] # 0 =>
                \/ \E g \in R : Same(f, g) /\ amount[g] = amount[f]
                \/ answer.conflicts > 0 /\ \E g \in answer.asked :
                        Same(f, g) /\ amount[g] \notin {0, amount[f]}

\* A print job has one PDF for each ticked invoice, which is there and shows
\* that invoice, and no other page.
PrintedOnce ==
    answer.op = "print" /\ answer.ok /\ TrueNumbers =>
        /\ answer.told \subseteq Pdfs(disk)
        /\ \A f \in answer.asked : Cardinality({p \in answer.told : Same(f, p)}) = 1
        /\ \A p \in answer.told : \E f \in answer.asked : Same(f, p)

\* An edit changes the invoice that the page showed.
EditAsked == edited # <<>> => edited[1] = edited[2]
=============================================================================
