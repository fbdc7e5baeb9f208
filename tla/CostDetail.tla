------------------------------ MODULE CostDetail ------------------------------
(***************************************************************************)
(* The cost details of a folder (projections/cost_analysis.py): the files  *)
(* of one invoice are read in turn and the best reading gives its rows;    *)
(* each invoice is then checked against its header, and the pages match    *)
(* the rows to the invoices that the user ticks.                           *)
(*                                                                         *)
(* Files are numbers in the order of the scan.                             *)
(***************************************************************************)
EXTENDS CostRows

CONSTANTS Files,
          Copy,        \* the number of the invoice a file shows
          FileNumber   \* the number in the name of a file, or None

VARIABLES names,     \* the name of a file without its folder
          number,    \* the number read from a file, or None
          page,      \* what the file holds: its kind, content and the true rows
          head,      \* the totals of its header, each None if not recognised
          left,      \* the families to analyse, each a set of files
          analyses, detail, checks,
          answer     \* the rows matched for the files ticked

\* The files of a scan are in an order.
ConstantsSound == Files \subseteq Nat /\ IsFiniteSet(Files)

facts == <<names, number, page, head>>
vars == <<facts, left, analyses, detail, checks, answer>>

NoAnswer == [asked |-> {}, rows |-> {}, projects |-> {}]

Broken(kind) == [kind |-> kind, truth |-> <<>>]
IsBroken(p) == p.truth = <<>>

RowsOf(f) ==
    LET p == page[f]
    IN IF IsBroken(p) THEN <<>>
       ELSE IF p.kind = "pdf" THEN PdfRows(p)
       ELSE IF p.kind = "ofd" THEN OfdRows(p.columns) ELSE XmlRows(p.elements)

\* Only a PDF that cannot be opened is a failure; other files just have no rows.
Failed(f) == page[f].kind = "pdf" /\ IsBroken(page[f])

-----------------------------------------------------------------------------
(* The readings of an invoice.                                             *)

FamilyKey(f) ==
    IF number[f] # None THEN number[f]
    ELSE IF FileNumber[f] # None THEN FileNumber[f] ELSE f
Family(f) == {g \in Files : FamilyKey(g) = FamilyKey(f)}
Families == {Family(f) : f \in Files}

\* Rows are a function of their places.

Present(rows, c) == {i \in DOMAIN rows : rows[i][c] # None}
Sum(rows, c) == SumFunctionOnSet([i \in DOMAIN rows |-> rows[i][c]], Present(rows, c))

\* Mutant: a column counts as read with any row.
Complete_Any(rows, c) == DOMAIN rows # {}
Complete(rows, c) == DOMAIN rows # {} /\ Present(rows, c) = DOMAIN rows

\* _cost_validation: within two cents of the header.
Agrees(rows, c, total) == total # None /\ Complete(rows, c) /\ Sum(rows, c) - total \in -2..2

Score(rows, h) ==
    (IF Agrees(rows, "amount", h.amount) THEN 1 ELSE 0) + (IF Agrees(rows, "tax", h.tax) THEN 1 ELSE 0)

Priority(f) == IF page[f].kind = "xml" THEN 0 ELSE IF page[f].kind = "ofd" THEN 1 ELSE 2
Flag(b) == IF b THEN 1 ELSE 0

\* _select_cost_analysis: score, rows, not failed, and only then the format.
Rank(f) ==
    LET rows == RowsOf(f)
    IN 16 * Score(rows, head[f]) + 8 * Flag(rows # <<>>) + 4 * Flag(~Failed(f)) + 2 - Priority(f)
Selected(F) ==
    LET rank == [f \in F |-> Rank(f)]
    IN Min({f \in F : \A g \in F : rank[g] <= rank[f]})

Status(f) ==
    IF Failed(f) THEN "failed" ELSE IF Score(RowsOf(f), head[f]) = 2 THEN "ok" ELSE "needs_review"

-----------------------------------------------------------------------------
(* build_cost_analysis_outputs.                                            *)

Init ==
    /\ left = Families /\ analyses = <<>> /\ detail = <<>> /\ checks = <<>>
    /\ answer = NoAnswer

Line(f, row) == [of |-> f, source |-> names[f], number |-> number[f], row |-> row]

Analyse(F) ==
    /\ \A G \in left : Min(F) <= Min(G)
    /\ LET f == Selected(F)
           rows == RowsOf(f)
       IN /\ analyses' = Append(analyses, [of |-> f, source |-> names[f], status |-> Status(f)])
          /\ detail' = detail \o [i \in DOMAIN rows |-> Line(f, rows[i])]
    /\ left' = left \ {F}
    /\ UNCHANGED <<facts, checks, answer>>

\* _check_rows: the rows of an analysis are those with the name of its file.
CheckedRows(a) == [i \in {i \in DOMAIN detail : detail[i].source = a.source} |-> detail[i].row]
Passes(a) == Score(CheckedRows(a), head[a.of]) = 2 /\ head[a.of].classified

Check ==
    /\ left = {} /\ checks = <<>>
    /\ checks' = [i \in DOMAIN analyses |-> Passes(analyses[i])]
    /\ UNCHANGED <<facts, left, analyses, detail, answer>>

-----------------------------------------------------------------------------
(* selection_cost_breakdown.                                               *)

\* _selection_cost_family: numbers that were read, else those of the names.
Numbers(F) ==
    IF {number[f] : f \in F} # {None} THEN {number[f] : f \in F} \ {None}
    ELSE {FileNumber[f] : f \in F} \ {None}

\* _match_invoice_cost_rows: by number, else by the name of a file.
Matched(F) ==
    LET byNumber == {i \in DOMAIN detail : detail[i].number \in Numbers(F)}
        bySource == {i \in DOMAIN detail : detail[i].source \in {names[f] : f \in F}}
    IN IF byNumber # {} THEN byNumber ELSE bySource

Ticked(S) == {F \cap S : F \in {Family(f) : f \in S}}

\* Mutant: rows that were matched before are taken again.
NewRows_All(F, S) == Matched(F)

\* Rows that no family before this one has.
NewRows(F, S) ==
    Matched(F) \ UNION {Matched(G) : G \in {G \in Ticked(S) : Min(G) < Min(F)}}

\* A row is taken for a family.
Breakdown(S) == UNION {{F} \X NewRows(F, S) : F \in Ticked(S)}

\* stock_average_unit_price and purchase_reference_average_unit_price: the price
\* of all rows by quantity, and the mean of their prices; neither without every
\* value.  A price is a fraction.
Usable(rows) ==
    {i \in Present(rows, "amount") \cap Present(rows, "quantity") :
        rows[i].amount >= 0 /\ rows[i].quantity > 0}
Priced(rows) == Usable(rows) = DOMAIN rows
Weighted(rows) == IF Priced(rows) THEN <<Sum(rows, "amount"), Sum(rows, "quantity")>> ELSE None

\* A multiple of all quantities, and the prices as parts of it.
Product(f, S) == FoldFunctionOnSet(LAMBDA m, n : m * n, 1, f, S)
Common(rows) == Product([i \in DOMAIN rows |-> rows[i].quantity], DOMAIN rows)
Prices(rows) == [i \in DOMAIN rows |-> rows[i].amount * (Common(rows) \div rows[i].quantity)]
Mean(rows) ==
    IF Priced(rows)
    THEN <<SumFunctionOnSet(Prices(rows), DOMAIN rows), Cardinality(DOMAIN rows) * Common(rows)>>
    ELSE None

\* _cost_project_breakdown, project_spec_summary: a line per item.
ItemRows(taken, item) ==
    [p \in {p \in taken : detail[p[2]].row.name = item} |-> detail[p[2]].row]
Project(taken, item) ==
    LET rows == ItemRows(taken, item)
    IN [name |-> item, rows |-> rows, amount |-> Sum(rows, "amount"),
        weighted |-> Weighted(rows), mean |-> Mean(rows)]
Projects(taken) == {Project(taken, detail[p[2]].row.name) : p \in taken}

Ask(S) ==
    /\ checks # <<>>
    /\ answer' = [asked |-> S, rows |-> Breakdown(S), projects |-> Projects(Breakdown(S))]
    /\ UNCHANGED <<facts, left, analyses, detail, checks>>

Next == (\E F \in left : Analyse(F)) \/ Check \/ \E S \in (SUBSET Files) \ {{}} : Ask(S)

Spec == Init /\ [][Next]_vars
-----------------------------------------------------------------------------
(* Properties.                                                             *)

\* A reader gives rows of these values, each of which may be missing.
Readable(texts) ==
    \A f \in Files : RowsOf(f) \in Seq([name : texts, amount : {None} \cup Int,
                                      tax : {None} \cup Int, quantity : {None} \cup Int])

TypeOK ==
    /\ left \subseteq Families
    /\ \A i \in DOMAIN analyses : analyses[i].of \in Files /\ analyses[i].status \in {"ok", "needs_review", "failed"}
    /\ \A i \in DOMAIN detail : detail[i].of \in Files
    /\ answer.asked \subseteq Files /\ \A p \in answer.rows : p[2] \in DOMAIN detail

\* A reading that was accepted has the items, amounts and taxes of the invoice,
\* where its header was read well: no value of another item, none left out.
TrustedRowsTrue ==
    \A i \in DOMAIN analyses :
        LET p == page[analyses[i].of]
            rows == RowsOf(analyses[i].of)
        IN analyses[i].status = "ok" =>
            /\ Len(rows) = Len(p.truth)
            /\ \A k \in DOMAIN rows : \A c \in {"name", "amount", "tax"} : rows[k][c] = p.truth[k][c]

\* Each invoice gives the rows of one of its files, and none of its other files
\* was read better; a broken copy never hides a good one.
BestChosen ==
    /\ \A i, j \in DOMAIN detail :
        FamilyKey(detail[i].of) = FamilyKey(detail[j].of) => detail[i].of = detail[j].of
    /\ \A i \in DOMAIN analyses : \A f \in Family(analyses[i].of) :
        Score(RowsOf(f), head[f]) <= Score(RowsOf(analyses[i].of), head[analyses[i].of])

\* Files of different folders may share a name.
NamesDiffer == \A f, g \in Files : names[f] = names[g] => f = g

\* An invoice that passes the check has rows of its own, each with both values,
\* whose sums are those of its header.
ChecksOwnRows ==
    \A i \in DOMAIN checks : checks[i] =>
        LET rows == RowsOf(analyses[i].of)
        IN /\ rows # <<>>
           /\ \A k \in DOMAIN rows : rows[k].amount # None /\ rows[k].tax # None
           /\ Sum(rows, "amount") - head[analyses[i].of].amount \in -2..2

\* That holds of files whose names differ.
PassesTrue == NamesDiffer => ChecksOwnRows

\* The breakdown of ticked files has no row twice, and all rows of an invoice
\* whose files are all ticked; where names differ, it has no other rows.
SelectionOnce ==
    answer # NoAnswer =>
        LET of(S) == {i \in DOMAIN detail : FamilyKey(detail[i].of) \in {FamilyKey(f) : f \in S}}
            taken == {p[2] : p \in answer.rows}
        IN /\ \A p, q \in answer.rows : p[2] = q[2] => p = q
           /\ NamesDiffer => taken \subseteq of(answer.asked)
           /\ of({f \in answer.asked : Family(f) \subseteq answer.asked}) \subseteq taken

\* A price that is shown stands for every row of its item: it is no less than
\* the lowest of their prices and no more than the highest, and by quantity it
\* gives the amount of the item.
PricesTrue ==
    \A p \in answer.projects : \A price \in {p.weighted, p.mean} \ {None} :
        /\ \A k \in DOMAIN p.rows : p.rows[k].amount # None /\ p.rows[k].quantity # None
        /\ \E k \in DOMAIN p.rows : price[1] * p.rows[k].quantity >= p.rows[k].amount * price[2]
        /\ \E k \in DOMAIN p.rows : price[1] * p.rows[k].quantity <= p.rows[k].amount * price[2]
        /\ p.weighted[1] = p.amount

\* What the pages show of the analysis: each invoice is read from the best of its files, a
\* check that passes speaks of its rows, a selection has no row twice, and its prices are
\* of all rows of their item.
SelectionTrue == TypeOK /\ BestChosen /\ PassesTrue /\ SelectionOnce /\ PricesTrue
=============================================================================
