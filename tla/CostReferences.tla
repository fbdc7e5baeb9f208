--------------------------- MODULE CostReferences ---------------------------
(***************************************************************************)
(* What the user invoiced of the cost rows (projections/costs.py and the   *)
(* part of cost_analysis.py that shares its files): the reference status   *)
(* is kept in a JSON file, shown again in a sheet of the cost workbook,    *)
(* and read back from that sheet where the JSON file says nothing.  Every  *)
(* operation holds the lock of the profile, so what goes on between them   *)
(* is what is left when one of their writes fails or the process ends.     *)
(*                                                                         *)
(* Quantities are whole and a price is that of the average row; a rate is  *)
(* in tenths of a percent, so an amount is in thousandths.  The amount     *)
(* stands for the tax and the total too, which are parts of it alike.      *)
(***************************************************************************)
EXTENDS Integers, FiniteSets

CONSTANTS Keys,       \* rows: item, name, specification and unit
          Contents,   \* a set of [quantity, price]
          Rates,      \* rates that are asked for
          Default,    \* rate of a row without a status
          Keep,       \* of a field that a request leaves out
          MaxSaves,   \* bound: requests
          MaxSteps    \* bound: requests, rebuilds and losses together

VARIABLES detail,     \* 成本发票明细.csv: quantity and price of each row
          json,       \* 成本开票状态.json: status of some rows
          book,       \* 成本发票汇总.xlsx: the sheet 开票参考
          oldSchema,  \* the workbook has headers of another version
          asked,      \* ghost: what the last request granted for a row asked, Nothing without one
          synced,     \* ghost: the last writer finished its workbook
          saves, steps

vars == <<detail, json, book, oldSchema, asked, synced, saves, steps>>

Nothing == [inv |-> -1, rate |-> Default, locked |-> FALSE]
Empty == [k \in {} |-> Nothing]

\* A status as the JSON file holds it, "none" when it was taken from a sheet.
Status(inv, part, rate, locked, told) ==
    [inv |-> inv, part |-> part, rate |-> rate, locked |-> locked, told |-> told]
NoStatus == Status(0, 0, Default, FALSE, "none")

-----------------------------------------------------------------------------
(* Amounts.                                                                *)

\* normalize_reference_markup_rate takes a number above 1 for a percentage.
Normal(rate) == IF rate > 1000 THEN rate \div 100 ELSE rate

Total(d, rate) == d.price * d.quantity * (1000 + Normal(rate))

Part(d, rate, inv) == d.price * inv * (1000 + Normal(rate))

Told(quantity, inv) ==
    CASE inv = 0 -> "not_invoiced"
      [] inv > 0 /\ inv >= quantity -> "invoiced"
      [] OTHER -> "partial"

Clamped(inv, quantity) == IF inv > quantity THEN quantity ELSE inv

-----------------------------------------------------------------------------
(* The two files.                                                          *)

Rows(d) == {k \in Keys : d[k].quantity > 0}

\* The row of the sheet for a status; the sheet does not hold every field of it.
BookRow(d, s) ==
    LET inv == Clamped(s.inv, d.quantity)
    IN [inv |-> inv, part |-> IF inv = 0 THEN 0 ELSE s.part, rate |-> s.rate,
        told |-> Told(d.quantity, inv)]

StatusIn(items, k) == IF k \in DOMAIN items THEN items[k] ELSE NoStatus

Book(d, items) == [k \in Rows(d) |-> BookRow(d[k], StatusIn(items, k))]

FromBook(row) == Status(row.inv, row.part, row.rate, FALSE, "none")

\* Mutant: the workbook goes before the JSON file.
Merged_BookFirst(items, sheet) ==
    [k \in DOMAIN items \cup DOMAIN sheet |->
        IF k \in DOMAIN sheet THEN FromBook(sheet[k]) ELSE items[k]]

\* _merge_reference_status: the sheet for what the JSON file lacks.
Merged(items, sheet) ==
    [k \in DOMAIN items \cup DOMAIN sheet |->
        IF k \in DOMAIN items THEN items[k] ELSE FromBook(sheet[k])]

\* _status_for_reference
StatusFor(k) == StatusIn(Merged(json, book), k)

\* What the cost page lists for a row.
Shown(k) ==
    LET s == StatusFor(k)
        inv == Clamped(s.inv, detail[k].quantity)
    IN [inv |-> inv, part |-> IF inv = 0 THEN 0 ELSE s.part, rate |-> s.rate, locked |-> s.locked,
        told |-> IF s.told = "none" THEN Told(detail[k].quantity, inv) ELSE s.told]

-----------------------------------------------------------------------------
(* Behaviour.                                                              *)

Quantities == {c.quantity : c \in Contents}
Details == [Keys -> Contents]

\* A row may be gone; a rate is not negative, and the default is not above 100 %.
ConstantsSound ==
    /\ Contents \subseteq [quantity : Nat, price : Nat] /\ 0 \in Quantities
    /\ Rates \subseteq Nat /\ Default \in 0..1000

\* A folder of this version starts empty, one of another with a workbook alone.
Init ==
    /\ detail \in Details
    /\ json = Empty
    /\ \/ book = Empty /\ oldSchema = FALSE
       \/ /\ oldSchema \in BOOLEAN
          /\ \E invs \in [Keys -> Quantities] :
            /\ \A k \in Keys : invs[k] <= detail[k].quantity
            /\ book = Book(detail, [k \in Keys |->
                        Status(invs[k], Part(detail[k], Default, invs[k]), Default, FALSE, "none")])
    /\ asked = [k \in Keys |-> Nothing] /\ synced = FALSE
    /\ saves = 0 /\ steps = 0

\* build_cost_analysis_outputs writes the status, the details and the workbook.
Rebuild ==
    /\ steps < MaxSteps /\ steps' = steps + 1
    /\ \E d \in Details, written \in 0..3 :
        LET items == Merged(json, book)
        IN /\ written < 2 => d = detail
           /\ json' = IF written >= 1 THEN items ELSE json
           /\ detail' = d
           /\ book' = IF written = 3 THEN Book(d, items) ELSE book
           /\ oldSchema' = (oldSchema /\ written < 3)
           /\ synced' = (written = 3 \/ (synced /\ written < 2))
    /\ UNCHANGED <<asked, saves>>

Asks == [inv : Quantities \cup {Keep}, rate : Rates \cup {Keep}, locked : BOOLEAN]

Given(value, old) == IF value = Keep THEN old ELSE value

\* Mutant: what was invoiced follows the price.
LockedPart_Repriced(d, s, inv, rate) == Part(d, rate, inv)

\* locked_part: a quantity that is not changed keeps the amount it was invoiced for.
LockedPart(d, s, inv, rate) ==
    CASE inv = 0 -> 0
      [] inv > 0 /\ inv # s.inv -> Part(d, rate, inv)
      [] OTHER -> s.part

\* The status a request gives a row.
Granted(k, ask) ==
    LET s == StatusFor(k)
        inv == Given(ask.inv, s.inv)
        rate == Given(ask.rate, s.rate)
    IN Status(inv, LockedPart(detail[k], s, inv, rate), rate,
              ask.locked, Told(detail[k].quantity, inv))

\* An item that says no more than the defaults is not kept.
KeepItem(s) == s.inv > 0 \/ s.rate # Default \/ s.locked

\* The multiplier and the percentage that are stored went through Normal.
Stored(s) == [s EXCEPT !.rate = Normal(s.rate)]

\* Rows the details do not have are passed over; one quantity too large and
\* nothing is written.
Save(wish) ==
    LET ks == DOMAIN wish \cap Rows(detail)
        granted == [k \in ks |-> Granted(k, wish[k])]
        kept == {k \in ks : KeepItem(granted[k])}
        items == [k \in ((DOMAIN json) \ ks) \cup kept |->
                    IF k \in kept THEN Stored(granted[k]) ELSE json[k]]
    IN /\ \A k \in ks : granted[k].inv <= detail[k].quantity
       /\ \E written \in 0..2 :
            /\ json' = IF written >= 1 THEN items ELSE json
            /\ book' = IF written = 2 THEN Book(detail, items) ELSE book
            /\ oldSchema' = (oldSchema /\ written < 2)
            /\ synced' = (written = 2 \/ (synced /\ written = 0))
            /\ asked' = [k \in Keys |->
                CASE k \in ks /\ written = 2 ->
                        [inv |-> granted[k].inv, rate |-> granted[k].rate, locked |-> granted[k].locked]
                  [] k \in ks /\ written < 2 -> Nothing
                  [] OTHER -> asked[k]]
       /\ UNCHANGED detail

\* A request asks the same of the rows that were selected.
SaveReferenceStatus ==
    /\ saves < MaxSaves /\ saves' = saves + 1
    /\ steps < MaxSteps /\ steps' = steps + 1
    /\ \E ks \in (SUBSET Keys) \ {{}}, ask \in Asks : Save([k \in ks |-> ask])

\* A snapshot of a workbook with old headers writes it again, but no status.
RefreshSchema ==
    /\ oldSchema /\ Rows(detail) # {}
    /\ book' = Book(detail, Merged(json, book))
    /\ oldSchema' = FALSE /\ synced' = TRUE
    /\ UNCHANGED <<detail, json, asked, saves, steps>>

\* A status file that is gone, or cannot be read, is as good as empty.
LoseStatus ==
    /\ steps < MaxSteps /\ steps' = steps + 1
    /\ json' = Empty
    /\ asked' = [k \in Keys |-> Nothing] /\ synced' = FALSE
    /\ UNCHANGED <<detail, book, oldSchema, saves>>

Next == Rebuild \/ SaveReferenceStatus \/ RefreshSchema \/ LoseStatus

Spec == Init /\ [][Next]_vars

-----------------------------------------------------------------------------
(* Properties.                                                             *)

TypeOK ==
    /\ detail \in Details
    /\ DOMAIN json \subseteq Keys /\ DOMAIN book \subseteq Keys
    /\ \A k \in DOMAIN json : json[k].inv \in Quantities /\ json[k].part >= 0
    /\ \A k \in DOMAIN book : book[k].inv \in Quantities /\ book[k].part >= 0

\* What a request that was granted asked for is what the row shows from then on,
\* as far as there is that much of it: through rebuilds that fail at any write,
\* rows that go and come back, and requests for other rows.
RequestsKept ==
    \A k \in Rows(detail) : asked[k].inv >= 0 =>
        /\ Shown(k).inv = Clamped(asked[k].inv, detail[k].quantity)
        /\ Shown(k).rate = Normal(asked[k].rate)
        /\ Shown(k).locked = asked[k].locked

\* The amount of what was invoiced stays what it was: new cost rows, other
\* prices, another rate and a rebuild from the workbook leave it alone, until a
\* request changes the quantity of that row or takes it off the JSON file.
PartKept ==
    [][\A k \in Rows(detail) \cap Rows(detail)' :
        LET kept == Shown(k).inv > 0 /\ Shown(k)'.inv > 0 /\ Shown(k)'.part # Shown(k).part
            asks == StatusFor(k)'.inv # StatusFor(k).inv \/ k \in (DOMAIN json) \ DOMAIN json'
        IN kept => (asks /\ SaveReferenceStatus) \/ LoseStatus]_vars

\* The workbook that was written last shows what the page shows: two formulas,
\* of which one reads the JSON file alone.
BookAgrees ==
    synced => \A k \in Rows(detail) :
        /\ k \in DOMAIN book
        /\ book[k].inv = Shown(k).inv /\ book[k].part = Shown(k).part /\ book[k].rate = Shown(k).rate

\* A row shows what was asked for it last, and the workbook shows the same.
AskedShown == TypeOK /\ RequestsKept /\ BookAgrees
=============================================================================
