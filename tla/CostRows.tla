------------------------------- MODULE CostRows -------------------------------
(***************************************************************************)
(* How the rows of an invoice are read (projections/cost_analysis.py): a   *)
(* PDF from words with a height on the page and a column, an OFD from      *)
(* columns of values, an XML from its elements.                            *)
(*                                                                         *)
(* Heights are in twelfths of a point, so that the centre of up to four    *)
(* words is a number; a word that starts an item's name has a star.        *)
(***************************************************************************)
EXTENDS Integers, Sequences, FiniteSets, FiniteSetsExt, SequencesExt

CONSTANT None

Point == 12
Money == {"amount", "tax", "quantity"}

Blank == [c \in Money |-> None]
Row(name, cells) == [name |-> name, amount |-> cells["amount"], tax |-> cells["tax"],
                     quantity |-> cells["quantity"]]

\* _finish_row: no row without a name, or without any of the three values.
Finished(name, cells) == IF name = <<>> \/ cells = Blank THEN <<>> ELSE <<Row(name, cells)>>

-----------------------------------------------------------------------------
(* PDF.                                                                    *)

Required == {"name", "amount", "rate", "tax"}

\* _find_header_layout: a header that names all four columns, or none.
HasHeader(page) == Required \subseteq page.header

\* Words below the header and above the line of totals.
DetailWords(page) == {w \in page.words : page.stop # None => w.y < page.stop - 2 * Point}

Centre(band) == MapThenSumSet(LAMBDA w : w.y, band) \div Cardinality(band)

Above(v, w) == v.y < w.y \/ (v.y = w.y /\ v.x < w.x)
FromTop(words) ==
    [i \in 1..Cardinality(words) |->
        CHOOSE w \in words : Cardinality({v \in words : Above(v, w)}) = i - 1]

\* _group_words_by_baseline: a word joins the band whose centre is 3 points off.
Bands(words) ==
    LET Join(bands, w) ==
            IF bands # <<>> /\ w.y - Centre(Last(bands)) <= 3 * Point
            THEN [bands EXCEPT ![Len(bands)] = @ \cup {w}]
            ELSE Append(bands, {w})
    IN FoldLeft(Join, <<>>, FromTop(words))

\* _band_cells and _first_decimal: the leftmost value of a column.
InColumn(band, c) == SetToSortSeq({w \in band : w.col = c}, LAMBDA v, w : v.x < w.x)
CellsOf(band) == [c \in Money |-> IF InColumn(band, c) = <<>> THEN None ELSE Head(InColumn(band, c)).text]
NameOf(band) == [i \in DOMAIN InColumn(band, "name") |-> InColumn(band, "name")[i].text]
Starts(band) ==
    \/ \E w \in band : w.col = "name" /\ w.star
    \/ NameOf(band) # <<>> /\ {CellsOf(band)["amount"], CellsOf(band)["tax"]} # {None}

\* The first value that a column got stays.
Filled(cells, more) == [c \in Money |-> IF cells[c] # None THEN cells[c] ELSE more[c]]

NoItem == [y |-> 0, name |-> <<>>, cells |-> Blank]
Near(from, to, points) == to - from \in 0..(points * Point)

\* parse_cost_rows_from_words: values ahead of the first item wait for it, later
\* ones go to the item above.
PdfRows(page) ==
    LET Take(s, band) ==
            LET y == Centre(band)
                waiting == SelectSeq(s.pending, LAMBDA p : Near(p.y, y, 8))
                waited == FoldLeft(LAMBDA cells, p : Filled(cells, p.cells), Blank, waiting)
            IN IF Starts(band)
               THEN [rows |-> s.rows \o Finished(s.item.name, s.item.cells),
                     item |-> [y |-> y, name |-> NameOf(band), cells |-> Filled(waited, CellsOf(band))],
                     pending |-> <<>>]
               ELSE IF s.item = NoItem
               THEN [s EXCEPT !.pending = IF CellsOf(band) = Blank THEN @
                                          ELSE Append(waiting, [y |-> y, cells |-> CellsOf(band)])]
               ELSE [s EXCEPT
                        !.item.name = IF Near(s.item.y, y, 18) THEN @ \o NameOf(band) ELSE @,
                        !.item.cells = IF Near(s.item.y, y, 8) THEN Filled(@, CellsOf(band)) ELSE @]
        end == FoldLeft(Take, [rows |-> <<>>, item |-> NoItem, pending |-> <<>>], Bands(DetailWords(page)))
    IN IF HasHeader(page) THEN end.rows \o Finished(end.item.name, end.item.cells) ELSE <<>>

-----------------------------------------------------------------------------
(* OFD: one list of values per column, a value of a name in several pieces. *)

Pieces(values, from, size) == FoldLeft(LAMBDA a, b : a \o b, <<>>, SubSeq(values, from, from + size - 1))

\* _align_ofd_values; every value is a sequence of pieces.
Align(values, n) ==
    [i \in 1..n |->
        IF Len(values) > n /\ Len(values) % n = 0
        THEN Pieces(values, (i - 1) * (Len(values) \div n) + 1, Len(values) \div n)
        ELSE IF i <= Len(values) THEN values[i] ELSE <<>>]

Value(pieces) == IF pieces = <<>> THEN None ELSE pieces[1]

OfdRows(columns) ==
    LET n == Max({Len(columns[c]) : c \in Money})
        row(i) == Finished(Align(columns["name"], n)[i],
                           [c \in Money |-> Value(Align(columns[c], n)[i])])
    IN FoldLeft(LAMBDA rows, i : rows \o row(i), <<>>, [i \in 1..n |-> i])

-----------------------------------------------------------------------------
(* XML: an element per row, which needs a name and a value.                *)

XmlRows(elements) ==
    FoldLeft(LAMBDA rows, e : rows \o Finished(e.name, e.cells), <<>>, elements)
=============================================================================
