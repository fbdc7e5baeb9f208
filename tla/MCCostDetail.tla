----------------------------- MODULE MCCostDetail -----------------------------
(***************************************************************************)
(* A PDF and an OFD or XML of one invoice and a PDF of another with the    *)
(* same items, of another month: either each file in one of a few states,  *)
(* or the first one with any layout of two items, whose values sit above   *)
(* or below the line of the name.                                          *)
(***************************************************************************)
EXTENDS CostDetail

CONSTANTS n1, n2, a, b, c

\* Names of files in different folders may be the same.
DistinctNames == <<"invoice.pdf", "invoice.ofd", "other.pdf">>
SameNames == <<"invoice.pdf", "invoice.ofd", "invoice.pdf">>

Item(name, amount, tax, quantity) == [name |-> name, amount |-> amount, tax |-> tax, quantity |-> quantity]
Two == <<Item(<<a, b>>, 2, 1, 1), Item(<<c>>, 9, 3, 2)>>

Word(y, x, col, text) == [y |-> y, x |-> x, col |-> col, star |-> x = 0, text |-> text]

\* An item at height y, the rest of its name 10 points below, its amount and
\* its tax off the line by so many points.
Words(item, y, up, down) ==
    {Word(y + 10 * Point * (i - 1), IF i = 1 THEN 0 ELSE 1, "name", item.name[i]) : i \in DOMAIN item.name}
    \cup {Word(y, 2, "quantity", item.quantity),
          Word(y + up * Point, 3, "amount", item.amount),
          Word(y + down * Point, 4, "tax", item.tax)}

\* The line of totals below the items has an amount too.
Layout(truth, gap, up, down) ==
    LET bottom == (110 + gap * 3) * Point
    IN [kind |-> "pdf", truth |-> truth, header |-> Required \cup {"quantity"}, stop |-> bottom,
        words |-> UNION {Words(truth[i], (100 + gap * i) * Point, up[i], down[i]) : i \in DOMAIN truth}
                  \cup {Word(bottom, 3, "amount", 11)}]

Offsets == {-8, 3, 8}
Layouts == {Layout(Two, gap, up, down) : gap \in {14, 24}, up, down \in [1..2 -> Offsets]}

Plain(truth) == Layout(truth, 24, [i \in 1..2 |-> 0], [i \in 1..2 |-> 0])
NoHeader(truth) == [Plain(truth) EXCEPT !.header = {"name", "amount"}]
Gap(truth) == [Plain(truth) EXCEPT !.words = {w \in @ : w.col # "amount" \/ w.y # 124 * Point}]

Column(truth, col) == [i \in DOMAIN truth |-> <<truth[i][col]>>]
Ofd(truth, amounts) ==
    [kind |-> "ofd", truth |-> truth,
     columns |-> [name |-> [i \in DOMAIN truth |-> truth[i].name], amount |-> amounts,
                  tax |-> Column(truth, "tax"), quantity |-> Tail(Column(truth, "quantity"))]]

Xml(truth) ==
    [kind |-> "xml", truth |-> truth,
     elements |-> [i \in DOMAIN truth |-> [name |-> truth[i].name, cells |-> [c1 \in Money |-> truth[i][c1]]]]]

Totals(truth) == [amount |-> Sum(truth, "amount"), tax |-> Sum(truth, "tax"), classified |-> TRUE]
Unread == [amount |-> None, tax |-> None, classified |-> FALSE]

Few ==
    <<{Plain(Two), Gap(Two), NoHeader(Two), Broken("pdf")},
      {Ofd(Two, Column(Two, "amount")), Ofd(Two, Tail(Column(Two, "amount"))), Broken("ofd"), Xml(Two)},
      {Plain(Two), Broken("pdf")}>>

MCInit ==
    /\ \/ /\ page \in {p \in [Files -> UNION {Few[f] : f \in Files}] : \A f \in Files : p[f] \in Few[f]}
          /\ head \in [Files -> {Totals(Two), Unread}]
          /\ names \in {DistinctNames, SameNames}
          /\ names = SameNames => Unread \notin {head[f] : f \in Files}
          /\ number \in {<<n, m, n2>> : n, m \in {None, n1}}
       \/ /\ names = DistinctNames
          /\ page \in {<<l, Broken("ofd"), Broken("pdf")>> : l \in Layouts}
          /\ head = <<Totals(Two), Unread, Unread>>
          /\ number = <<n1, n1, n2>>
    /\ Init

\* One state, for runs that look at something else.
Quiet ==
    /\ names = DistinctNames /\ number = [f \in Files |-> None]
    /\ page = <<Broken("pdf"), Broken("ofd"), Broken("pdf")>>
    /\ head = [f \in Files |-> Unread]
    /\ Init
=============================================================================
