--------------------------- MODULE MCDocumentExport ---------------------------
(***************************************************************************)
(* Either every list of up to four detail rows of two sources, or every    *)
(* amount of three groups of four digits like 1000, 1 or 110 with two      *)
(* decimals, or exports of two numbers whose outbound invoices are an XML, *)
(* an OFD of the same one and a PDF, with up to Budget requests and        *)
(* changes of users.                                                       *)
(***************************************************************************)
EXTENDS DocumentExport, TLC

CONSTANTS n1, n2, Budget

Is(n, rows, broken) == [number |-> n, rows |-> rows, broken |-> broken]
NoRows == [n \in Numbers |-> <<>>]
NoAmount == [i \in 1..14 |-> 0]

\* Nothing is asked where only the operators are looked at.
Quiet ==
    /\ folder = [w \in Documents |-> None] /\ budget = 0
    /\ ticked = {} /\ content = [f \in Files |-> None] /\ catalog = Catalog
    /\ open = {} /\ seen = [f \in Files |-> {}]
    /\ request = [NoRequest EXCEPT !.pc = "never"]

GroupPatterns == {<<0,0,0,0>>, <<1,0,0,0>>, <<0,0,0,1>>, <<0,1,1,0>>, <<1,0,1,1>>, <<2,0,0,3>>}

\* The list may be of the files as they were before the last change.
MCInit ==
    \/ /\ \E rows \in BoundedSeq(Sources \X Lines, 4) : detail = [NoRows EXCEPT ![n1] = rows]
       /\ digits = NoAmount
       /\ Quiet
    \/ /\ \E a, b, c \in GroupPatterns, d \in [1..2 -> 0..1] : digits = a \o b \o c \o d
       /\ detail = NoRows
       /\ Quiet
    \/ /\ digits = NoAmount /\ budget = Budget
       /\ detail = [n \in Numbers |-> << <<"a", "x">> >>] /\ ticked = {n1}
       /\ \E c \in {None, Is(n1, 0, FALSE), Is(n1, 1, FALSE), Is(n2, 1, FALSE)},
             d \in {Is(n1, 0, FALSE), Is(n1, 1, FALSE), Is(None, 0, TRUE)} :
             content = <<c, d, Is(n2, 1, FALSE)>>
       /\ Init
       /\ catalog = n1 :> {1, 2} @@ n2 :> {3}
       /\ folder[<<n2, 0>>] = None
=============================================================================
