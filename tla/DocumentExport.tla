---------------------------- MODULE DocumentExport ----------------------------
(***************************************************************************)
(* Warehouse documents: projections/documents.py and the export operations *)
(* of services/app_state.py.  An inbound document is written from the rows *)
(* of the cost detail, an outbound one from the invoice file itself, found *)
(* through a list that may be old.  One export runs at a time, under the   *)
(* lock of the application; users change folders and files during it.      *)
(***************************************************************************)
EXTENDS Naturals, Sequences, FiniteSets, FiniteSetsExt, SequencesExt

CONSTANTS Numbers, Sources, Lines, None,
          Files,       \* invoice files of the outbound folder, in order of name
          Priority,    \* 0 XML, 1 OFD, 2 PDF
          FileNumber,  \* the number in a file's name, or None
          Copies       \* bound: highest number of a "-copy"

\* The files of a folder can be put in order.
ConstantsSound ==
    /\ Files \subseteq Nat /\ IsFiniteSet(Files) /\ Priority \in [Files -> 0..2]

VARIABLES detail,    \* cost detail: the rows of a number, each <<source, line>>
          ticked,    \* numbers the ticked rows of the list stand for now
          content,   \* outbound file -> [number, rows, broken], or None
          catalog,   \* number -> files, as the list of outbound invoices last said
          folder,    \* documents there: name -> what was written, or None
          open,      \* names another program keeps open
          request,   \* the export that runs
          seen,      \* ghost: contents each outbound file had during the request
          digits,    \* an amount in cents, most significant digit first
          budget     \* bound: exports asked for and changes users make

inputs == <<detail, ticked, content, catalog>>
vars == <<inputs, folder, open, request, seen, digits, budget>>

Documents == Numbers \X (0..Copies)
NoRequest == [pc |-> "idle", kind |-> "inbound", number |-> None, mode |-> "",
              batch |-> FALSE, paths |-> <<>>, found |-> <<>>, doc |-> None,
              name |-> None, before |-> None, answer |-> "none"]

-----------------------------------------------------------------------------
(* Rows of an inbound document (_inbound_detail_rows).                     *)

GroupOf(rows, s) == [i \in {i \in DOMAIN rows : rows[i][1] = s} |-> rows[i]]
LinesOf(rows) == [i \in DOMAIN rows |-> rows[i][2]]

Often(line, rows) == Cardinality({i \in DOMAIN rows : rows[i][2] = line})

\* Equal signatures: the same lines, each as often.
Signature(rows) == [l \in Range(LinesOf(rows)) |-> Often(l, rows)]

Groups(rows) == {GroupOf(rows, r[1]) : r \in Range(rows)}
Conflict(rows) == Cardinality({Signature(g) : g \in Groups(rows)}) > 1

InboundRows(rows) ==
    IF Cardinality(Groups(rows)) < 2 THEN rows ELSE GroupOf(rows, rows[1][1])

\* What the list of inbound invoices says of a number.
Option(n) == [blocked |-> Conflict(detail[n]), rows |-> InboundRows(detail[n])]
Listed == {n \in Numbers : detail[n] # <<>>}

-----------------------------------------------------------------------------
(* Files of an outbound document.                                          *)

NumberOf(f, c) ==
    IF ~c.broken /\ c.number # None THEN c.number ELSE FileNumber[f]

\* outbound_invoice_options: files that cannot be read are not listed.
Catalog == [n \in Numbers |->
    {f \in Files : content[f] # None /\ ~content[f].broken /\ NumberOf(f, content[f]) = n}]

Before(f, g) == Priority[f] < Priority[g] \/ (Priority[f] = Priority[g] /\ f < g)
InOrder(items) == \A i, j \in DOMAIN items : i < j => Before(items[i], items[j])
Candidates(n) ==
    CHOOSE items \in [1..Cardinality(catalog[n]) -> catalog[n]] : InOrder(items)

\* Mutant: the number of a candidate is not compared.
SameInvoice_Any(f, n) == TRUE

\* The list narrows the candidates; the file itself says what it is.
SameInvoice(f, n) == ~content[f].broken /\ NumberOf(f, content[f]) = n

-----------------------------------------------------------------------------
(* Amounts in words (rmb_uppercase).  A text is a sequence of <<kind, n>>. *)

Zero == <<"zero", 0>>
Word(kind, n) == << <<kind, n>> >>
If(c, text) == IF c THEN text ELSE <<>>

FourDigits(g) ==
    LET gap(i) == /\ \E j \in 1..(i - 1) : g[j] # 0
                  /\ i > 1 /\ g[i - 1] = 0
        at(i) == If(g[i] # 0, If(gap(i), <<Zero>>) \o Word("digit", g[i])
                                  \o If(i < 4, Word("unit", 4 - i)))
    IN FlattenSeq([i \in 1..4 |-> at(i)])

\* Mutant: a group that starts with a zero is joined like any other.
NeedsZero_Group(g, afterZeros) == afterZeros

\* A group is joined by a zero when it starts with one or zero groups went before.
NeedsZero(g, afterZeros) == afterZeros \/ g[1] = 0

IsZero(g) == \A i \in DOMAIN g : g[i] = 0

IntegerWords(groups) ==
    LET n == Len(groups)
        started(k) == \E j \in 1..(k - 1) : ~IsZero(groups[j])
        afterZeros(k) == k > 1 /\ started(k - 1) /\ IsZero(groups[k - 1])
        at(k) == If(~IsZero(groups[k]),
                    If(started(k) /\ NeedsZero(groups[k], afterZeros(k)), <<Zero>>)
                       \o FourDigits(groups[k]) \o If(k < n, Word("big", n - k)))
    IN IF \A k \in 1..n : IsZero(groups[k]) THEN <<Zero>>
       ELSE FlattenSeq([k \in 1..n |-> at(k)])

GroupsOfFour(s) == [k \in 1..(Len(s) \div 4) |-> SubSeq(s, 4 * k - 3, 4 * k)]
Integer == SubSeq(digits, 1, Len(digits) - 2)
Jiao == digits[Len(digits) - 1]
Fen == digits[Len(digits)]

Words ==
    IF IsZero(digits) THEN <<Zero, <<"yuan", 0>>, <<"exact", 0>> >>
    ELSE IntegerWords(GroupsOfFour(Integer)) \o Word("yuan", 0)
         \o (IF Jiao = 0 /\ Fen = 0 THEN Word("exact", 0)
             ELSE (IF Jiao # 0 THEN Word("digit", Jiao) \o Word("jiao", 0)
                   ELSE If(~IsZero(Integer), <<Zero>>))
                  \o If(Fen # 0, Word("digit", Fen) \o Word("fen", 0)))

-----------------------------------------------------------------------------
(* The export.                                                             *)

OfUser == [kind |-> "user", rows |-> <<>>]
Exists(n, k) == folder[<<n, k>>] # None
\* Mutant: a copy has the first name, whether it is free or not.
CopyPath_First(n) == <<n, 1>>

\* _copy_export_path: the first name that is free.
CopyPath(n) == <<n, CHOOSE k \in 1..Copies : ~Exists(n, k) /\ \A j \in 1..(k - 1) : Exists(n, j)>>
RoomForCopy(n) == \E k \in 1..Copies : ~Exists(n, k)

\* What an invoice file can be: away, unreadable, or of a number with or without rows.
Contents ==
    {None, [number |-> None, rows |-> 0, broken |-> TRUE]}
        \cup [number : Numbers, rows : 0..1, broken : {FALSE}]

Init ==
    /\ detail \in [Numbers -> Seq(Sources \X Lines)] /\ content \in [Files -> Contents]
    /\ open = {} /\ seen = [f \in Files |-> {}]
    /\ folder \in [Documents -> {None, OfUser}]
    /\ \A w \in Documents : folder[w] # None => w[2] = 0
    /\ catalog \in [Numbers -> SUBSET Files]
    /\ request = NoRequest

Ask(kind, n, mode, batch) ==
    /\ request.pc = "idle" /\ budget > 0 /\ budget' = budget - 1
    /\ request' = [NoRequest EXCEPT !.pc = "read", !.kind = kind, !.number = n,
                                    !.mode = mode, !.batch = batch]
    /\ UNCHANGED <<inputs, folder, open, seen, digits>>

Answer(what) ==
    /\ request' = [NoRequest EXCEPT !.answer = what]
    /\ UNCHANGED <<inputs, folder, open, seen, digits, budget>>

Reading(kind) == request.pc = "read" /\ request.kind = kind
Go(new) == /\ request' = new
           /\ UNCHANGED <<inputs, folder, open, digits, budget>>

\* A batch request is for the one invoice its ticked rows are now, in a mode of its own.
BatchRefused ==
    request.batch /\ (ticked # {request.number} \/ request.mode \notin {"skip_existing", "copy_existing"})

RefuseInbound ==
    /\ Reading("inbound")
    /\ \/ BatchRefused
       \/ request.number \notin Listed
       \/ Option(request.number).blocked
    /\ Answer("refused")

ReadInbound ==
    /\ Reading("inbound") /\ ~BatchRefused
    /\ request.number \in Listed /\ ~Option(request.number).blocked
    /\ Go([request EXCEPT !.pc = "target", !.doc = Option(request.number).rows])
    /\ UNCHANGED seen

\* document_outbound_preview, build_outbound_preview: the list names the files ...
FindOutbound ==
    /\ Reading("outbound") /\ catalog[request.number] # {}
    /\ Go([request EXCEPT !.pc = "identify", !.paths = Candidates(request.number)])
    /\ seen' = [f \in Files |-> {content[f]}]

UnknownOutbound ==
    /\ Reading("outbound") /\ catalog[request.number] = {}
    /\ Answer("refused")

\* ... each is looked at in turn ...
Identify ==
    /\ request.pc = "identify" /\ request.paths # <<>>
    /\ LET f == Head(request.paths) IN
       IF content[f] = None \/ ~SameInvoice(f, request.number)
       THEN Answer("refused")
       ELSE Go([request EXCEPT !.pc = "analyse"]) /\ UNCHANGED seen

\* ... and its rows are read again; the first with rows is taken, else the first.
Analyse ==
    /\ request.pc = "analyse"
    /\ LET f == Head(request.paths)
           now == content[f]
           rows == IF now = None \/ now.broken THEN 0 ELSE now.rows
           this == [file |-> f, rows |-> rows, of |-> now]
           found == IF request.found = <<>> \/ rows > 0 THEN this ELSE request.found
           rest == Tail(request.paths)
       IN Go([request EXCEPT !.found = found, !.paths = rest,
                  !.doc = <<found>>,
                  !.pc = IF rows > 0 \/ rest = <<>> THEN "target" ELSE "identify"])
    /\ UNCHANGED seen

Main == <<request.number, 0>>
Skips == request.mode = "skip_existing" /\ folder[Main] # None
WantsCopy == \/ request.mode = "copy"
             \/ request.mode = "copy_existing" /\ folder[Main] # None

Skip == request.pc = "target" /\ Skips /\ Answer("skipped")

Occupied ==
    /\ request.pc = "target" /\ ~Skips
    /\ folder[Main] # None /\ Main \in open
    /\ Answer("occupied")

NothingToCopy ==
    /\ request.pc = "target" /\ request.mode = "copy" /\ folder[Main] = None
    /\ Answer("missing")

ChooseTarget ==
    /\ request.pc = "target" /\ ~Skips
    /\ ~(folder[Main] # None /\ Main \in open)
    /\ WantsCopy => folder[Main] # None /\ RoomForCopy(request.number)
    /\ Go([request EXCEPT !.pc = "write", !.before = folder,
               !.name = IF WantsCopy THEN CopyPath(request.number) ELSE Main])
    /\ UNCHANGED seen

Document == [kind |-> request.kind, rows |-> request.doc]

\* write_*_workbook: a temporary file takes the name at once, whatever is there.
Write ==
    /\ request.pc = "write" /\ request.name \notin open
    /\ folder' = [folder EXCEPT ![request.name] = Document]
    /\ request' = [NoRequest EXCEPT !.answer = "exported"]
    /\ UNCHANGED <<inputs, open, seen, digits, budget>>

WriteFails ==
    /\ request.pc = "write" /\ request.name \in open
    /\ Answer("occupied")

-----------------------------------------------------------------------------
(* Users and the rest of the application.                                  *)

Spend == budget > 0 /\ budget' = budget - 1 /\ UNCHANGED <<request, digits>>

\* A user puts an invoice file in place, or takes it away.
ChangeFile(f, c) ==
    /\ Spend /\ c # content[f]
    /\ content' = [content EXCEPT ![f] = c]
    /\ seen' = [seen EXCEPT ![f] = @ \cup {c}]
    /\ UNCHANGED <<detail, ticked, catalog, folder, open>>

\* The list of outbound invoices is made again (DocumentIndex).
Relist ==
    /\ catalog # Catalog /\ catalog' = Catalog
    /\ UNCHANGED <<detail, ticked, content, folder, open, request, seen, digits, budget>>

\* A document is made, removed, opened or closed by a user.
ChangeDocument(w) ==
    /\ Spend /\ w \notin open
    /\ folder' = [folder EXCEPT ![w] = IF @ = None THEN OfUser ELSE None]
    /\ UNCHANGED <<inputs, open, seen>>

OpenDocument(w) ==
    /\ Spend /\ folder[w] # None
    /\ open' = IF w \in open THEN open \ {w} ELSE open \cup {w}
    /\ UNCHANGED <<inputs, folder, seen>>

\* A new scan writes other rows, and the ticked rows become others.
Rescan(n, rows, now) ==
    /\ Spend
    /\ detail' = [detail EXCEPT ![n] = rows] /\ ticked' = now
    /\ UNCHANGED <<content, catalog, folder, open, seen>>

-----------------------------------------------------------------------------
InboundModes == {"", "copy", "skip_existing", "copy_existing"}
SomeRows == {<<>>} \cup {<<<<s, l>>, <<t, l>>>> : s, t \in Sources, l \in Lines}

AskInbound == \E n \in Numbers, mode \in InboundModes, batch \in BOOLEAN : Ask("inbound", n, mode, batch)
AskOutbound == \E n \in Numbers, mode \in {"", "copy"} : Ask("outbound", n, mode, FALSE)
Users ==
    \/ \E f \in Files, c \in Contents : ChangeFile(f, c)
    \/ \E w \in Documents : ChangeDocument(w) \/ OpenDocument(w)
    \/ \E n \in Numbers, rows \in SomeRows, now \in SUBSET Numbers : Rescan(n, rows, now)

Next ==
    \/ AskInbound \/ AskOutbound
    \/ RefuseInbound \/ ReadInbound
    \/ UnknownOutbound \/ FindOutbound \/ Identify \/ Analyse
    \/ Skip \/ Occupied \/ NothingToCopy \/ ChooseTarget \/ Write \/ WriteFails
    \/ Relist \/ Users

Spec == Init /\ [][Next]_vars

-----------------------------------------------------------------------------
\* An inbound document has every line of the invoice as often as each of its
\* sources says; sources that disagree are never added up (_inbound_detail_rows).
RowsOnce ==
    \A n \in Listed : ~Option(n).blocked =>
        \A s \in {r[1] : r \in Range(detail[n])}, l \in Lines :
            Often(l, Option(n).rows) = Often(l, GroupOf(detail[n], s))

\* An export that skips or copies leaves every document that was there when it
\* looked as it was; only the user changes it (_export_*_document_locked).
DocumentsKept ==
    [][(request.pc = "write" /\ request'.answer = "exported" /\ request.mode # "") =>
           \A w \in Documents : request.before[w] # None => folder'[w] = folder[w]]_vars

\* The file an outbound document is made of was the asked invoice at some moment
\* of the export, however old the list is (build_outbound_preview).
OutboundIsAsked ==
    (request.kind = "outbound" /\ request.pc = "write") =>
        \E c \in seen[request.doc[1].file] \ {None} :
            ~c.broken /\ NumberOf(request.doc[1].file, c) = request.number

-----------------------------------------------------------------------------
(* Reading an amount in words: each digit with its place, places counted    *)
(* from the fen.                                                            *)

PlaceOf(text, i) ==
    LET next == {j \in DOMAIN text : j > i}
        is(kind) == i + 1 \in next /\ text[i + 1][1] = kind
        yuan == CHOOSE j \in DOMAIN text : text[j][1] = "yuan"
        bigs == {j \in next : text[j][1] = "big"}
    IN IF i > yuan THEN IF is("jiao") THEN 1 ELSE 0
       ELSE 2 + (IF is("unit") THEN text[i + 1][2] ELSE 0)
              + (IF bigs = {} THEN 0 ELSE 4 * text[Min(bigs)][2])

Spoken(text) == {i \in DOMAIN text : text[i][1] = "digit"}
Digit(place) == digits[Len(digits) - place]
Places == 0..(Len(digits) - 1)

\* Between two digits a zero is said once or not at all; it is said when the
\* place above the lower one is 0 in the same group of four (or fen without
\* jiao), or when a whole group is 0.
ZeroSaid(text, i, j) ==
    LET p == PlaceOf(text, i)
        q == PlaceOf(text, j)
        zeros == Cardinality({k \in (i + 1)..(j - 1) : text[k] = Zero})
        must == \/ p > q + 1 /\ q # 1 /\ (q - 2) % 4 # 3
                \/ p > q + 4 /\ q > 1
    IN zeros <= 1 /\ (must => zeros = 1) /\ (p = q + 1 => zeros = 0)

\* The words of the total say the amount of the document: every digit at its
\* place, and the zeros accounting asks for (rmb_uppercase).
WordsSayAmount ==
    /\ {<<PlaceOf(Words, i), Words[i][2]>> : i \in Spoken(Words)}
         = {<<p, Digit(p)>> : p \in {q \in Places : Digit(q) # 0}}
    /\ \A i, j \in Spoken(Words) :
           (i < j /\ \A k \in (i + 1)..(j - 1) : k \notin Spoken(Words)) => ZeroSaid(Words, i, j)
=============================================================================
