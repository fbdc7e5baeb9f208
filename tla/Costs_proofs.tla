----------------------------- MODULE Costs_proofs -----------------------------
(***************************************************************************)
(* Proofs about costs: the reference status of cost rows (CostReferences), *)
(* for any rows, requests and faults, and what the pages show of the       *)
(* analysis of invoices (CostDetail), for any files, headers and readers.  *)
(***************************************************************************)
EXTENDS CostDetail, Costs, Sums, TLAPS

(* The reference status of cost rows (CostReferences), for any rows,       *)
(* quantities, prices and rates.                                           *)

Rate == Nat
StatusSet == [inv : References!Quantities, part : Nat, rate : Nat, locked : BOOLEAN,
              told : {"none", "not_invoiced", "partial", "invoiced"}]
SheetSet == [inv : References!Quantities, part : Nat, rate : Nat, told : {"not_invoiced", "partial", "invoiced"}]

(* What a row would show, of any files.                                    *)
Of(items, known, k) ==
    IF k \in DOMAIN items THEN items[k]
    ELSE IF k \in DOMAIN known THEN References!FromBook(known[k]) ELSE References!NoStatus

CostTyped ==
  /\ table \in [Keys -> Contents]
  /\ DOMAIN json \subseteq Keys /\ json = [k \in DOMAIN json |-> json[k]]
  /\ \A k \in DOMAIN json : json[k] \in StatusSet
  /\ DOMAIN book \subseteq Keys /\ book = [k \in DOMAIN book |-> book[k]]
  /\ \A k \in DOMAIN book : book[k] \in SheetSet
  /\ synced \in BOOLEAN

(* What was granted last is in the JSON file, or says no more than the      *)
(* defaults and neither file says otherwise.                               *)
Kept(k) ==
  asked[k].inv >= 0 =>
    LET s == Of(json, book, k)
    IN /\ s.inv = asked[k].inv /\ s.rate = References!Normal(asked[k].rate) /\ s.locked = asked[k].locked
       /\ k \notin DOMAIN json => asked[k].inv = 0 /\ s.rate = Default

BookAgrees ==
  synced => \A k \in References!Rows(table) :
    /\ k \in DOMAIN book
    /\ LET s == Of(json, book, k)
           inv == References!Clamped(s.inv, table[k].quantity)
       IN book[k].inv = inv /\ book[k].part = (IF inv = 0 THEN 0 ELSE s.part) /\ book[k].rate = s.rate

CostInv == CostTyped /\ BookAgrees /\ \A k \in Keys : Kept(k)

-----------------------------------------------------------------------------
LEMMA StatusIs ==
  ASSUME NEW items, NEW known, NEW k
  PROVE  References!StatusIn(References!Merged(items, known), k) = Of(items, known, k)
BY DEF References!StatusIn, References!Merged, Of

LEMMA NormalNat == ASSUME NEW r \in Nat PROVE References!Normal(r) \in Nat
BY DEF References!Normal

LEMMA Products ==
  ASSUME NEW a \in Nat, NEW b \in Nat, NEW c \in Nat
  PROVE  a * b * (1000 + c) \in Nat
OBVIOUS

LEMMA PartNat ==
  ASSUME NEW d \in [quantity : Nat, price : Nat], NEW rate \in Nat, NEW inv \in Nat
  PROVE  References!Part(d, rate, inv) \in Nat
BY NormalNat, Products DEF References!Part

LEMMA ClampedIs ==
  ASSUME NEW i \in Nat, NEW q \in Nat
  PROVE  /\ References!Clamped(i, q) \in Nat /\ References!Clamped(i, q) \in {i, q} /\ References!Clamped(i, q) <= q
         /\ References!Clamped(References!Clamped(i, q), q) = References!Clamped(i, q)
         /\ i = 0 => References!Clamped(i, q) = 0
BY DEF References!Clamped

LEMMA QuantitiesNat ==
  ASSUME References!ConstantsSound
  PROVE  /\ References!Quantities \subseteq Nat /\ 0 \in References!Quantities /\ Default \in Nat /\ References!Normal(Default) = Default
         /\ \A d \in Contents : d.quantity \in References!Quantities /\ d.quantity \in Nat
BY DEF References!ConstantsSound, References!Quantities, References!Normal

LEMMA NoStatusTyped ==
  ASSUME References!ConstantsSound
  PROVE  References!NoStatus \in StatusSet
BY QuantitiesNat DEF References!NoStatus, References!Status, StatusSet

LEMMA NoStatusIs ==
  /\ References!NoStatus.inv = 0 /\ References!NoStatus.part = 0 /\ References!NoStatus.rate = Default /\ References!NoStatus.locked = FALSE
BY DEF References!NoStatus, References!Status

LEMMA FromBookTyped ==
  ASSUME References!ConstantsSound, NEW row \in SheetSet
  PROVE  References!FromBook(row) \in StatusSet
BY DEF References!FromBook, References!Status, StatusSet, SheetSet

LEMMA BookRowTyped ==
  ASSUME References!ConstantsSound, NEW d \in Contents, NEW s \in StatusSet
  PROVE  References!BookRow(d, s) \in SheetSet
<1> DEFINE inv == References!Clamped(s.inv, d.quantity)
<1>1. s.inv \in References!Quantities /\ s.part \in Nat /\ s.rate \in Nat
  BY DEF StatusSet
<1>2. inv \in References!Quantities
  BY <1>1, QuantitiesNat, ClampedIs
<1>3. References!Told(d.quantity, inv) \in {"not_invoiced", "partial", "invoiced"}
  BY DEF References!Told
<1> HIDE DEF inv
<1>4. References!BookRow(d, s) = [inv |-> inv, part |-> IF inv = 0 THEN 0 ELSE s.part, rate |-> s.rate,
                                  told |-> References!Told(d.quantity, inv)]
  BY DEF References!BookRow, inv
<1> QED
  BY <1>1, <1>2, <1>3, <1>4, QuantitiesNat DEF SheetSet

LEMMA OfTyped ==
  ASSUME References!ConstantsSound, CostTyped, NEW k
  PROVE  Of(json, book, k) \in StatusSet
BY NoStatusTyped, FromBookTyped DEF CostTyped, Of

LEMMA MergedIs ==
  ASSUME References!ConstantsSound, CostTyped
  PROVE  LET items == References!Merged(json, book)
         IN /\ items = [k \in DOMAIN items |-> items[k]]
            /\ DOMAIN items \subseteq Keys
            /\ \A k \in DOMAIN items : items[k] \in StatusSet /\ items[k] = Of(json, book, k)
            /\ \A k : k \notin DOMAIN items => k \notin DOMAIN json /\ Of(json, book, k) = References!NoStatus
            /\ DOMAIN json \subseteq DOMAIN items /\ DOMAIN book \subseteq DOMAIN items
<1> DEFINE items == References!Merged(json, book)
<1>1. DOMAIN items = DOMAIN json \cup DOMAIN book /\ items = [k \in DOMAIN items |-> items[k]]
  BY DEF References!Merged
<1>2. \A k \in DOMAIN items : items[k] = Of(json, book, k)
  BY <1>1 DEF References!Merged, Of
<1>3. \A k : k \notin DOMAIN items => Of(json, book, k) = References!NoStatus
  BY <1>1 DEF Of
<1> HIDE DEF items
<1>4. \A k \in DOMAIN items : items[k] \in StatusSet
  BY <1>2, OfTyped
<1> QED
  BY <1>1, <1>2, <1>3, <1>4 DEF items, CostTyped

(* A workbook written of what items says.                                  *)
LEMMA BookIs ==
  ASSUME References!ConstantsSound, NEW d \in [Keys -> Contents], NEW items,
         DOMAIN items \subseteq Keys,
         \A k \in DOMAIN items : items[k] \in StatusSet
  PROVE  LET known == References!Book(d, items)
         IN /\ known = [k \in DOMAIN known |-> known[k]] /\ DOMAIN known = References!Rows(d)
            /\ References!Rows(d) \subseteq Keys
            /\ \A k \in References!Rows(d) : /\ known[k] \in SheetSet
                                             /\ known[k] = References!BookRow(d[k], References!StatusIn(items, k))
<1>1. \A k \in Keys : References!StatusIn(items, k) \in StatusSet
  BY NoStatusTyped DEF References!StatusIn
<1>2. \A k \in References!Rows(d) : References!BookRow(d[k], References!StatusIn(items, k)) \in SheetSet
  BY <1>1, BookRowTyped DEF References!Rows
<1> QED
  BY <1>2 DEF References!Book, References!Rows

(* The sheet shows what a row is, as far as there is that much of it, and   *)
(* says no more than items.                                                *)
Shows(d, items, known, k) ==
  LET s == Of(items, known, k)
      inv == References!Clamped(s.inv, d[k].quantity)
  IN /\ k \in DOMAIN items => s = items[k]
     /\ k \notin DOMAIN items => s.inv = 0 /\ s.rate = Default /\ s.locked = FALSE
     /\ k \in References!Rows(d) => /\ k \in DOMAIN known
                                    /\ known[k].inv = inv /\ known[k].rate = s.rate
                                    /\ known[k].part = IF inv = 0 THEN 0 ELSE s.part

LEMMA BookShows ==
  ASSUME References!ConstantsSound, NEW d \in [Keys -> Contents], NEW items,
         DOMAIN items \subseteq Keys,
         \A i \in DOMAIN items : items[i] \in StatusSet, NEW k \in Keys
  PROVE  Shows(d, items, References!Book(d, items), k)
<1> USE DEF Shows
<1> DEFINE known == References!Book(d, items)
           s == Of(items, known, k)
           old == References!StatusIn(items, k)
<1>0. d[k].quantity \in Nat
  BY DEF References!ConstantsSound
<1>1. DOMAIN known = References!Rows(d) /\ \A i \in References!Rows(d) : known[i] = References!BookRow(d[i], References!StatusIn(items, i))
  BY BookIs
<1>2. CASE k \in DOMAIN items
  <2>1. s = items[k] /\ old = items[k]
    BY <1>2 DEF Of, References!StatusIn
  <2>2. k \in References!Rows(d) => known[k] = References!BookRow(d[k], s)
    BY <1>1, <2>1
  <2> HIDE DEF s, known
  <2> QED
    BY <1>1, <1>2, <2>1, <2>2 DEF References!BookRow, s, known
<1>3. CASE k \notin DOMAIN items
  <2>1. old = References!NoStatus
    BY <1>3 DEF References!StatusIn
  <2>2. k \in References!Rows(d) => known[k] = References!BookRow(d[k], References!NoStatus) /\ s = References!FromBook(known[k])
    BY <1>1, <1>3, <2>1 DEF Of
  <2>3. k \notin References!Rows(d) => s = References!NoStatus
    BY <1>1, <1>3 DEF Of
  <2>4. References!Clamped(0, d[k].quantity) = 0
    BY <1>0, ClampedIs
  <2> HIDE DEF s, known
  <2>5. k \in References!Rows(d) => known[k].inv = 0 /\ known[k].part = 0 /\ known[k].rate = Default
    BY <2>2, <2>4 DEF References!BookRow, References!NoStatus, References!Status
  <2>6. s.inv = 0 /\ s.rate = Default /\ s.locked = FALSE
    BY <2>2, <2>3, <2>5 DEF References!FromBook, References!NoStatus, References!Status
  <2> QED
    BY <1>1, <1>3, <2>4, <2>5, <2>6 DEF s, known
<1> QED
  BY <1>2, <1>3

-----------------------------------------------------------------------------
LEMMA CostInitially == ASSUME References!ConstantsSound, References!Init PROVE CostInv
<1> USE DEF References!Init
<1>1. table \in [Keys -> Contents] /\ json = References!Empty /\ DOMAIN json = {} /\ ~synced
  BY DEF References!Details, References!Empty
<1>2. /\ DOMAIN book \subseteq Keys /\ book = [k \in DOMAIN book |-> book[k]]
      /\ \A k \in DOMAIN book : book[k] \in SheetSet
  <2>1. CASE book = References!Empty
    BY <2>1 DEF References!Empty
  <2>2. CASE book # References!Empty
    <3>1. PICK invs \in [Keys -> References!Quantities] :
             book = References!Book(table, [k \in Keys |->
                       References!Status(invs[k], References!Part(table[k], Default, invs[k]), Default, FALSE, "none")])
      BY <2>2
    <3> DEFINE items == [k \in Keys |->
                       References!Status(invs[k], References!Part(table[k], Default, invs[k]), Default, FALSE, "none")]
    <3>2. \A k \in Keys : References!Part(table[k], Default, invs[k]) \in Nat
      BY <1>1, QuantitiesNat, PartNat DEF References!ConstantsSound
    <3>3. \A k \in DOMAIN items : items[k] \in StatusSet
      BY <3>2, QuantitiesNat DEF References!Status, StatusSet
    <3>4. DOMAIN items \subseteq Keys
      OBVIOUS
    <3>5. book = References!Book(table, items)
      BY <3>1
    <3> HIDE DEF items
    <3> QED
      BY <1>1, <3>3, <3>4, <3>5, BookIs
  <2> QED
    BY <2>1, <2>2
<1>3. \A k \in Keys : Kept(k)
  BY DEF Kept, References!Nothing
<1> QED
  BY <1>1, <1>2, <1>3 DEF CostInv, CostTyped, BookAgrees, References!Empty

(* What a step does to what a row would show, besides a request for it.    *)
SameStatus(s, t) == t.inv = s.inv /\ t.rate = s.rate /\ t.locked = s.locked /\ (t = s \/ t.inv = 0)

LEMMA KeptStays ==
  ASSUME NEW k \in Keys, Kept(k), asked'[k] = asked[k],
         SameStatus(Of(json, book, k), Of(json', book', k)),
         k \notin DOMAIN json' => k \notin DOMAIN json
  PROVE  Kept(k)'
BY DEF Kept, SameStatus

LEMMA RebuildShows ==
  ASSUME References!ConstantsSound, CostInv, References!Rebuild
  PROVE  /\ CostTyped' /\ BookAgrees'
         /\ \A k \in Keys : /\ SameStatus(Of(json, book, k), Of(json', book', k))
                            /\ k \notin DOMAIN json' => k \notin DOMAIN json
<1> DEFINE items == References!Merged(json, book)
<1>1. PICK d \in References!Details, written \in 0..3 :
          /\ written < 2 => d = table
          /\ json' = IF written >= 1 THEN items ELSE json
          /\ table' = d
          /\ book' = IF written = 3 THEN References!Book(d, items) ELSE book
          /\ synced' = (written = 3 \/ (synced /\ written < 2))
  BY DEF References!Rebuild
<1>2. /\ items = [k \in DOMAIN items |-> items[k]] /\ DOMAIN items \subseteq Keys
      /\ \A k \in DOMAIN items : items[k] \in StatusSet /\ items[k] = Of(json, book, k)
      /\ \A k : k \notin DOMAIN items => k \notin DOMAIN json /\ Of(json, book, k) = References!NoStatus
      /\ DOMAIN book \subseteq DOMAIN items
  BY MergedIs DEF CostInv
<1> HIDE DEF items
<1>3. d \in [Keys -> Contents]
  BY DEF References!Details
<1>4. \A k : Of(items, book, k) = Of(json, book, k)
  BY <1>2 DEF Of
<1>5. CASE written = 0
  <2>1. json' = json /\ book' = book /\ table' = table /\ synced' = synced
    BY <1>1, <1>5 DEF CostInv, CostTyped
  <2> QED
    BY <2>1 DEF CostInv, CostTyped, BookAgrees, Of, SameStatus
<1>6. CASE written \in {1, 2}
  <2>1. json' = items /\ book' = book /\ (written = 2 => ~synced')
        /\ (written = 1 => table' = table /\ synced' = synced)
    <3>1. /\ written >= 1 /\ written # 3 /\ (written = 1 => written < 2)
          /\ written = 2 => ~(written < 2)
      BY <1>6
    <3>2. synced \in BOOLEAN
      BY DEF CostInv, CostTyped
    <3>3. synced' = (synced /\ written < 2)
      BY <1>1, <3>1
    <3> QED
      BY <1>1, <3>1, <3>2, <3>3
  <2>2. CostTyped'
    BY <1>1, <1>2, <1>3, <2>1 DEF CostInv, CostTyped
  <2>3. \A k : Of(json', book', k) = Of(json, book, k)
    BY <1>4, <2>1
  <2>4. BookAgrees'
    <3>1. CASE written = 1
      BY <2>1, <2>3, <3>1 DEF CostInv, BookAgrees
    <3>2. CASE written = 2
      BY <2>1, <3>2 DEF BookAgrees
    <3> QED
      BY <1>6, <3>1, <3>2
  <2> QED
    BY <1>2, <2>1, <2>2, <2>3, <2>4 DEF SameStatus
<1>7. CASE written = 3
  <2>1. json' = items /\ book' = References!Book(d, items) /\ table' = d
    BY <1>1, <1>7
  <2>2. CostTyped'
    <3>1. /\ book' = [k \in DOMAIN book' |-> book'[k]] /\ DOMAIN book' \subseteq Keys
          /\ \A k \in DOMAIN book' : book'[k] \in SheetSet
      BY <1>2, <1>3, <2>1, BookIs
    <3>2. synced' \in BOOLEAN
      BY <1>1
    <3> QED
      BY <1>2, <1>3, <2>1, <3>1, <3>2 DEF CostTyped
  <2>3. ASSUME NEW k \in Keys
        PROVE  /\ SameStatus(Of(json, book, k), Of(json', book', k))
               /\ k \in References!Rows(d) =>
                    /\ k \in DOMAIN book'
                    /\ LET s == Of(json', book', k)
                           inv == References!Clamped(s.inv, d[k].quantity)
                       IN /\ book'[k].inv = inv /\ book'[k].rate = s.rate
                          /\ book'[k].part = IF inv = 0 THEN 0 ELSE s.part
    <3> DEFINE s == Of(json', book', k)
               inv == References!Clamped(s.inv, d[k].quantity)
    <3>0. References!Book(d, items) = book' /\ items = json'
      BY <2>1
    <3>1. /\ k \in DOMAIN items => s = items[k]
          /\ k \notin DOMAIN items => s.inv = 0 /\ s.rate = Default /\ s.locked = FALSE
          /\ k \in References!Rows(d) => /\ k \in DOMAIN book'
                                         /\ book'[k].inv = inv /\ book'[k].rate = s.rate
                                         /\ book'[k].part = IF inv = 0 THEN 0 ELSE s.part
      <4>1. DOMAIN items \subseteq Keys /\ \A i \in DOMAIN items : items[i] \in StatusSet
        BY <1>2
      <4>2. Shows(d, items, References!Book(d, items), k)
        BY <1>3, <4>1, BookShows
      <4>3. Shows(d, json', book', k)
        BY <3>0, <4>2
      <4> QED
        BY <3>0, <4>3 DEF Shows
    <3> HIDE DEF s, inv
    <3>2. SameStatus(Of(json, book, k), s)
      <4>1. CASE k \in DOMAIN items
        BY <1>2, <3>1, <4>1 DEF SameStatus
      <4>2. CASE k \notin DOMAIN items
        <5>1. Of(json, book, k) = References!NoStatus
          BY <1>2, <4>2
        <5> QED
          BY <3>1, <4>2, <5>1, NoStatusIs DEF SameStatus
      <4> QED
        BY <4>1, <4>2
    <3> QED
      BY <3>1, <3>2 DEF s, inv
  <2>4. BookAgrees'
    BY <2>1, <2>3 DEF BookAgrees, References!Rows
  <2> QED
    BY <1>2, <2>1, <2>2, <2>3, <2>4
<1> QED
  BY <1>5, <1>6, <1>7

LEMMA RefreshShows ==
  ASSUME References!ConstantsSound, CostInv, References!RefreshSchema
  PROVE  /\ CostTyped' /\ BookAgrees'
         /\ \A k \in Keys : Kept(k)'
         /\ \A k \in Keys : LET s == Of(json, book, k)
                                t == Of(json', book', k)
                            IN t.inv = 0 \/ t.part = s.part
<1> DEFINE items == References!Merged(json, book)
<1>1. /\ book' = References!Book(table, items) /\ json' = json /\ table' = table /\ asked' = asked
  BY DEF References!RefreshSchema
<1>2. /\ DOMAIN items \subseteq Keys
      /\ \A k \in DOMAIN items : items[k] \in StatusSet /\ items[k] = Of(json, book, k)
      /\ \A k : k \notin DOMAIN items => k \notin DOMAIN json /\ Of(json, book, k) = References!NoStatus
  BY MergedIs DEF CostInv
<1> HIDE DEF items
<1>3. table \in [Keys -> Contents]
  BY DEF CostInv, CostTyped
<1>4. /\ book' = [k \in DOMAIN book' |-> book'[k]] /\ DOMAIN book' = References!Rows(table)
      /\ References!Rows(table) \subseteq Keys
      /\ \A k \in References!Rows(table) : book'[k] \in SheetSet
                                           /\ book'[k] = References!BookRow(table[k], References!StatusIn(items, k))
  BY <1>1, <1>2, <1>3, BookIs
<1>5. \A k : References!StatusIn(items, k) = Of(json, book, k)
  BY <1>2 DEF References!StatusIn
<1>6. CostTyped'
  BY <1>1, <1>4 DEF CostInv, CostTyped, References!RefreshSchema
<1>7. ASSUME NEW k \in Keys
      PROVE  LET s == Of(json, book, k)
                 t == Of(json', book', k)
                 q == table[k].quantity
             IN /\ k \in DOMAIN json => t = s
                /\ k \notin DOMAIN json /\ s.inv = 0 => t.inv = 0
                /\ k \notin DOMAIN json /\ s.rate = Default => t.rate = Default
                /\ k \notin DOMAIN json => s.locked = FALSE /\ t.locked = FALSE
                /\ t.inv = 0 \/ t.part = s.part
                /\ k \in References!Rows(table) =>
                     /\ book'[k].inv = References!Clamped(t.inv, q) /\ book'[k].rate = t.rate
                     /\ book'[k].part = IF References!Clamped(t.inv, q) = 0 THEN 0 ELSE t.part
  <2> DEFINE s == Of(json, book, k)
             t == Of(json', book', k)
             q == table[k].quantity
  <2>0. q \in Nat /\ s \in StatusSet /\ s.inv \in Nat
    <3>1. q \in Nat
      BY <1>3, QuantitiesNat
    <3>2. s \in StatusSet
      BY OfTyped DEF CostInv
    <3> QED
      BY <3>1, <3>2, QuantitiesNat DEF StatusSet
  <2>1. k \in DOMAIN json => t = s
    BY <1>1 DEF Of
  <2>2. k \notin DOMAIN json => s.locked = FALSE
    BY DEF Of, References!FromBook, References!NoStatus, References!Status
  <2>3. k \in References!Rows(table) => book'[k] = References!BookRow(table[k], s)
    BY <1>4, <1>5
  <2>4. k \notin DOMAIN json /\ k \in References!Rows(table) => t = References!FromBook(book'[k])
    BY <1>1, <1>4 DEF Of
  <2>5. k \notin DOMAIN json /\ k \notin References!Rows(table) => t = References!NoStatus
    BY <1>1, <1>4 DEF Of
  <2>6. /\ References!Clamped(References!Clamped(s.inv, q), q) = References!Clamped(s.inv, q)
        /\ s.inv = 0 => References!Clamped(s.inv, q) = 0
    BY <2>0, ClampedIs
  <2> HIDE DEF s, t
  <2>7. k \in References!Rows(table) =>
           /\ book'[k].inv = References!Clamped(s.inv, q) /\ book'[k].rate = s.rate
           /\ book'[k].part = IF References!Clamped(s.inv, q) = 0 THEN 0 ELSE s.part
    BY <2>3 DEF References!BookRow
  <2>8. k \notin DOMAIN json /\ k \in References!Rows(table) =>
           /\ t.inv = book'[k].inv /\ t.part = book'[k].part /\ t.rate = book'[k].rate
           /\ t.locked = FALSE
    BY <2>4 DEF References!FromBook, References!Status
  <2>9. k \notin DOMAIN json /\ k \notin References!Rows(table) =>
           t.inv = 0 /\ t.rate = Default /\ t.locked = FALSE
    BY <2>5 DEF References!NoStatus, References!Status
  <2> HIDE DEF q
  <2>10. /\ k \notin DOMAIN json /\ s.inv = 0 => t.inv = 0
         /\ k \notin DOMAIN json /\ s.rate = Default => t.rate = Default
         /\ k \notin DOMAIN json => s.locked = FALSE /\ t.locked = FALSE
    BY <2>2, <2>6, <2>7, <2>8, <2>9
  <2>11. t.inv = 0 \/ t.part = s.part
    BY <2>1, <2>7, <2>8, <2>9
  <2>12. k \in References!Rows(table) =>
           /\ book'[k].inv = References!Clamped(t.inv, q) /\ book'[k].rate = t.rate
           /\ book'[k].part = IF References!Clamped(t.inv, q) = 0 THEN 0 ELSE t.part
    BY <2>1, <2>6, <2>7, <2>8
  <2> QED
    BY <2>1, <2>10, <2>11, <2>12 DEF s, t, q
<1>8. BookAgrees'
  BY <1>1, <1>4, <1>7 DEF BookAgrees
<1>9. \A k \in Keys : Kept(k)'
  <2> SUFFICES ASSUME NEW k \in Keys PROVE Kept(k)'
    OBVIOUS
  <2>1. Kept(k)
    BY DEF CostInv
  <2>2. CASE k \in DOMAIN json
    BY <1>1, <1>7, <2>1, <2>2 DEF Kept
  <2>3. CASE k \notin DOMAIN json
    BY <1>1, <1>7, <2>1, <2>3 DEF Kept
  <2> QED
    BY <2>2, <2>3
<1> QED
  BY <1>6, <1>7, <1>8, <1>9

-----------------------------------------------------------------------------
(* A request.                                                              *)

LEMMA StatusForIs == ASSUME NEW k PROVE References!StatusFor(k) = Of(json, book, k)
BY StatusIs DEF References!StatusFor

LEMMA GrantedIs ==
  ASSUME References!ConstantsSound, CostTyped, NEW k \in References!Rows(table),
         NEW ask \in References!Asks
  PROVE  LET s == Of(json, book, k)
             granted == References!Granted(k, ask)
         IN /\ granted \in StatusSet
            /\ granted.inv = s.inv => granted.inv = 0 \/ granted.part = s.part
<1> DEFINE s == Of(json, book, k)
           inv == References!Given(ask.inv, s.inv)
           rate == References!Given(ask.rate, s.rate)
           part == References!LockedPart(table[k], s, inv, rate)
           told == References!Told(table[k].quantity, inv)
<1>1. s \in StatusSet /\ table[k] \in [quantity : Nat, price : Nat]
  BY OfTyped DEF References!Rows, CostTyped, References!ConstantsSound
<1>2. References!Granted(k, ask) = References!Status(inv, part, rate, ask.locked, told)
  BY StatusForIs DEF References!Granted
<1> HIDE DEF s
<1>3. s.inv \in References!Quantities /\ s.part \in Nat /\ s.rate \in Nat
  BY <1>1 DEF StatusSet
<1>4. inv \in References!Quantities /\ rate \in Nat /\ ask.locked \in BOOLEAN
  BY <1>3 DEF References!Given, References!Asks, References!ConstantsSound
<1>5. told \in {"none", "not_invoiced", "partial", "invoiced"}
  BY DEF References!Told
<1>6. inv \in Nat
  BY <1>4, QuantitiesNat
<1> HIDE DEF inv, rate, told
<1>7. part \in Nat /\ (inv = s.inv => inv = 0 \/ part = s.part)
  <2>1. References!Part(table[k], rate, inv) \in Nat
    BY <1>1, <1>4, <1>6, PartNat
  <2> QED
    BY <1>3, <1>6, <2>1 DEF References!LockedPart
<1> HIDE DEF part
<1> QED
  BY <1>2, <1>4, <1>5, <1>7 DEF References!Status, StatusSet, s

LEMMA StoredIs ==
  ASSUME NEW s \in StatusSet
  PROVE  /\ References!Stored(s) \in StatusSet /\ References!Stored(s).inv = s.inv /\ References!Stored(s).part = s.part
         /\ References!Stored(s).rate = References!Normal(s.rate) /\ References!Stored(s).locked = s.locked
<1>1. References!Normal(s.rate) \in Nat
  BY NormalNat DEF StatusSet
<1> QED
  BY <1>1 DEF References!Stored, StatusSet

LEMMA SaveShows ==
  ASSUME References!ConstantsSound, CostInv, References!SaveReferenceStatus
  PROVE  /\ CostTyped' /\ BookAgrees'
         /\ \A k \in Keys : Kept(k)'
         /\ \A k \in Keys : LET s == Of(json, book, k)
                                t == Of(json', book', k)
                            IN \/ t.inv = 0 \/ t.part = s.part \/ t.inv # s.inv
                               \/ k \in (DOMAIN json) \ DOMAIN json'
<1>1. PICK keys \in (SUBSET Keys) \ {{}}, ask \in References!Asks : References!Save([k \in keys |-> ask])
  BY DEF References!SaveReferenceStatus
<1> DEFINE wish == [k \in keys |-> ask]
           ks == DOMAIN wish \cap References!Rows(table)
           granted == [k \in ks |-> References!Granted(k, wish[k])]
           kept == {k \in ks : References!KeepItem(granted[k])}
           items == [k \in ((DOMAIN json) \ ks) \cup kept |->
                        IF k \in kept THEN References!Stored(granted[k]) ELSE json[k]]
<1>2. PICK written \in 0..2 :
            /\ json' = IF written >= 1 THEN items ELSE json
            /\ book' = IF written = 2 THEN References!Book(table, items) ELSE book
            /\ synced' = (written = 2 \/ (synced /\ written = 0))
            /\ asked' = [k \in Keys |->
                CASE k \in ks /\ written = 2 ->
                        [inv |-> granted[k].inv, rate |-> granted[k].rate, locked |-> granted[k].locked]
                  [] k \in ks /\ written < 2 -> References!Nothing
                  [] OTHER -> asked[k]]
  BY <1>1 DEF References!Save
<1>3. table' = table /\ table \in [Keys -> Contents]
  BY <1>1 DEF References!Save, CostInv, CostTyped
<1>4. ks \subseteq Keys /\ ks \subseteq References!Rows(table)
  OBVIOUS
<1>5. \A k \in ks : /\ granted[k] \in StatusSet
                    /\ granted[k].inv = Of(json, book, k).inv =>
                          granted[k].inv = 0 \/ granted[k].part = Of(json, book, k).part
  BY GrantedIs DEF CostInv
<1> HIDE DEF granted, ks
<1>6. kept \subseteq ks
  OBVIOUS
<1>7. \A k \in ks \ kept : granted[k].inv = 0 /\ granted[k].rate = Default /\ granted[k].locked = FALSE
  BY <1>5, QuantitiesNat DEF References!KeepItem, StatusSet
<1>8. /\ DOMAIN items = ((DOMAIN json) \ ks) \cup kept /\ items = [k \in DOMAIN items |-> items[k]]
      /\ \A k \in kept : items[k] = References!Stored(granted[k])
      /\ \A k \in (DOMAIN json) \ ks : items[k] = json[k]
  BY <1>6
<1> HIDE DEF kept, items
<1>9. DOMAIN items \subseteq Keys /\ \A k \in DOMAIN items : items[k] \in StatusSet
  <2>1. \A k \in kept : items[k] \in StatusSet
    BY <1>5, <1>6, <1>8, StoredIs
  <2>2. \A k \in (DOMAIN json) \ ks : items[k] \in StatusSet
    BY <1>8 DEF CostInv, CostTyped
  <2> QED
    BY <1>4, <1>6, <1>8, <2>1, <2>2 DEF CostInv, CostTyped
<1>10. \A k \in kept : /\ items[k].inv = granted[k].inv /\ items[k].part = granted[k].part
                       /\ items[k].rate = References!Normal(granted[k].rate)
                       /\ items[k].locked = granted[k].locked
  BY <1>5, <1>6, <1>8, StoredIs
<1>11. \A k \in Keys \ ks : asked'[k] = asked[k]
  BY <1>2
<1>12. ASSUME NEW k \in Keys, k \notin DOMAIN json
       PROVE  Of(json, book, k).locked = FALSE
  BY <1>12 DEF Of, References!FromBook, References!NoStatus, References!Status
<1>16. ASSUME NEW k \in Keys, asked'[k] = References!Nothing PROVE Kept(k)'
  BY <1>16 DEF Kept, References!Nothing
<1>17. ASSUME NEW k \in Keys, asked'[k] = asked[k], Of(json', book', k) = Of(json, book, k),
              k \in DOMAIN json' <=> k \in DOMAIN json
       PROVE  Kept(k)'
  BY <1>17 DEF CostInv, Kept
<1>13. CASE written = 0
  <2>1. json' = json /\ book' = book /\ (synced' <=> synced) /\ synced' \in BOOLEAN
    <3>1. written # 2 /\ ~(written >= 1) /\ synced \in BOOLEAN
      BY <1>13 DEF CostInv, CostTyped
    <3>2. synced' = synced
      BY <1>2, <1>13, <3>1
    <3> QED
      BY <1>2, <3>1, <3>2
  <2>2. \A k \in ks : asked'[k] = References!Nothing
    BY <1>2, <1>4, <1>13
  <2>3. \A k : Of(json', book', k) = Of(json, book, k)
    BY <2>1
  <2>4. CostTyped' /\ BookAgrees'
    BY <1>3, <2>1, <2>3 DEF CostInv, CostTyped, BookAgrees
  <2>5. ASSUME NEW k \in Keys PROVE Kept(k)'
    <3>1. CASE k \in ks
      BY <1>16, <2>2, <3>1
    <3>2. CASE k \notin ks
      BY <1>11, <1>17, <2>1, <2>3, <3>2
    <3> QED
      BY <3>1, <3>2
  <2> QED
    BY <2>3, <2>4, <2>5
<1>14. CASE written = 1
  <2>1. json' = items /\ book' = book /\ ~synced' /\ synced' \in BOOLEAN
    <3>1. written # 2 /\ written # 0 /\ written >= 1 /\ synced \in BOOLEAN
      BY <1>14 DEF CostInv, CostTyped
    <3>2. synced' = FALSE
      BY <1>2, <3>1
    <3> QED
      BY <1>2, <3>1, <3>2
  <2>2. \A k \in ks : asked'[k] = References!Nothing
    BY <1>2, <1>4, <1>14
  <2>3. CostTyped' /\ BookAgrees'
    BY <1>3, <1>8, <1>9, <2>1 DEF CostInv, CostTyped, BookAgrees
  <2>4. \A k \in Keys \ ks : /\ Of(json', book', k) = Of(json, book, k)
                             /\ k \in DOMAIN json' <=> k \in DOMAIN json
    BY <1>6, <1>8, <2>1 DEF Of
  <2>5. ASSUME NEW k \in Keys PROVE Kept(k)'
    <3>1. CASE k \in ks
      BY <1>16, <2>2, <3>1
    <3>2. CASE k \notin ks
      BY <1>11, <1>17, <2>4, <3>2
    <3> QED
      BY <3>1, <3>2
  <2>6. ASSUME NEW k \in Keys
        PROVE  LET s == Of(json, book, k)
                   t == Of(json', book', k)
               IN \/ t.inv = 0 \/ t.part = s.part \/ t.inv # s.inv
                  \/ k \in (DOMAIN json) \ DOMAIN json'
    <3>1. CASE k \notin ks
      BY <2>4, <3>1
    <3>2. CASE k \in kept
      <4>1. Of(json', book', k) = items[k]
        BY <1>8, <2>1, <3>2 DEF Of
      <4> QED
        BY <1>5, <1>6, <1>10, <3>2, <4>1
    <3>3. CASE k \in ks \ kept
      <4>1. k \notin DOMAIN json'
        BY <1>8, <2>1, <3>3
      <4>2. k \notin DOMAIN json => Of(json', book', k) = Of(json, book, k)
        BY <2>1, <4>1 DEF Of
      <4> QED
        BY <4>1, <4>2
    <3> QED
      BY <3>1, <3>2, <3>3
  <2> QED
    BY <2>3, <2>5, <2>6
<1>15. CASE written = 2
  <2>1. json' = items /\ book' = References!Book(table, items) /\ synced' \in BOOLEAN
    BY <1>2, <1>15
  <2>2. ASSUME NEW k \in ks
        PROVE  /\ asked'[k].inv = granted[k].inv /\ asked'[k].rate = granted[k].rate
               /\ asked'[k].locked = granted[k].locked
    <3>1. asked'[k] = [inv |-> granted[k].inv, rate |-> granted[k].rate,
                       locked |-> granted[k].locked]
      BY <1>2, <1>4, <1>15
    <3> QED
      BY <3>1
  <2>3. CostTyped'
    <3>1. /\ book' = [k \in DOMAIN book' |-> book'[k]] /\ DOMAIN book' \subseteq Keys
          /\ \A k \in DOMAIN book' : book'[k] \in SheetSet
      BY <1>3, <1>9, <2>1, BookIs
    <3> QED
      BY <1>3, <1>8, <1>9, <2>1, <3>1 DEF CostTyped
  <2>4. \A k \in Keys : Shows(table, json', book', k)
    BY <1>3, <1>9, <2>1, BookShows
  <2>5. BookAgrees'
    BY <1>3, <2>4 DEF BookAgrees, References!Rows, Shows
  <2>6. \A k \in kept : Of(json', book', k) = items[k] /\ k \in DOMAIN json'
    BY <1>8, <2>1 DEF Of
  <2>7. \A k \in Keys : k \notin DOMAIN json' =>
            /\ Of(json', book', k).inv = 0 /\ Of(json', book', k).rate = Default
            /\ Of(json', book', k).locked = FALSE
    BY <2>4 DEF Shows
  <2>8. \A k \in Keys \ ks : /\ k \in DOMAIN json' <=> k \in DOMAIN json
                             /\ k \in DOMAIN json => Of(json', book', k) = Of(json, book, k)
    BY <1>6, <1>8, <2>1 DEF Of
  <2>9. \A k \in ks \ kept : k \notin DOMAIN json'
    BY <1>8, <2>1
  <2>10. ASSUME NEW k \in Keys PROVE Kept(k)'
    <3>1. CASE k \in kept
      <4>1. /\ asked'[k].inv = items[k].inv /\ References!Normal(asked'[k].rate) = items[k].rate
            /\ asked'[k].locked = items[k].locked
        <5>1. /\ asked'[k].inv = granted[k].inv /\ asked'[k].rate = granted[k].rate
              /\ asked'[k].locked = granted[k].locked
          BY <1>6, <2>2, <3>1, Zenon
        <5> QED
          BY <1>10, <3>1, <5>1
      <4> QED
        BY <2>6, <3>1, <4>1 DEF Kept
    <3>2. CASE k \in ks \ kept
      <4>1. asked'[k].inv = 0 /\ References!Normal(asked'[k].rate) = Default /\ asked'[k].locked = FALSE
        <5>1. /\ asked'[k].inv = granted[k].inv /\ asked'[k].rate = granted[k].rate
              /\ asked'[k].locked = granted[k].locked
          BY <2>2, <3>2, Zenon
        <5> QED
          BY <1>7, <3>2, <5>1, QuantitiesNat
      <4> QED
        BY <2>7, <2>9, <3>2, <4>1 DEF Kept
    <3>3. CASE k \notin ks
      <4>1. Kept(k) /\ asked'[k] = asked[k]
        BY <1>11, <3>3 DEF CostInv
      <4>2. CASE k \in DOMAIN json
        BY <2>8, <3>3, <4>1, <4>2 DEF Kept
      <4>3. CASE k \notin DOMAIN json
        BY <1>12, <2>7, <2>8, <3>3, <4>1, <4>3 DEF Kept
      <4> QED
        BY <4>2, <4>3
    <3> QED
      BY <3>1, <3>2, <3>3
  <2>11. ASSUME NEW k \in Keys
         PROVE  LET s == Of(json, book, k)
                    t == Of(json', book', k)
                IN t.inv = 0 \/ t.part = s.part \/ t.inv # s.inv
    <3>1. CASE k \in kept
      BY <1>5, <1>6, <1>10, <2>6, <3>1
    <3>2. CASE k \notin DOMAIN json'
      BY <2>7, <3>2
    <3>3. CASE k \in (DOMAIN json) \ ks
      BY <2>8, <3>3
    <3> QED
      BY <1>8, <2>1, <3>1, <3>2, <3>3
  <2> QED
    BY <2>3, <2>5, <2>10, <2>11
<1> QED
  BY <1>13, <1>14, <1>15

-----------------------------------------------------------------------------
LEMMA CostStep ==
  ASSUME References!ConstantsSound, CostInv, [References!Next]_(References!vars)
  PROVE  CostInv'
<1>1. CASE References!Rebuild
  <2>1. CostTyped' /\ BookAgrees'
    BY <1>1, RebuildShows
  <2>2. ASSUME NEW k \in Keys PROVE Kept(k)'
    <3>1. /\ Kept(k) /\ asked'[k] = asked[k]
          /\ SameStatus(Of(json, book, k), Of(json', book', k))
          /\ k \notin DOMAIN json' => k \notin DOMAIN json
      BY <1>1, RebuildShows DEF CostInv, References!Rebuild
    <3> QED
      BY <3>1, KeptStays
  <2> QED
    BY <2>1, <2>2 DEF CostInv
<1>2. CASE References!SaveReferenceStatus
  BY <1>2, SaveShows DEF CostInv
<1>3. CASE References!RefreshSchema
  BY <1>3, RefreshShows DEF CostInv
<1>4. CASE References!LoseStatus
  <2>1. \A k \in Keys : asked'[k] = References!Nothing
    BY <1>4 DEF References!LoseStatus
  <2>2. \A k \in Keys : Kept(k)'
    BY <2>1 DEF Kept, References!Nothing
  <2>3. CostTyped' /\ BookAgrees'
    BY <1>4 DEF References!LoseStatus, CostInv, CostTyped, BookAgrees, References!Empty
  <2> QED
    BY <2>2, <2>3 DEF CostInv
<1>5. CASE UNCHANGED References!vars
  BY <1>5 DEF References!vars, CostInv, CostTyped, BookAgrees, Kept, Of
<1> QED
  BY <1>1, <1>2, <1>3, <1>4, <1>5 DEF References!Next

LEMMA CostInvariant == ASSUME References!ConstantsSound PROVE References!Spec => []CostInv
<1>1. References!Init => CostInv
  BY CostInitially
<1>2. CostInv /\ [References!Next]_(References!vars) => CostInv'
  BY CostStep
<1> QED
  BY <1>1, <1>2, PTL DEF References!Spec

LEMMA ClampedPositive ==
  ASSUME NEW i \in Nat, NEW q \in Nat
  PROVE  References!Clamped(i, q) > 0 => i > 0 /\ References!Clamped(i, q) # 0
<1> References!Clamped(i, q) \in Nat /\ (i = 0 => References!Clamped(i, q) = 0)
  BY ClampedIs
<1> QED
  OBVIOUS

LEMMA ShownIs ==
  ASSUME References!ConstantsSound, CostTyped, NEW k \in References!Rows(table)
  PROVE  LET s == Of(json, book, k)
             inv == References!Clamped(s.inv, table[k].quantity)
         IN /\ References!Shown(k).inv = inv /\ References!Shown(k).part = (IF inv = 0 THEN 0 ELSE s.part)
            /\ References!Shown(k).rate = s.rate /\ References!Shown(k).locked = s.locked
            /\ inv > 0 => s.inv > 0 /\ inv # 0
<1> DEFINE s == Of(json, book, k)
           inv == References!Clamped(s.inv, table[k].quantity)
<1>1. References!StatusFor(k) = s
  BY StatusForIs
<1>2. s.inv \in Nat /\ table[k].quantity \in Nat
  BY OfTyped, QuantitiesNat DEF CostTyped, StatusSet, References!Rows
<1>3. inv > 0 => s.inv > 0 /\ inv # 0
  BY <1>2, ClampedPositive
<1> HIDE DEF s
<1>4. /\ References!Shown(k).inv = inv /\ References!Shown(k).part = (IF inv = 0 THEN 0 ELSE s.part)
      /\ References!Shown(k).rate = s.rate /\ References!Shown(k).locked = s.locked
  BY <1>1 DEF References!Shown
<1> QED
  BY <1>3, <1>4 DEF s

(* What the page lists and the status behind it.                           *)
Showing ==
  \A k \in References!Rows(table) :
     /\ References!StatusFor(k) = Of(json, book, k)
     /\ References!Shown(k).inv > 0 => /\ Of(json, book, k).inv > 0
                                       /\ References!Shown(k).part = Of(json, book, k).part

LEMMA AskedFollows == ASSUME References!ConstantsSound, CostInv PROVE References!AskedShown
<1>1. References!TypeOK
  <2>1. \A k \in DOMAIN json : json[k].inv \in References!Quantities /\ json[k].part >= 0
    BY DEF CostInv, CostTyped, StatusSet
  <2>2. \A k \in DOMAIN book : book[k].inv \in References!Quantities /\ book[k].part >= 0
    BY DEF CostInv, CostTyped, SheetSet
  <2> QED
    BY <2>1, <2>2 DEF References!TypeOK, CostInv, CostTyped, References!Details
<1>2. References!RequestsKept
  <2> SUFFICES ASSUME NEW k \in References!Rows(table), asked[k].inv >= 0
               PROVE  /\ References!Shown(k).inv = References!Clamped(asked[k].inv, table[k].quantity)
                      /\ References!Shown(k).rate = References!Normal(asked[k].rate)
                      /\ References!Shown(k).locked = asked[k].locked
    BY DEF References!RequestsKept
  <2>1. Kept(k)
    BY DEF CostInv, References!Rows
  <2> QED
    BY <2>1, ShownIs DEF CostInv, Kept
<1>3. References!BookAgrees
  BY ShownIs DEF CostInv, BookAgrees, References!BookAgrees
<1> QED
  BY <1>1, <1>2, <1>3 DEF References!AskedShown

(* What the last request that was granted asked for a row is what the row  *)
(* shows from then on, and a workbook that was written to the end shows    *)
(* the same, for any rows, rates and quantities and whatever write of a    *)
(* request or a rebuild was the last one.                                  *)
THEOREM AskedIsShown ==
  ASSUME References!ConstantsSound
  PROVE  References!Spec => []AskedShown
<1>1. CostInv => AskedShown
  BY AskedFollows DEF AskedShown
<1> QED
  BY <1>1, CostInvariant, PTL

(* The amount of what was invoiced changes with its quantity alone: by a   *)
(* request that changes the quantity of the row or takes it off the JSON   *)
(* file, or when that file is lost.                                        *)
THEOREM PartIsKept == ASSUME References!ConstantsSound PROVE References!Spec => PartKept
<1> DEFINE Same == \A k \in References!Rows(table) \cap References!Rows(table)' :
        LET kept == References!Shown(k).inv > 0 /\ References!Shown(k)'.inv > 0 /\ References!Shown(k)'.part # References!Shown(k).part
            asks == References!StatusFor(k)'.inv # References!StatusFor(k).inv \/ k \in (DOMAIN json) \ DOMAIN json'
        IN kept => (asks /\ References!SaveReferenceStatus) \/ References!LoseStatus
<1>1. ASSUME References!ConstantsSound, CostInv, Showing, Showing',
             [References!Next]_(References!vars)
      PROVE [Same]_(References!vars)
  <2> SUFFICES ASSUME References!Next, ~References!LoseStatus,
                      NEW k \in References!Rows(table) \cap References!Rows(table)',
                      References!Shown(k).inv > 0, References!Shown(k)'.inv > 0, References!Shown(k)'.part # References!Shown(k).part
               PROVE  /\ References!StatusFor(k)'.inv # References!StatusFor(k).inv \/ k \in (DOMAIN json) \ DOMAIN json'
                      /\ References!SaveReferenceStatus
    BY <1>1
  <2> DEFINE s == Of(json, book, k)
             t == Of(json', book', k)
  <2>1. References!StatusFor(k) = s /\ References!StatusFor(k)' = t
    BY <1>1 DEF Showing
  <2>2. s.inv > 0 /\ References!Shown(k).part = s.part
    BY <1>1 DEF Showing
  <2>3. t.inv > 0 /\ References!Shown(k)'.part = t.part
    BY <1>1 DEF Showing
  <2>4. k \in Keys /\ t.inv # 0 /\ t.part # s.part
    BY <2>2, <2>3 DEF References!Rows
  <2>5. ~References!Rebuild
    BY <1>1, <2>4, RebuildShows DEF SameStatus
  <2>6. ~References!RefreshSchema
    BY <1>1, <2>4, RefreshShows
  <2>7. References!SaveReferenceStatus
    BY <2>5, <2>6 DEF References!Next
  <2> QED
    BY <1>1, <2>1, <2>4, <2>7, SaveShows
<1>2. References!ConstantsSound /\ CostInv /\ Showing /\ Showing' /\ [References!Next]_(References!vars) => [Same]_(References!vars)
  BY <1>1
<1>4. References!ConstantsSound /\ CostInv => Showing
  BY StatusForIs, ShownIs DEF CostInv, Showing
<1> HIDE DEF Same
<1>3. PartKept <=> [][Same]_(References!vars)
  BY DEF PartKept, References!PartKept, Same
<1> QED
  BY <1>2, <1>3, <1>4, CostInvariant, PTL DEF References!Spec

-----------------------------------------------------------------------------
(* Sums and products over the rows of an item.                            *)

\* g is the product of f over every subset of S, one element after the other.
ProductsOf(f, S, g) ==
    g = [s \in SUBSET S |-> IF s = {} THEN 1
                            ELSE f[CHOOSE x \in s : TRUE] * g[s \ {CHOOSE x \in s : TRUE}]]

\* The product over a set is the value there of the function that multiplies over its subsets.
LEMMA ProductChosen ==
    ASSUME NEW f, NEW S
    PROVE  Product(f, S) = (CHOOSE g : ProductsOf(f, S, g))[S]
  BY DEF Product, FoldFunctionOnSet, MapThenFoldSet, ProductsOf

\* Over a finite set there is a function that multiplies over the subsets.
LEMMA ProductsOfExist ==
    ASSUME NEW f, NEW S, IsFiniteSet(S)
    PROVE  \E g : ProductsOf(f, S, g)
  <1> DEFINE Step(g) == [s \in SUBSET S |->
                            IF s = {} THEN 1
                            ELSE f[CHOOSE x \in s : TRUE] * g[s \ {CHOOSE x \in s : TRUE}]]
             Upto(g, n) == \A s \in SUBSET S : Cardinality(s) <= n => g[s] = Step(g)[s]
             Bad == {n \in Nat : ~ \E g : g = [s \in SUBSET S |-> g[s]] /\ Upto(g, n)}
  <1>1. \A s \in SUBSET S : IsFiniteSet(s) /\ Cardinality(s) \in Nat /\ Cardinality(s) <= Cardinality(S)
    BY FS_Subset, FS_CardinalityType
  <1>2. \A s \in SUBSET S : s # {} =>
           /\ (CHOOSE x \in s : TRUE) \in s
           /\ s \ {CHOOSE x \in s : TRUE} \in SUBSET S
           /\ Cardinality(s \ {CHOOSE x \in s : TRUE}) = Cardinality(s) - 1
           /\ Cardinality(s) # 0
    BY <1>1, FS_RemoveElement, FS_EmptySet
  <1>3. Bad = {}
    <2> SUFFICES ASSUME Bad # {} PROVE FALSE
      OBVIOUS
    <2>a. Bad # {} OBVIOUS
    <2>1. PICK n \in Bad : \A m \in Bad : n <= m
      <3>1. Bad \subseteq Nat /\ Bad # {} BY <2>a
      <3> HIDE DEF Bad
      <3> QED BY <3>1, LeastNatural
    <2>2. CASE n = 0
      <3> DEFINE z == [s \in SUBSET S |-> 1]
      <3>1. Upto(z, 0)
        <4> TAKE s \in SUBSET S
        <4> HAVE Cardinality(s) <= 0
        <4>1. s = {} BY <1>1, FS_EmptySet
        <4> QED BY <4>1
      <3>2. z = [s \in SUBSET S |-> z[s]] OBVIOUS
      <3> HIDE DEF z, Upto
      <3> QED BY <3>1, <3>2, <2>1, <2>2
    <2>3. CASE n # 0
      <3>1. n - 1 \in Nat /\ n \in Nat /\ n - 1 \notin Bad
        <4>1. n \in Nat
          OBVIOUS
        <4> HIDE DEF Bad
        <4>2. n - 1 \in Nat /\ ~ (n <= n - 1)
          BY <4>1, <2>3
        <4> QED BY <4>1, <4>2, <2>1
      <3>2. PICK g : g = [s \in SUBSET S |-> g[s]] /\ Upto(g, n - 1)
        BY <3>1
      <3> DEFINE h == Step(g)
      <3>3. h = [s \in SUBSET S |-> h[s]]
        OBVIOUS
      <3>4. Upto(h, n)
        <4> TAKE s \in SUBSET S
        <4> HAVE Cardinality(s) <= n
        <4>1. CASE s = {}
          BY <4>1
        <4>2. CASE s # {}
          <5> DEFINE t == s \ {CHOOSE x \in s : TRUE}
          <5>1. t \in SUBSET S /\ Cardinality(t) <= n - 1
            BY <1>1, <1>2, <4>2, <3>1
          <5>2. g[t] = h[t]
            BY <3>2, <5>1
          <5>3. h[s] = f[CHOOSE x \in s : TRUE] * g[t]
            BY <4>2
          <5>4. Step(h)[s] = f[CHOOSE x \in s : TRUE] * h[t]
            BY <4>2
          <5> QED BY <5>2, <5>3, <5>4
        <4> QED BY <4>1, <4>2
      <3> HIDE DEF h, Upto
      <3> QED BY <3>1, <3>3, <3>4, <2>1
    <2> QED BY <2>2, <2>3
  <1>4. Cardinality(S) \in Nat BY <1>1
  <1>5. PICK g : g = [s \in SUBSET S |-> g[s]] /\ Upto(g, Cardinality(S))
    BY <1>3, <1>4
  <1>6. g = Step(g)
    <2>1. \A s \in SUBSET S : g[s] = Step(g)[s]
      BY <1>1, <1>5
    <2> QED BY <1>5, <2>1
  <1> QED BY <1>6 DEF ProductsOf

\* What a function that multiplies over the subsets is at a subset.
LEMMA ProductsOfAt ==
    ASSUME NEW f, NEW S, NEW g, ProductsOf(f, S, g)
    PROVE  /\ g[{}] = 1
           /\ \A s \in SUBSET S : s # {} =>
                 g[s] = f[CHOOSE x \in s : TRUE] * g[s \ {CHOOSE x \in s : TRUE}]
  <1> DEFINE step(s) == IF s = {} THEN 1
                        ELSE f[CHOOSE x \in s : TRUE] * g[s \ {CHOOSE x \in s : TRUE}]
  <1>1. g = [s \in SUBSET S |-> step(s)]
    BY DEF ProductsOf
  <1>2. \A s \in SUBSET S : g[s] = step(s)
    <2> HIDE DEF step
    <2> TAKE s \in SUBSET S
    <2>1. [t \in SUBSET S |-> step(t)][s] = step(s)
      OBVIOUS
    <2> QED BY <1>1, <2>1
  <1>3. g[{}] = 1
    <2>1. step({}) = 1
      OBVIOUS
    <2>2. {} \in SUBSET S
      OBVIOUS
    <2> HIDE DEF step
    <2> QED BY <1>2, <2>1, <2>2
  <1>4. ASSUME NEW s \in SUBSET S, s # {}
        PROVE  g[s] = f[CHOOSE x \in s : TRUE] * g[s \ {CHOOSE x \in s : TRUE}]
    <2>1. step(s) = f[CHOOSE x \in s : TRUE] * g[s \ {CHOOSE x \in s : TRUE}]
      BY <1>4
    <2> QED BY <1>2, <2>1
  <1> QED BY <1>3, <1>4

\* A product of positive numbers is positive, and a multiple of each.
LEMMA ProductMultiple ==
    ASSUME NEW f, NEW S, IsFiniteSet(S), \A x \in S : f[x] \in Nat \ {0}
    PROVE  /\ Product(f, S) \in Nat \ {0}
           /\ \A x \in S : \E m \in Nat \ {0} : Product(f, S) = f[x] * m
  <1> DEFINE Is(n, s) == n \in Nat \ {0} /\ \A x \in s : \E m \in Nat \ {0} : n = f[x] * m
  <1>1. PICK g : ProductsOf(f, S, g) /\ Product(f, S) = g[S]
    BY ProductsOfExist, ProductChosen
  <1> DEFINE Q == {s \in SUBSET S : Is(g[s], s)}
  <1>2. ASSUME NEW s \in SUBSET S, \A t \in SUBSET s : t # s => t \in Q
        PROVE  s \in Q
    <2>1. CASE s = {}
      BY <1>1, <2>1, ProductsOfAt
    <2>2. CASE s # {}
      <3> DEFINE c == CHOOSE x \in s : TRUE
      <3>1. c \in s
        BY <2>2
      <3>2. g[s] = f[c] * g[s \ {c}]
        BY <1>1, <2>2, ProductsOfAt
      <3> HIDE DEF c
      <3>3. Is(g[s \ {c}], s \ {c}) /\ f[c] \in Nat \ {0}
        BY <1>2, <3>1
      <3>4. PICK a, b : a = f[c] /\ b = g[s \ {c}]
        OBVIOUS
      <3>5. a \in Nat \ {0} /\ b \in Nat \ {0} /\ g[s] = a * b /\ a * b \in Nat \ {0}
        <4>1. a \in Nat \ {0} /\ b \in Nat \ {0} /\ g[s] = a * b
          BY <3>2, <3>3, <3>4
        <4>2. a * b \in Nat \ {0}
          BY <4>1
        <4> QED BY <4>1, <4>2
      <3>6. ASSUME NEW x \in s
            PROVE  \E m \in Nat \ {0} : g[s] = f[x] * m
        <4>1. CASE x = c
          BY <3>4, <3>5, <4>1
        <4>2. CASE x # c
          <5>1. PICK m \in Nat \ {0} : b = f[x] * m
            BY <3>3, <3>4, <4>2
          <5>2. PICK v \in Nat \ {0} : v = f[x]
            OBVIOUS
          <5>3. a * m \in Nat \ {0} /\ a * (v * m) = v * (a * m)
            BY <3>5
          <5> QED BY <3>5, <5>1, <5>2, <5>3
        <4> QED BY <4>1, <4>2
      <3> QED BY <3>5, <3>6
    <2> QED BY <2>1, <2>2
  <1> HIDE DEF Q
  <1>3. S \in Q
    BY <1>2, SubsetInduction
  <1> QED BY <1>1, <1>3 DEF Q

\* A sum of multiples.
LEMMA SumScale ==
    ASSUME NEW c \in Int, NEW f, NEW h, NEW S, IsFiniteSet(S), \A x \in S : f[x] \in Int /\ h[x] = c * f[x]
    PROVE  SumFunctionOnSet(h, S) = c * SumFunctionOnSet(f, S)
  <1> DEFINE Q == {s \in SUBSET S : SumFunctionOnSet(h, s) = c * SumFunctionOnSet(f, s)}
  <1>1. ASSUME NEW s \in SUBSET S, \A t \in SUBSET s : t # s => t \in Q
        PROVE  s \in Q
    <2>1. CASE s = {}
      BY <2>1, SumEmpty
    <2>2. CASE s # {}
      <3>1. PICK x \in s : TRUE
        BY <2>2
      <3>2. IsFiniteSet(s) /\ IsFiniteSet(s \ {x})
        BY FS_Subset
      <3>3. \A y \in s : f[y] \in Int /\ h[y] \in Int
        OBVIOUS
      <3>4. SumFunctionOnSet(f, s) = f[x] + SumFunctionOnSet(f, s \ {x})
        BY <3>2, <3>3, SumStep
      <3>5. SumFunctionOnSet(h, s) = h[x] + SumFunctionOnSet(h, s \ {x})
        BY <3>2, <3>3, SumStep
      <3>6. SumFunctionOnSet(h, s \ {x}) = c * SumFunctionOnSet(f, s \ {x})
        BY <1>1, <3>1
      <3>7. SumFunctionOnSet(f, s \ {x}) \in Int
        BY <3>2, <3>3, SumInt
      <3>8. PICK a \in Int, b \in Int : a = f[x] /\ b = SumFunctionOnSet(f, s \ {x})
        BY <3>1, <3>7
      <3>9. c * a + c * b = c * (a + b)
        OBVIOUS
      <3> QED BY <3>1, <3>4, <3>5, <3>6, <3>8, <3>9
    <2> QED BY <2>1, <2>2
  <1> HIDE DEF Q
  <1>2. S \in Q
    BY <1>1, SubsetInduction
  <1> QED BY <1>2 DEF Q

\* A sum is no more than one of values that are no less, and it is less if they all are more.
LEMMA SumLess ==
    ASSUME NEW f, NEW h, NEW S, IsFiniteSet(S), S # {}, \A x \in S : f[x] \in Int /\ h[x] \in Int /\ f[x] < h[x]
    PROVE  SumFunctionOnSet(f, S) < SumFunctionOnSet(h, S)
  <1> DEFINE Q == {s \in SUBSET S : s # {} => SumFunctionOnSet(f, s) < SumFunctionOnSet(h, s)}
  <1>1. ASSUME NEW s \in SUBSET S, \A t \in SUBSET s : t # s => t \in Q
        PROVE  s \in Q
    <2> SUFFICES ASSUME s # {} PROVE SumFunctionOnSet(f, s) < SumFunctionOnSet(h, s)
      OBVIOUS
    <2>1. PICK x \in s : TRUE
      OBVIOUS
    <2>2. IsFiniteSet(s) /\ IsFiniteSet(s \ {x})
      BY FS_Subset
    <2>3. \A y \in s : f[y] \in Int /\ h[y] \in Int
      OBVIOUS
    <2>4. SumFunctionOnSet(f, s) = f[x] + SumFunctionOnSet(f, s \ {x})
      BY <2>2, <2>3, SumStep
    <2>5. SumFunctionOnSet(h, s) = h[x] + SumFunctionOnSet(h, s \ {x})
      BY <2>2, <2>3, SumStep
    <2>6. SumFunctionOnSet(f, s \ {x}) \in Int /\ SumFunctionOnSet(h, s \ {x}) \in Int
      BY <2>2, <2>3, SumInt
    <2>7. SumFunctionOnSet(f, s \ {x}) <= SumFunctionOnSet(h, s \ {x})
      <3>1. CASE s \ {x} = {}
        BY <3>1, SumEmpty
      <3>2. CASE s \ {x} # {}
        BY <1>1, <2>1, <2>6, <3>2
      <3> QED BY <3>1, <3>2
    <2>8. PICK a \in Int, b \in Int, u \in Int, v \in Int :
              /\ a = f[x] /\ b = SumFunctionOnSet(f, s \ {x})
              /\ u = h[x] /\ v = SumFunctionOnSet(h, s \ {x})
      BY <2>1, <2>3, <2>6
    <2>9. a < u /\ b <= v
      BY <2>1, <2>7, <2>8
    <2> QED BY <2>4, <2>5, <2>8, <2>9
  <1> HIDE DEF Q
  <1>2. S \in Q
    BY <1>1, SubsetInduction
  <1> QED BY <1>2 DEF Q

\* The sum of a value over every element.
LEMMA SumConstant ==
    ASSUME NEW c \in Int, NEW f, NEW S, IsFiniteSet(S), \A x \in S : f[x] = c
    PROVE  SumFunctionOnSet(f, S) = Cardinality(S) * c
  <1> DEFINE Q == {s \in SUBSET S : SumFunctionOnSet(f, s) = Cardinality(s) * c}
  <1>1. ASSUME NEW s \in SUBSET S, \A t \in SUBSET s : t # s => t \in Q
        PROVE  s \in Q
    <2>1. CASE s = {}
      BY <2>1, SumEmpty, FS_EmptySet
    <2>2. CASE s # {}
      <3>1. PICK x \in s : TRUE
        BY <2>2
      <3>2. IsFiniteSet(s)
        BY FS_Subset
      <3>3. SumFunctionOnSet(f, s) = f[x] + SumFunctionOnSet(f, s \ {x})
        BY <3>2, SumStep
      <3>4. Cardinality(s \ {x}) = Cardinality(s) - 1 /\ Cardinality(s) \in Nat
        BY <3>1, <3>2, FS_RemoveElement, FS_CardinalityType
      <3>5. SumFunctionOnSet(f, s \ {x}) = Cardinality(s \ {x}) * c
        BY <1>1, <3>1
      <3>6. PICK n \in Nat : n = Cardinality(s)
        BY <3>4
      <3>7. c + (n - 1) * c = n * c
        OBVIOUS
      <3> QED BY <3>1, <3>3, <3>4, <3>5, <3>6, <3>7
    <2> QED BY <2>1, <2>2
  <1> HIDE DEF Q
  <1>2. S \in Q
    BY <1>1, SubsetInduction
  <1> QED BY <1>2 DEF Q

-----------------------------------------------------------------------------
(* The analysis of invoices (CostDetail).                                  *)

\* The least file of a set.
LEMMA LeastFile ==
  ASSUME ConstantsSound, NEW T \in SUBSET Files, T # {}
  PROVE  Min(T) \in T /\ \A f \in T : Min(T) <= f
<1>1. \E f \in T : \A g \in T : f <= g
  BY LeastNatural DEF ConstantsSound
<1> QED
  BY <1>1 DEF Min

\* A file has one family, which is that of every other file in it.
LEMMA FamilyIs ==
  ASSUME NEW F \in Families, NEW f \in F
  PROVE  /\ f \in Files /\ F = Family(f) /\ F \subseteq Files
         /\ \A g \in F : FamilyKey(g) = FamilyKey(f)
BY DEF Families, Family

\* A file is in its family.
LEMMA FamilyHas ==
  ASSUME NEW f \in Files
  PROVE  f \in Family(f) /\ Family(f) \in Families
BY DEF Families, Family

\* The score of a reading, and when it is full.
LEMMA ScoreIs ==
  ASSUME NEW rows, NEW h
  PROVE  /\ Score(rows, h) \in 0..2
         /\ Score(rows, h) = 2 <=> Agrees(rows, "amount", h.amount) /\ Agrees(rows, "tax", h.tax)
BY DEF Score

\* The score of a reading weighs more than the rest of its rank.
LEMMA RankIs ==
  ASSUME NEW f
  PROVE  /\ Rank(f) \in Int
         /\ Rank(f) - 16 * Score(RowsOf(f), head[f]) \in 0..14
<1>1. Score(RowsOf(f), head[f]) \in 0..2
  BY ScoreIs
<1>2. Flag(RowsOf(f) # <<>>) \in 0..1 /\ Flag(~Failed(f)) \in 0..1
  BY DEF Flag
<1>3. Priority(f) \in 0..2
  BY DEF Priority
<1>4. PICK a \in 0..2, b \in 0..1, c \in 0..1, d \in 0..2 :
         /\ a = Score(RowsOf(f), head[f]) /\ b = Flag(RowsOf(f) # <<>>)
         /\ c = Flag(~Failed(f)) /\ d = Priority(f)
  BY <1>1, <1>2, <1>3
<1>5. Rank(f) = 16 * a + 8 * b + 4 * c + 2 - d
  BY <1>4 DEF Rank
<1>6. 16 * a + 8 * b + 4 * c + 2 - d \in Int /\ (16 * a + 8 * b + 4 * c + 2 - d) - 16 * a \in 0..14
  <2>1. a \in Int /\ b \in Int /\ c \in Int /\ d \in Int /\ 0 <= b /\ b <= 1 /\ 0 <= c /\ c <= 1 /\ 0 <= d /\ d <= 2
    OBVIOUS
  <2> QED
    BY <2>1
<1> QED
  BY ONLY <1>4, <1>5, <1>6

\* The file selected is of the family, and none of it was read better.
LEMMA SelectedIs ==
  ASSUME ConstantsSound, NEW F \in Families
  PROVE  /\ Selected(F) \in F
         /\ \A f \in F : Score(RowsOf(f), head[f]) <= Score(RowsOf(Selected(F)), head[Selected(F)])
<1> DEFINE R == {Rank(f) : f \in F}
           T == {f \in F : \A g \in F : Rank(g) <= Rank(f)}
<1>1. F # {} /\ F \subseteq Files /\ IsFiniteSet(F)
  BY FS_Subset DEF ConstantsSound, Families, Family
<1>2. IsFiniteSet(R) /\ R # {} /\ R \subseteq Int
  <2>1. IsFiniteSet(R)
    <3> DEFINE r == [f \in F |-> Rank(f)]
    <3>1. r \in Surjection(F, R)
      BY DEF Surjection
    <3> HIDE DEF r, R
    <3> QED
      BY <1>1, <3>1, FS_Surjection
  <2> QED
    BY <1>1, <2>1, RankIs
<1>3. T # {}
  <2>1. PICK n \in R : \A m \in R : m <= n
    <3> HIDE DEF R
    <3> QED
      BY <1>2, GreatestExists
  <2> QED
    BY <2>1
<1>4. Selected(F) = Min(T)
  BY DEF Selected
<1>5. Selected(F) \in T
  <2>1. T \subseteq Files
    BY <1>1
  <2> HIDE DEF T
  <2> QED
    BY <1>3, <1>4, <2>1, LeastFile
<1>6. ASSUME NEW f \in F
      PROVE  Score(RowsOf(f), head[f]) <= Score(RowsOf(Selected(F)), head[Selected(F)])
  <2>1. PICK s : s = Selected(F)
    OBVIOUS
  <2>2. Rank(f) <= Rank(s)
    BY <1>5, <2>1
  <2>3. /\ Rank(f) \in Int /\ Rank(f) - 16 * Score(RowsOf(f), head[f]) \in 0..14
        /\ Rank(s) \in Int /\ Rank(s) - 16 * Score(RowsOf(s), head[s]) \in 0..14
        /\ Score(RowsOf(f), head[f]) \in 0..2 /\ Score(RowsOf(s), head[s]) \in 0..2
    BY RankIs, ScoreIs
  <2>4. PICK a \in 0..2, b \in 0..2, x \in Int, y \in Int :
           /\ a = Score(RowsOf(f), head[f]) /\ b = Score(RowsOf(s), head[s])
           /\ x = Rank(f) /\ y = Rank(s)
    BY <2>3
  <2>5. x <= y /\ x - 16 * a \in 0..14 /\ y - 16 * b \in 0..14
    BY <2>2, <2>3, <2>4
  <2>6. a <= b
    BY <2>5
  <2> QED
    BY <2>1, <2>4, <2>6
<1> QED
  BY <1>5, <1>6

\* What is read of a file stays, as its files do.
LEMMA FactsStay ==
  ASSUME UNCHANGED facts
  PROVE  /\ \A f : RowsOf(f)' = RowsOf(f) /\ Failed(f)' = Failed(f) /\ FamilyKey(f)' = FamilyKey(f)
         /\ \A f : Family(f)' = Family(f) /\ Rank(f)' = Rank(f) /\ Status(f)' = Status(f)
         /\ Families' = Families /\ \A F : Selected(F)' = Selected(F) /\ Numbers(F)' = Numbers(F)
         /\ \A S : Ticked(S)' = Ticked(S) /\ \A texts : Readable(texts)' = Readable(texts)
<1>1. UNCHANGED <<names, number, page, head>>
  BY DEF facts
<1>2. \A f : RowsOf(f)' = RowsOf(f) /\ Failed(f)' = Failed(f)
  BY <1>1 DEF RowsOf, Failed
<1>3. \A f : FamilyKey(f)' = FamilyKey(f)
  BY <1>1 DEF FamilyKey
<1>4. \A f : Family(f)' = Family(f)
  BY <1>3 DEF Family
<1>5. \A f : Rank(f)' = Rank(f) /\ Status(f)' = Status(f)
  BY <1>1, <1>2 DEF Rank, Status, Priority
<1>6. Families' = Families
  BY <1>4 DEF Families
<1>7. \A F : Selected(F)' = Selected(F)
  BY <1>5 DEF Selected
<1>8. \A F : Numbers(F)' = Numbers(F)
  BY <1>1 DEF Numbers
<1>9. \A S : Ticked(S)' = Ticked(S)
  BY <1>4 DEF Ticked
<1>10. \A texts : Readable(texts)' = Readable(texts)
  BY <1>2 DEF Readable
<1> QED
  BY <1>2, <1>3, <1>4, <1>5, <1>6, <1>7, <1>8, <1>9, <1>10

-----------------------------------------------------------------------------
AnalysisOf(f) == [of |-> f, source |-> names[f], status |-> Status(f)]
LinesOf(f) == {Line(f, RowsOf(f)[k]) : k \in DOMAIN RowsOf(f)}

\* The rows of a file are in the detail one after another, and nowhere else.
Placed(f) ==
  \E s \in Nat :
     /\ \A k \in DOMAIN RowsOf(f) : s + k \in DOMAIN detail /\ detail[s + k] = Line(f, RowsOf(f)[k])
     /\ \A i \in DOMAIN detail : detail[i].of = f => i - s \in DOMAIN RowsOf(f)

\* A file whose rows are shown was selected in a family that is done.
Done(f) == f \in Files /\ f = Selected(Family(f)) /\ Family(f) \notin left

Shown == {detail[i].of : i \in DOMAIN detail}
Analysed == {analyses[i].of : i \in DOMAIN analyses}

Checked == [i \in DOMAIN analyses |-> Passes(analyses[i])]
Reply(S) == [asked |-> S, rows |-> Breakdown(S), projects |-> Projects(Breakdown(S))]

DetailSound ==
  /\ left \subseteq Families
  /\ analyses \in Seq({AnalysisOf(f) : f \in Files})
  /\ detail \in Seq(UNION {LinesOf(f) : f \in Files})
  /\ \A f \in Analysed : Done(f) /\ Placed(f)
  /\ \A f \in Shown : Done(f)

\* What was checked and answered is of the whole detail, which is made once.
ShownSound ==
  /\ checks # <<>> => left = {} /\ checks = Checked
  /\ answer # NoAnswer => left = {} /\ \E S \in SUBSET Files : answer = Reply(S)

DetailInv(texts) == Readable(texts) /\ DetailSound /\ ShownSound

\* Nothing is analysed at first.
LEMMA DetailInitially ==
  ASSUME NEW texts, Init, Readable(texts)
  PROVE  DetailInv(texts)
BY DEF Init, DetailInv, DetailSound, ShownSound, Shown, Analysed

\* Sequences one after another.
LEMMA Joined ==
  ASSUME NEW S, NEW a \in Seq(S), NEW b \in Seq(S)
  PROVE  /\ a \o b \in Seq(S) /\ Len(a) \in Nat
         /\ \A i \in DOMAIN a : i \in DOMAIN (a \o b) /\ (a \o b)[i] = a[i]
         /\ \A k \in DOMAIN b : Len(a) + k \in DOMAIN (a \o b) /\ (a \o b)[Len(a) + k] = b[k]
         /\ \A i \in DOMAIN (a \o b) : i \in DOMAIN a \/ i - Len(a) \in DOMAIN b
OBVIOUS

\* The rows that a file adds.
LEMMA RowsAdded ==
  ASSUME NEW texts, Readable(texts), NEW f \in Files
  PROVE  /\ [i \in DOMAIN RowsOf(f) |-> Line(f, RowsOf(f)[i])] \in Seq(UNION {LinesOf(g) : g \in Files})
         /\ DOMAIN [i \in DOMAIN RowsOf(f) |-> Line(f, RowsOf(f)[i])] = DOMAIN RowsOf(f)
<1> DEFINE R == [name : texts, amount : {None} \cup Int, tax : {None} \cup Int, quantity : {None} \cup Int]
           V == UNION {LinesOf(g) : g \in Files}
<1>1. PICK rows \in Seq(R) : rows = RowsOf(f)
  BY DEF Readable
<1>2. DOMAIN rows = 1..Len(rows) /\ Len(rows) \in Nat
  OBVIOUS
<1>3. \A i \in DOMAIN rows : Line(f, rows[i]) \in V
  BY <1>1 DEF LinesOf
<1> HIDE DEF R, V
<1>4. [i \in DOMAIN rows |-> Line(f, rows[i])] \in Seq(V)
  BY <1>2, <1>3
<1> QED
  BY <1>1, <1>4 DEF V

\* A file that is analysed adds its rows; those that are there stay where they are.
LEMMA AnalyseKeeps ==
  ASSUME ConstantsSound, NEW texts, DetailInv(texts), NEW F \in left, Analyse(F)
  PROVE  DetailInv(texts)'
<1>1. UNCHANGED facts /\ UNCHANGED <<checks, answer>> /\ left' = left \ {F}
  BY DEF Analyse
<1>2. Readable(texts)'
  BY <1>1, FactsStay DEF DetailInv
<1>3. ShownSound'
  <2>1. checks = <<>> /\ answer = NoAnswer
    BY DEF DetailInv, ShownSound
  <2> QED
    BY <1>1, <2>1 DEF ShownSound
<1>4. PICK f : f = Selected(F)
  OBVIOUS
<1>5. f \in F /\ f \in Files /\ F = Family(f) /\ F \in Families
  <2>1. F \in Families
    BY DEF DetailInv, DetailSound
  <2>2. f \in F
    BY <1>4, <2>1, SelectedIs
  <2> QED
    BY <2>1, <2>2, FamilyIs
<1> DEFINE V == UNION {LinesOf(g) : g \in Files}
           more == [i \in DOMAIN RowsOf(f) |-> Line(f, RowsOf(f)[i])]
           A == {AnalysisOf(g) : g \in Files}
<1>6. analyses' = Append(analyses, AnalysisOf(f)) /\ detail' = detail \o more
  BY <1>4 DEF Analyse, AnalysisOf
<1>7. analyses \in Seq(A) /\ detail \in Seq(V) /\ more \in Seq(V) /\ DOMAIN more = DOMAIN RowsOf(f)
  BY <1>5, RowsAdded DEF DetailInv, DetailSound
<1>8. A' = A /\ V' = V
  <2>1. UNCHANGED <<names, number>>
    BY <1>1 DEF facts
  <2>2. \A g : AnalysisOf(g)' = AnalysisOf(g)
    BY <1>1, <2>1, FactsStay DEF AnalysisOf
  <2>3. \A g : LinesOf(g)' = LinesOf(g)
    <3>1. \A g : RowsOf(g)' = RowsOf(g)
      BY <1>1, FactsStay
    <3> QED
      BY <2>1, <3>1 DEF LinesOf, Line
  <2> QED
    BY <2>2, <2>3
<1>9. \A i \in DOMAIN more : more[i] = Line(f, RowsOf(f)[i]) /\ more[i].of = f
  BY DEF Line
<1>10. \A g : UNCHANGED <<RowsOf(g), Family(g), Selected(Family(g))>>
  BY <1>1, FactsStay
<1>11. \A g, r : Line(g, r)' = Line(g, r)
  BY <1>1 DEF Line, facts
<1>12. \A g : Done(g) => Done(g)' /\ g # f
  BY <1>1, <1>5, <1>10 DEF Done
<1>13. Done(f)'
  BY <1>1, <1>4, <1>5, <1>10 DEF Done
<1> HIDE DEF A, V, more
<1>14. PICK n \in Nat : /\ n = Len(detail) /\ detail' \in Seq(V)
                        /\ \A i \in DOMAIN detail : i \in DOMAIN detail' /\ detail'[i] = detail[i]
                        /\ \A k \in DOMAIN more : n + k \in DOMAIN detail' /\ detail'[n + k] = more[k]
                        /\ \A i \in DOMAIN detail' : i \in DOMAIN detail \/ i - n \in DOMAIN more
  BY <1>6, <1>7, Joined
<1>15. \A i \in DOMAIN detail' : i \in Int
  BY <1>14
<1>16. \A i \in DOMAIN detail' : i \in DOMAIN detail \/ detail'[i].of = f
  BY <1>9, <1>14, <1>15
<1>17. \A i \in DOMAIN detail : Done(detail[i].of) /\ detail[i].of # f
  BY <1>12 DEF DetailInv, DetailSound, Shown
<1>18. \A g \in Shown' : Done(g)'
  <2>1. Shown' \subseteq Shown \union {f}
    BY <1>14, <1>16 DEF Shown
  <2>2. \A g \in Shown : Done(g)
    BY DEF DetailInv, DetailSound
  <2> QED
    BY <1>12, <1>13, <2>1, <2>2
<1>19. \A g : Done(g) /\ Placed(g) => Placed(g)'
  <2> SUFFICES ASSUME NEW g, Done(g), Placed(g) PROVE Placed(g)'
    OBVIOUS
  <2>1. g # f /\ RowsOf(g)' = RowsOf(g)
    BY <1>10, <1>12
  <2>2. PICK s \in Nat :
           /\ \A k \in DOMAIN RowsOf(g) : s + k \in DOMAIN detail /\ detail[s + k] = Line(g, RowsOf(g)[k])
           /\ \A i \in DOMAIN detail : detail[i].of = g => i - s \in DOMAIN RowsOf(g)
    BY DEF Placed
  <2>3. \A k \in DOMAIN RowsOf(g) : s + k \in DOMAIN detail' /\ detail'[s + k] = Line(g, RowsOf(g)[k])
    BY <1>14, <2>2
  <2>4. \A i \in DOMAIN detail' : detail'[i].of = g => i - s \in DOMAIN RowsOf(g)
    BY <1>14, <1>16, <2>1, <2>2
  <2> QED
    BY <1>11, <2>1, <2>3, <2>4 DEF Placed
<1>20. Placed(f)'
  <2>1. \A k \in DOMAIN RowsOf(f) : n + k \in DOMAIN detail' /\ detail'[n + k] = Line(f, RowsOf(f)[k])
    BY <1>7, <1>9, <1>14
  <2>2. \A i \in DOMAIN detail' : detail'[i].of = f => i - n \in DOMAIN RowsOf(f)
    BY <1>7, <1>14, <1>17
  <2> QED
    BY <1>10, <1>11, <2>1, <2>2 DEF Placed
<1>21. analyses' \in Seq(A) /\ \A i \in DOMAIN analyses' : \/ i \in DOMAIN analyses /\ analyses'[i] = analyses[i]
                                                          \/ analyses'[i] = AnalysisOf(f)
  <2>1. AnalysisOf(f) \in A
    BY <1>5 DEF A
  <2> QED
    BY <1>6, <1>7, <2>1
<1>22. \A g \in Analysed' : Done(g)' /\ Placed(g)'
  <2>1. Analysed' \subseteq Analysed \union {f}
    BY <1>21 DEF Analysed, AnalysisOf
  <2>2. \A g \in Analysed : Done(g) /\ Placed(g)
    BY DEF DetailInv, DetailSound
  <2> QED
    BY <1>12, <1>13, <1>19, <1>20, <2>1, <2>2
<1>23. left' \subseteq Families'
  BY <1>1, FactsStay DEF DetailInv, DetailSound
<1>24. DetailSound'
  BY <1>8, <1>14, <1>18, <1>21, <1>22, <1>23 DEF DetailSound, A, V
<1> QED
  BY <1>2, <1>3, <1>24 DEF DetailInv

\* What is checked and answered of a detail stays as long as the detail does.
LEMMA DetailStays ==
  ASSUME UNCHANGED <<facts, left, analyses, detail>>
  PROVE  /\ DetailSound => DetailSound'
         /\ Checked' = Checked /\ \A S : Reply(S)' = Reply(S)
<1>1. UNCHANGED <<facts, left, analyses, detail>> /\ UNCHANGED <<names, number, page, head>>
  BY DEF facts
<1>2. /\ \A g : RowsOf(g)' = RowsOf(g) /\ Family(g)' = Family(g) /\ Status(g)' = Status(g)
      /\ Families' = Families /\ \A F : Selected(F)' = Selected(F) /\ Numbers(F)' = Numbers(F)
      /\ \A S : Ticked(S)' = Ticked(S)
  BY <1>1, FactsStay
<1>3. DetailSound => DetailSound'
  <2> SUFFICES ASSUME DetailSound PROVE DetailSound'
    OBVIOUS
  <2>1. \A g : AnalysisOf(g)' = AnalysisOf(g)
    BY <1>1, <1>2 DEF AnalysisOf
  <2>2. \A g : LinesOf(g)' = LinesOf(g)
    BY <1>1, <1>2 DEF LinesOf, Line
  <2>3. \A g : Done(g)' = Done(g)
    BY <1>1, <1>2 DEF Done
  <2>4. \A g : Placed(g)' = Placed(g)
    BY <1>1, <1>2 DEF Placed, Line
  <2>5. Shown' = Shown /\ Analysed' = Analysed
    BY <1>1 DEF Shown, Analysed
  <2> QED
    BY <1>1, <1>2, <2>1, <2>2, <2>3, <2>4, <2>5 DEF DetailSound
<1>4. Checked' = Checked
  <2>1. \A a : Passes(a)' = Passes(a)
    BY <1>1 DEF Passes, CheckedRows
  <2> QED
    BY <1>1, <2>1 DEF Checked
<1>5. \A F : Matched(F)' = Matched(F)
  BY <1>1, <1>2 DEF Matched
<1>6. \A S : Breakdown(S)' = Breakdown(S)
  <2>1. \A F, S : NewRows(F, S)' = NewRows(F, S)
    BY <1>2, <1>5 DEF NewRows
  <2> QED
    BY <1>2, <2>1 DEF Breakdown
<1>7. \A taken : Projects(taken)' = Projects(taken)
  <2>1. \A taken, item : ItemRows(taken, item)' = ItemRows(taken, item)
    BY <1>1 DEF ItemRows
  <2>2. \A taken, item : Project(taken, item)' = Project(taken, item)
    BY <2>1 DEF Project
  <2> QED
    BY <1>1, <2>2 DEF Projects
<1>8. \A S : Reply(S)' = Reply(S)
  BY <1>6, <1>7 DEF Reply
<1> QED
  BY <1>3, <1>4, <1>8

\* The check is made of the whole detail.
LEMMA ChecksKeep ==
  ASSUME NEW texts, DetailInv(texts), Check
  PROVE  DetailInv(texts)'
<1>1. UNCHANGED <<facts, left, analyses, detail>> /\ UNCHANGED answer
  BY DEF Check
<1>2. /\ DetailSound' /\ Readable(texts)'
      /\ Checked' = Checked /\ \A S : Reply(S)' = Reply(S)
  BY <1>1, DetailStays, FactsStay DEF DetailInv
<1>3. checks' = Checked /\ left = {}
  BY DEF Check, Checked
<1>4. ShownSound'
  BY <1>1, <1>2, <1>3 DEF DetailInv, ShownSound
<1> QED
  BY <1>2, <1>4 DEF DetailInv

\* An answer is made of the whole detail, which stays.
LEMMA AskKeeps ==
  ASSUME NEW texts, DetailInv(texts), NEW S \in SUBSET Files, Ask(S)
  PROVE  DetailInv(texts)'
<1>1. UNCHANGED <<facts, left, analyses, detail>> /\ UNCHANGED checks
  BY DEF Ask
<1>2. /\ DetailSound' /\ Readable(texts)'
      /\ Checked' = Checked /\ \A T : Reply(T)' = Reply(T)
  BY <1>1, DetailStays, FactsStay DEF DetailInv
<1>3. answer' = Reply(S) /\ checks # <<>>
  BY DEF Ask, Reply
<1>4. ShownSound'
  BY <1>1, <1>2, <1>3 DEF DetailInv, ShownSound
<1> QED
  BY <1>2, <1>4 DEF DetailInv

\* The invariant of the analysis is inductive.
LEMMA DetailStep ==
  ASSUME ConstantsSound, NEW texts, DetailInv(texts), [Next]_vars
  PROVE  DetailInv(texts)'
<1>1. CASE \E F \in left : Analyse(F)
  BY <1>1, AnalyseKeeps
<1>2. CASE Check
  BY <1>2, ChecksKeep
<1>3. CASE \E S \in (SUBSET Files) \ {{}} : Ask(S)
  BY <1>3, AskKeeps
<1>4. CASE UNCHANGED vars
  <2>1. UNCHANGED <<facts, left, analyses, detail>> /\ UNCHANGED <<checks, answer>>
    BY <1>4 DEF vars
  <2>2. /\ DetailSound' /\ Readable(texts)'
        /\ Checked' = Checked /\ \A S : Reply(S)' = Reply(S)
    BY <2>1, DetailStays, FactsStay DEF DetailInv
  <2>3. ShownSound'
    BY <2>1, <2>2 DEF DetailInv, ShownSound
  <2> QED
    BY <2>2, <2>3 DEF DetailInv
<1> QED
  BY <1>1, <1>2, <1>3, <1>4 DEF Next

-----------------------------------------------------------------------------
\* What is taken is a family that was ticked and a new row of it.
LEMMA BreakdownIs ==
  ASSUME NEW S \in SUBSET Files
  PROVE  \A p \in Breakdown(S) : /\ p[1] \in Ticked(S) /\ p[2] \in DOMAIN detail
                                 /\ p[2] \in NewRows(p[1], S) /\ p = <<p[1], p[2]>>
<1>1. \A F : Matched(F) \subseteq DOMAIN detail
  BY DEF Matched
<1>2. \A F : NewRows(F, S) \subseteq DOMAIN detail
  BY <1>1 DEF NewRows
<1> QED
  BY <1>2 DEF Breakdown

\* Everything shown is of files that were scanned.
LEMMA DetailTyped ==
  ASSUME NEW texts, DetailInv(texts)
  PROVE  TypeOK
<1>1. \A i \in DOMAIN analyses : analyses[i].of \in Files /\ analyses[i].status \in {"ok", "needs_review", "failed"}
  <2> SUFFICES ASSUME NEW i \in DOMAIN analyses
               PROVE  analyses[i].of \in Files /\ analyses[i].status \in {"ok", "needs_review", "failed"}
    OBVIOUS
  <2>1. PICK f \in Files : analyses[i] = AnalysisOf(f)
    BY DEF DetailInv, DetailSound
  <2> QED
    BY <2>1 DEF AnalysisOf, Status
<1>2. \A i \in DOMAIN detail : detail[i].of \in Files
  BY DEF DetailInv, DetailSound, Shown, Done
<1>3. answer.asked \subseteq Files /\ \A p \in answer.rows : p[2] \in DOMAIN detail
  <2>1. CASE answer = NoAnswer
    BY <2>1 DEF NoAnswer
  <2>2. CASE answer # NoAnswer
    <3>1. PICK S \in SUBSET Files : answer = Reply(S)
      BY <2>2 DEF DetailInv, ShownSound
    <3> QED
      BY <3>1, BreakdownIs DEF Reply
  <2> QED
    BY <2>1, <2>2
<1> QED
  BY <1>1, <1>2, <1>3 DEF TypeOK, DetailInv, DetailSound

\* Each invoice is read from one file, the best of its family.
LEMMA BestIsChosen ==
  ASSUME ConstantsSound, NEW texts, DetailInv(texts)
  PROVE  BestChosen
<1>1. ASSUME NEW i \in DOMAIN detail, NEW j \in DOMAIN detail,
             FamilyKey(detail[i].of) = FamilyKey(detail[j].of)
      PROVE  detail[i].of = detail[j].of
  <2>1. PICK f, g : f = detail[i].of /\ g = detail[j].of
    OBVIOUS
  <2>2. f = Selected(Family(f)) /\ g = Selected(Family(g))
    BY <2>1 DEF DetailInv, DetailSound, Shown, Done
  <2>3. Family(f) = Family(g)
    BY <1>1, <2>1 DEF Family
  <2> QED
    BY <2>1, <2>2, <2>3
<1>2. ASSUME NEW i \in DOMAIN analyses, NEW f \in Family(analyses[i].of)
      PROVE  Score(RowsOf(f), head[f]) <= Score(RowsOf(analyses[i].of), head[analyses[i].of])
  <2>1. PICK g : g = analyses[i].of
    OBVIOUS
  <2>2. g \in Files /\ g = Selected(Family(g))
    BY <2>1 DEF DetailInv, DetailSound, Analysed, Done
  <2>3. Family(g) \in Families
    BY <2>2, FamilyHas
  <2>4. PICK F \in Families : F = Family(g)
    BY <2>3
  <2>5. f \in F /\ Selected(F) = g
    BY <1>2, <2>1, <2>2, <2>4
  <2> QED
    BY <2>1, <2>5, SelectedIs
<1> QED
  BY <1>1, <1>2 DEF BestChosen

\* A sum over places that are some others' moved is that over the others.
LEMMA SumMoved ==
  ASSUME NEW K, IsFiniteSet(K), NEW s \in Int, \A k \in K : k \in Int, NEW D, D = {s + k : k \in K},
         NEW a, NEW b, \A k \in K : b[k] \in Int /\ a[s + k] = b[k]
  PROVE  SumFunctionOnSet(a, D) = SumFunctionOnSet(b, K)
<1> DEFINE h == [k \in K |-> s + k]
           c == [k \in K |-> a[h[k]]]
<1>1. D = {h[k] : k \in K} /\ \A k, m \in K : h[k] = h[m] => k = m
  <2>1. \A k \in K : h[k] = s + k
    OBVIOUS
  <2>2. ASSUME NEW k \in K, NEW m \in K, h[k] = h[m]
        PROVE  k = m
    <3>1. k \in Int /\ m \in Int /\ s + k = s + m
      <4>1. h[k] = s + k /\ h[m] = s + m
        BY <2>1
      <4> HIDE DEF h
      <4> QED
        BY <2>2, <4>1
    <3> QED
      BY ONLY <3>1, s \in Int
  <2>3. {h[k] : k \in K} = {s + k : k \in K}
    <3> HIDE DEF h
    <3> QED
      BY <2>1
  <2> QED
    BY <2>2, <2>3
<1>2. \A k \in K : a[h[k]] \in Int
  OBVIOUS
<1>3. \A k \in K : c[k] = b[k]
  OBVIOUS
<1>4. SumFunctionOnSet(a, {h[k] : k \in K}) = SumFunctionOnSet(c, K)
  <2> HIDE DEF h
  <2> QED
    BY <1>1, <1>2, SumImage
<1>5. SumFunctionOnSet(c, K) = SumFunctionOnSet(b, K)
  <2> HIDE DEF c
  <2> QED
    BY <1>3, SumEqual
<1> QED
  BY <1>1, <1>4, <1>5

\* Where names differ, the rows that are checked for a file are its rows.
LEMMA CheckedAre ==
  ASSUME NEW texts, DetailInv(texts), NamesDiffer, NEW f \in Analysed
  PROVE  \E s \in Nat : CheckedRows(AnalysisOf(f)) =
                            [i \in {s + k : k \in DOMAIN RowsOf(f)} |-> RowsOf(f)[i - s]]
<1>1. Done(f) /\ Placed(f)
  BY DEF DetailInv, DetailSound
<1>2. PICK s \in Nat :
         /\ \A k \in DOMAIN RowsOf(f) : s + k \in DOMAIN detail /\ detail[s + k] = Line(f, RowsOf(f)[k])
         /\ \A i \in DOMAIN detail : detail[i].of = f => i - s \in DOMAIN RowsOf(f)
  BY <1>1 DEF Placed
<1> DEFINE D == {s + k : k \in DOMAIN RowsOf(f)}
           E == {i \in DOMAIN detail : detail[i].source = names[f]}
<1>3. \A i \in DOMAIN detail : i \in Nat /\ detail[i].of \in Files /\ detail[i].source = names[detail[i].of]
  <2> SUFFICES ASSUME NEW i \in DOMAIN detail
               PROVE  i \in Nat /\ detail[i].of \in Files /\ detail[i].source = names[detail[i].of]
    OBVIOUS
  <2>1. detail[i] \in UNION {LinesOf(g) : g \in Files} /\ i \in Nat
    BY DEF DetailInv, DetailSound
  <2>2. PICK g \in Files : \E k \in DOMAIN RowsOf(g) : detail[i] = Line(g, RowsOf(g)[k])
    BY <2>1 DEF LinesOf
  <2> QED
    BY <2>1, <2>2 DEF Line
<1>4. \A k \in DOMAIN RowsOf(f) : k \in Nat
  BY <1>1 DEF DetailInv, Readable, Done
<1>5. E = D
  <2>1. \A i \in E : i \in D
    <3> SUFFICES ASSUME NEW i \in E PROVE i \in D
      OBVIOUS
    <3>1. i \in Nat /\ detail[i].of = f
      BY <1>1, <1>3 DEF NamesDiffer, Done
    <3>2. i - s \in DOMAIN RowsOf(f) /\ i = s + (i - s)
      BY <1>2, <3>1
    <3> QED
      BY <3>2
  <2>2. \A k \in DOMAIN RowsOf(f) : s + k \in E
    <3> SUFFICES ASSUME NEW k \in DOMAIN RowsOf(f) PROVE s + k \in E
      OBVIOUS
    <3>1. PICK i : i = s + k
      OBVIOUS
    <3>2. i \in DOMAIN detail /\ detail[i] = Line(f, RowsOf(f)[k])
      BY <1>2, <3>1
    <3>3. detail[i].source = names[f]
      BY <3>2 DEF Line
    <3> QED
      BY <3>1, <3>2, <3>3
  <2> QED
    BY <2>1, <2>2
<1>6. \A i \in D : detail[i].row = RowsOf(f)[i - s]
  <2> SUFFICES ASSUME NEW k \in DOMAIN RowsOf(f) PROVE detail[s + k].row = RowsOf(f)[(s + k) - s]
    OBVIOUS
  <2>1. (s + k) - s = k
    BY <1>4
  <2>2. PICK i : i = s + k
    OBVIOUS
  <2>3. detail[i] = Line(f, RowsOf(f)[k])
    BY <1>2, <2>2
  <2>4. detail[i].row = RowsOf(f)[k]
    BY <2>3 DEF Line
  <2> QED
    BY <2>1, <2>2, <2>4
<1>7. CheckedRows(AnalysisOf(f)) = [i \in D |-> RowsOf(f)[i - s]]
  <2>1. AnalysisOf(f).source = names[f]
    BY DEF AnalysisOf
  <2>2. CheckedRows(AnalysisOf(f)) = [i \in E |-> detail[i].row]
    BY <2>1 DEF CheckedRows
  <2> HIDE DEF D, E
  <2> QED
    BY <1>5, <1>6, <2>2
<1> QED
  BY <1>7

\* A column that agrees with a header in rows that were moved does so in the rows.
LEMMA MovedAgrees ==
  ASSUME NEW rows, NEW K, K = DOMAIN rows, IsFiniteSet(K), \A k \in K : k \in Int, NEW s \in Int,
         NEW D, D = {s + k : k \in K}, NEW moved, moved = [i \in D |-> rows[i - s]], NEW c,
         \A k \in K : rows[k][c] \in {None} \cup Int, NEW total, Agrees(moved, c, total)
  PROVE  /\ K # {} /\ \A k \in K : rows[k][c] # None
         /\ Sum(rows, c) - total \in -2..2
<1>1. DOMAIN moved = D /\ \A k \in K : s + k \in D /\ moved[s + k] = rows[k]
  OBVIOUS
<1>2. D # {} /\ \A i \in D : moved[i][c] # None
  BY <1>1 DEF Agrees, Complete, Present
<1>3. K # {} /\ \A k \in K : rows[k][c] # None /\ rows[k][c] \in Int
  BY <1>1, <1>2
<1>4. Present(moved, c) = D /\ Present(rows, c) = K
  BY <1>1, <1>2, <1>3 DEF Present
<1> DEFINE a == [i \in D |-> moved[i][c]]
           b == [k \in K |-> rows[k][c]]
<1>5. Sum(moved, c) = SumFunctionOnSet(a, D) /\ Sum(rows, c) = SumFunctionOnSet(b, K)
  BY <1>1, <1>4 DEF Sum
<1>6. \A k \in K : b[k] \in Int /\ a[s + k] = b[k]
  BY <1>1, <1>3
<1>7. SumFunctionOnSet(a, D) = SumFunctionOnSet(b, K)
  <2> HIDE DEF a, b
  <2> QED
    BY <1>6, SumMoved
<1>8. Sum(moved, c) - total \in -2..2
  BY DEF Agrees
<1> QED
  BY <1>3, <1>5, <1>7, <1>8

\* A check that passes is true of the rows of the file, where names differ.
LEMMA ChecksAreTrue ==
  ASSUME NEW texts, DetailInv(texts)
  PROVE  PassesTrue
<1> SUFFICES ASSUME NamesDiffer, NEW i \in DOMAIN checks, checks[i]
             PROVE  /\ RowsOf(analyses[i].of) # <<>>
                    /\ \A k \in DOMAIN RowsOf(analyses[i].of) :
                          /\ RowsOf(analyses[i].of)[k].amount # None
                          /\ RowsOf(analyses[i].of)[k].tax # None
                    /\ Sum(RowsOf(analyses[i].of), "amount") - head[analyses[i].of].amount \in -2..2
  BY DEF PassesTrue, ChecksOwnRows
<1>1. checks = Checked /\ i \in DOMAIN analyses /\ Passes(analyses[i])
  <2>1. checks = Checked
    <3>1. checks # <<>>
      OBVIOUS
    <3> QED
      BY <3>1 DEF DetailInv, ShownSound
  <2> QED
    BY <2>1 DEF Checked
<1>2. PICK f \in Files : analyses[i] = AnalysisOf(f) /\ f = analyses[i].of /\ f \in Analysed
  <2>1. PICK f \in Files : analyses[i] = AnalysisOf(f)
    BY <1>1 DEF DetailInv, DetailSound
  <2> QED
    BY <1>1, <2>1 DEF AnalysisOf, Analysed
<1>3. PICK rows : rows = RowsOf(f)
  OBVIOUS
<1>4. /\ IsFiniteSet(DOMAIN rows) /\ \A k \in DOMAIN rows : k \in Int
      /\ \A k \in DOMAIN rows : rows[k].amount \in {None} \cup Int /\ rows[k].tax \in {None} \cup Int
  <2> DEFINE R == [name : texts, amount : {None} \cup Int, tax : {None} \cup Int, quantity : {None} \cup Int]
  <2>1. rows \in Seq(R)
    BY <1>3 DEF DetailInv, Readable
  <2>2. DOMAIN rows = 1..Len(rows) /\ Len(rows) \in Nat
    BY <2>1
  <2>3. IsFiniteSet(DOMAIN rows)
    BY <2>2, FS_Interval
  <2>4. ASSUME NEW k \in DOMAIN rows
        PROVE  rows[k].amount \in {None} \cup Int /\ rows[k].tax \in {None} \cup Int
    <3> HIDE DEF R
    <3>1. rows[k] \in R
      BY <2>1, <2>2
    <3> QED
      BY <3>1 DEF R
  <2>5. \A k \in DOMAIN rows : k \in Int
    BY <2>2
  <2> QED
    BY <2>3, <2>4, <2>5
<1>5. PICK s \in Nat : CheckedRows(AnalysisOf(f)) = [j \in {s + k : k \in DOMAIN rows} |-> rows[j - s]]
  <2>1. \E s \in Nat : CheckedRows(AnalysisOf(f)) =
                            [j \in {s + k : k \in DOMAIN RowsOf(f)} |-> RowsOf(f)[j - s]]
    BY <1>2, CheckedAre
  <2> QED
    BY <1>3, <2>1
<1> DEFINE D == {s + k : k \in DOMAIN rows}
<1>6. PICK moved : moved = [j \in D |-> rows[j - s]] /\ moved = CheckedRows(AnalysisOf(f))
  BY <1>5
<1>7. Agrees(moved, "amount", head[f].amount) /\ Agrees(moved, "tax", head[f].tax)
  BY <1>1, <1>2, <1>6, ScoreIs DEF Passes
<1>8. PICK K, E, h : K = DOMAIN rows /\ E = D /\ h = head[f]
  OBVIOUS
<1>9. /\ K = DOMAIN rows /\ IsFiniteSet(K) /\ (\A k \in K : k \in Int) /\ s \in Int
      /\ E = {s + k : k \in K} /\ moved = [j \in E |-> rows[j - s]]
      /\ \A k \in K : rows[k]["amount"] \in {None} \cup Int
      /\ \A k \in K : rows[k]["tax"] \in {None} \cup Int
      /\ Agrees(moved, "amount", h.amount) /\ Agrees(moved, "tax", h.tax)
  BY <1>4, <1>5, <1>6, <1>7, <1>8
<1>10. /\ K # {} /\ \A k \in K : rows[k]["amount"] # None
       /\ Sum(rows, "amount") - h.amount \in -2..2
  BY ONLY <1>9, MovedAgrees
<1>11. \A k \in K : rows[k]["tax"] # None
  BY ONLY <1>9, MovedAgrees
<1>12. RowsOf(f) # <<>>
  BY <1>3, <1>8, <1>10
<1> QED
  BY <1>2, <1>3, <1>8, <1>10, <1>11, <1>12

\* A row of the detail is a row of the file it is of.
LEMMA DetailRow ==
  ASSUME NEW texts, DetailInv(texts), NEW i \in DOMAIN detail
  PROVE  /\ i \in Nat /\ detail[i].of \in Files
         /\ detail[i].source = names[detail[i].of] /\ detail[i].number = number[detail[i].of]
         /\ detail[i].row.amount \in {None} \cup Int /\ detail[i].row.quantity \in {None} \cup Int
<1> DEFINE R == [name : texts, amount : {None} \cup Int, tax : {None} \cup Int, quantity : {None} \cup Int]
<1>1. detail[i] \in UNION {LinesOf(g) : g \in Files} /\ i \in Nat
  BY DEF DetailInv, DetailSound
<1>2. PICK g \in Files : \E k \in DOMAIN RowsOf(g) : detail[i] = Line(g, RowsOf(g)[k])
  BY <1>1 DEF LinesOf
<1>3. PICK k \in DOMAIN RowsOf(g) : detail[i] = Line(g, RowsOf(g)[k])
  BY <1>2
<1>4. RowsOf(g)[k] \in R
  <2>1. RowsOf(g) \in Seq(R)
    BY DEF DetailInv, Readable
  <2> HIDE DEF R
  <2> QED
    BY <2>1
<1>5. PICK r \in R : detail[i] = Line(g, r)
  BY <1>3, <1>4
<1>6. r.amount \in {None} \cup Int /\ r.quantity \in {None} \cup Int
  OBVIOUS
<1> HIDE DEF R
<1> QED
  BY <1>1, <1>5, <1>6 DEF Line

\* The numbers of a set of files are keys of its files.
LEMMA NumbersAre ==
  ASSUME NEW T, NEW n \in Numbers(T)
  PROVE  n # None /\ \E f \in T : FamilyKey(f) = n
BY DEF Numbers, FamilyKey

\* Where names differ, a row matched is of an invoice of one of the files.
LEMMA MatchedIs ==
  ASSUME NEW texts, DetailInv(texts), NEW T \in SUBSET Files, NEW i \in Matched(T)
  PROVE  /\ i \in DOMAIN detail
         /\ NamesDiffer => \E f \in T : FamilyKey(f) = FamilyKey(detail[i].of)
<1>1. i \in DOMAIN detail
  BY DEF Matched
<1>2. PICK g \in Files : g = detail[i].of /\ detail[i].source = names[g] /\ detail[i].number = number[g]
  BY <1>1, DetailRow
<1>3. CASE detail[i].number \in Numbers(T)
  <2>1. number[g] # None /\ \E f \in T : FamilyKey(f) = number[g]
    BY <1>2, <1>3, NumbersAre
  <2> QED
    BY <1>1, <1>2, <2>1 DEF FamilyKey
<1>4. CASE detail[i].source \in {names[f] : f \in T}
  BY <1>1, <1>2, <1>4 DEF NamesDiffer
<1> QED
  BY <1>3, <1>4 DEF Matched

\* The families of ticked files share none, and none is empty.
LEMMA TickedAre ==
  ASSUME ConstantsSound, NEW S \in SUBSET Files
  PROVE  /\ \A F \in Ticked(S) : F \in SUBSET Files /\ F \subseteq S /\ F # {} /\ Min(F) \in F /\ Min(F) \in Nat
         /\ \A F, G \in Ticked(S) : F \cap G # {} => F = G
         /\ IsFiniteSet(Ticked(S))
<1>1. ASSUME NEW F \in Ticked(S)
      PROVE  /\ F \in SUBSET Files /\ F \subseteq S /\ F # {} /\ Min(F) \in F /\ Min(F) \in Nat
             /\ \A x \in F : F = Family(x) \cap S
  <2>1. PICK f \in S : F = Family(f) \cap S
    BY DEF Ticked
  <2>2. f \in F /\ F \in SUBSET Files /\ F \subseteq S
    BY <2>1, FamilyHas
  <2>3. Min(F) \in F
    BY <2>2, LeastFile
  <2>4. \A x \in F : F = Family(x) \cap S
    BY <2>1 DEF Family
  <2> QED
    BY <2>2, <2>3, <2>4 DEF ConstantsSound
<1>2. \A F, G \in Ticked(S) : F \cap G # {} => F = G
  BY <1>1
<1>3. IsFiniteSet(Ticked(S))
  <2>1. IsFiniteSet(S) /\ IsFiniteSet(SUBSET S)
    BY FS_Subset, FS_SUBSET DEF ConstantsSound
  <2>2. Ticked(S) \subseteq SUBSET S
    BY <1>1
  <2> QED
    BY <2>1, <2>2, FS_Subset
<1> QED
  BY <1>1, <1>2, <1>3

\* A row is taken for one family.
LEMMA TakenOnce ==
  ASSUME ConstantsSound, NEW S \in SUBSET Files,
         NEW p \in Breakdown(S), NEW q \in Breakdown(S), p[2] = q[2]
  PROVE  p = q
<1>1. PICK F, G, i : F \in Ticked(S) /\ G \in Ticked(S) /\ F = p[1] /\ G = q[1] /\ i = p[2]
  BY BreakdownIs
<1>2. i \in NewRows(F, S) /\ i \in NewRows(G, S) /\ p = <<F, i>> /\ q = <<G, i>>
  BY <1>1, BreakdownIs
<1>3. ~ (Min(F) < Min(G)) /\ ~ (Min(G) < Min(F))
  BY <1>1, <1>2 DEF NewRows
<1>4. Min(F) \in Nat /\ Min(G) \in Nat /\ Min(F) \in F /\ Min(G) \in G
  BY <1>1, TickedAre
<1>5. Min(F) = Min(G)
  BY <1>3, <1>4
<1>6. F \cap G # {}
  BY <1>4, <1>5
<1>7. F = G
  BY <1>1, <1>6, TickedAre
<1> QED
  BY <1>2, <1>7

\* The rows of an invoice are matched by the files of its whole family.
LEMMA WholeMatched ==
  ASSUME ConstantsSound, NEW texts, DetailInv(texts), NEW i \in DOMAIN detail
  PROVE  i \in Matched(Family(detail[i].of))
<1>1. PICK g \in Files : g = detail[i].of /\ detail[i].source = names[g] /\ detail[i].number = number[g]
  BY DetailRow
<1>2. PICK F : F = Family(g)
  OBVIOUS
<1>3. g \in F /\ F \in SUBSET Files /\ \A h \in F : FamilyKey(h) = FamilyKey(g)
  BY <1>2, FamilyHas DEF Family
<1>4. CASE number[g] # None
  <2>1. number[g] \in Numbers(F)
    BY <1>3, <1>4 DEF Numbers
  <2> QED
    BY <1>1, <1>2, <2>1 DEF Matched
<1>5. CASE number[g] = None
  <2>1. ASSUME NEW j \in DOMAIN detail, detail[j].number \in Numbers(F)
        PROVE  FALSE
    <3>1. PICK h \in Files : h = detail[j].of /\ detail[j].number = number[h]
      BY DetailRow
    <3>2. number[h] # None /\ \E f \in F : FamilyKey(f) = number[h]
      BY <2>1, <3>1, NumbersAre
    <3>3. FamilyKey(h) = FamilyKey(g)
      BY <1>3, <3>2 DEF FamilyKey
    <3>4. h = g
      BY <1>1, <3>1, <3>3, BestIsChosen DEF BestChosen
    <3> QED
      BY <1>5, <3>2, <3>4
  <2>2. detail[i].source \in {names[f] : f \in F}
    BY <1>1, <1>3
  <2> QED
    BY <1>1, <1>2, <2>1, <2>2 DEF Matched
<1> QED
  BY <1>4, <1>5

\* A row that a family of ticked files has is taken for the first that has it.
LEMMA MatchedTaken ==
  ASSUME ConstantsSound, NEW S \in SUBSET Files, NEW F \in Ticked(S), NEW i \in Matched(F)
  PROVE  \E G \in Ticked(S) : <<G, i>> \in Breakdown(S)
<1> DEFINE T == {G \in Ticked(S) : i \in Matched(G)}
           M == {Min(G) : G \in T}
<1>1. M # {} /\ M \subseteq Nat
  BY TickedAre
<1>2. PICK m \in M : \A n \in M : m <= n
  <2> HIDE DEF M
  <2> QED
    BY <1>1, LeastNatural
<1>3. PICK G \in T : m = Min(G)
  OBVIOUS
<1>4. \A H \in Ticked(S) : Min(H) < Min(G) => i \notin Matched(H)
  <2> SUFFICES ASSUME NEW H \in Ticked(S), Min(H) < Min(G), i \in Matched(H) PROVE FALSE
    OBVIOUS
  <2>1. m <= Min(H)
    BY <1>2
  <2>2. m \in Nat /\ Min(H) \in Nat
    BY TickedAre
  <2> QED
    BY <1>3, <2>1, <2>2
<1>5. i \in NewRows(G, S)
  BY <1>4 DEF NewRows
<1> QED
  BY <1>5 DEF Breakdown

\* A selection has each row of its invoices once.
LEMMA SelectionIsOnce ==
  ASSUME ConstantsSound, NEW texts, DetailInv(texts)
  PROVE  SelectionOnce
<1> DEFINE of(S) == {i \in DOMAIN detail : FamilyKey(detail[i].of) \in {FamilyKey(f) : f \in S}}
           taken == {p[2] : p \in answer.rows}
<1> SUFFICES ASSUME answer # NoAnswer
             PROVE  /\ \A p, q \in answer.rows : p[2] = q[2] => p = q
                    /\ NamesDiffer => taken \subseteq of(answer.asked)
                    /\ of({f \in answer.asked : Family(f) \subseteq answer.asked}) \subseteq taken
  BY DEF SelectionOnce
<1>1. PICK S \in SUBSET Files : answer = Reply(S)
  BY DEF DetailInv, ShownSound
<1>2. answer.asked = S /\ answer.rows = Breakdown(S)
  BY <1>1 DEF Reply
<1>3. \A p, q \in answer.rows : p[2] = q[2] => p = q
  BY <1>2, TakenOnce
<1>4. ASSUME NamesDiffer, NEW p \in Breakdown(S)
      PROVE  p[2] \in of(S)
  <2>1. p[1] \in Ticked(S) /\ p[2] \in NewRows(p[1], S)
    BY BreakdownIs
  <2>2. PICK F, i : F \in Ticked(S) /\ i = p[2] /\ i \in Matched(F)
    BY <2>1 DEF NewRows
  <2>3. F \in SUBSET Files /\ F \subseteq S
    BY <2>2, TickedAre
  <2>4. i \in DOMAIN detail /\ \E f \in F : FamilyKey(f) = FamilyKey(detail[i].of)
    BY <1>4, <2>2, <2>3, MatchedIs
  <2>5. FamilyKey(detail[i].of) \in {FamilyKey(f) : f \in S}
    BY <2>3, <2>4
  <2>6. i \in of(S)
    BY <2>4, <2>5
  <2> HIDE DEF of
  <2> QED
    BY <2>2, <2>6
<1>5. ASSUME NEW i \in of({f \in S : Family(f) \subseteq S})
      PROVE  i \in taken
  <2>1. PICK f \in S : Family(f) \subseteq S /\ FamilyKey(detail[i].of) = FamilyKey(f)
    OBVIOUS
  <2>2. Family(detail[i].of) = Family(f)
    BY <2>1 DEF Family
  <2>3. Family(f) \in Ticked(S)
    <3>1. Family(f) = Family(f) \cap S
      BY <2>1
    <3> QED
      BY <3>1 DEF Ticked
  <2>4. i \in DOMAIN detail
    OBVIOUS
  <2>5. i \in Matched(Family(f))
    BY <2>2, <2>4, WholeMatched
  <2>6. PICK G \in Ticked(S) : <<G, i>> \in Breakdown(S)
    BY <2>3, <2>5, MatchedTaken
  <2> QED
    BY <1>2, <2>6
<1> QED
  BY <1>2, <1>3, <1>4, <1>5

\* The amount of rows over their quantity is no less and no more than every price of a row.
LEMMA WeightedBetween ==
  ASSUME NEW D, IsFiniteSet(D), D # {}, NEW f, NEW q,
         \A k \in D : f[k] \in Int /\ q[k] \in Int
  PROVE  /\ \E k \in D : SumFunctionOnSet(f, D) * q[k] >= f[k] * SumFunctionOnSet(q, D)
         /\ \E k \in D : SumFunctionOnSet(f, D) * q[k] <= f[k] * SumFunctionOnSet(q, D)
<1>a. PICK A, Q : A = SumFunctionOnSet(f, D) /\ Q = SumFunctionOnSet(q, D)
  OBVIOUS
<1> DEFINE u == [k \in D |-> A * q[k]]
           v == [k \in D |-> f[k] * Q]
<1>1. A \in Int /\ Q \in Int
  BY <1>a, SumInt
<1>2. \A k \in D : u[k] = A * q[k] /\ v[k] = Q * f[k] /\ v[k] = f[k] * Q /\ u[k] \in Int /\ v[k] \in Int
  BY <1>1
<1> HIDE DEF u, v
<1>3. SumFunctionOnSet(u, D) = A * Q
  BY <1>a, <1>1, <1>2, SumScale
<1>4. SumFunctionOnSet(v, D) = Q * A
  BY <1>a, <1>1, <1>2, SumScale
<1>5. A * Q = Q * A /\ A * Q \in Int /\ Q * A \in Int
  BY <1>1
<1>6. ~ (SumFunctionOnSet(u, D) < SumFunctionOnSet(v, D)) /\ ~ (SumFunctionOnSet(v, D) < SumFunctionOnSet(u, D))
  BY <1>3, <1>4, <1>5
<1>7. \E k \in D : ~ (u[k] < v[k])
  BY <1>2, <1>6, SumLess
<1>8. \E k \in D : ~ (v[k] < u[k])
  BY <1>2, <1>6, SumLess
<1> QED
  BY <1>a, <1>1, <1>2, <1>7, <1>8

\* The mean of prices, as parts of a multiple of the quantities, is between them as well.
LEMMA MeanBetween ==
  ASSUME NEW D, IsFiniteSet(D), D # {}, NEW f, NEW q, NEW C \in Int, NEW P,
         \A k \in D : f[k] \in Int /\ q[k] \in Nat \ {0} /\ P[k] \in Int /\ P[k] * q[k] = f[k] * C
  PROVE  /\ \E k \in D : SumFunctionOnSet(P, D) * q[k] >= f[k] * (Cardinality(D) * C)
         /\ \E k \in D : SumFunctionOnSet(P, D) * q[k] <= f[k] * (Cardinality(D) * C)
<1>a. PICK T, n : T = SumFunctionOnSet(P, D) /\ n = Cardinality(D)
  OBVIOUS
<1> DEFINE u == [k \in D |-> T]
           v == [k \in D |-> n * P[k]]
<1>1. ASSUME NEW k \in D
      PROVE  P[k] \in Int /\ f[k] * (n * C) = (n * P[k]) * q[k] /\ (n * P[k]) \in Int /\ n \in Int
  <2>1. n \in Int
    BY <1>a, FS_CardinalityType
  <2>2. PICK a \in Int, b \in Int, e \in Int : a = f[k] /\ b = q[k] /\ e = P[k]
    OBVIOUS
  <2>3. e * b = a * C
    BY <2>2
  <2>4. a * (n * C) = n * (a * C) /\ n * (e * b) = (n * e) * b
    BY <2>1
  <2> QED
    BY <2>1, <2>2, <2>3, <2>4
<1>2. T \in Int /\ n \in Int
  BY <1>a, <1>1, SumInt, FS_CardinalityType
<1>3. \A k \in D : u[k] = T /\ v[k] = n * P[k] /\ u[k] \in Int /\ v[k] \in Int
  BY <1>1, <1>2
<1> HIDE DEF u, v
<1>4. SumFunctionOnSet(u, D) = n * T
  BY <1>a, <1>2, <1>3, SumConstant
<1>5. SumFunctionOnSet(v, D) = n * T
  BY <1>a, <1>1, <1>2, <1>3, SumScale
<1>6. n * T \in Int
  BY <1>2
<1>7. PICK k \in D : ~ (u[k] < v[k])
  BY <1>3, <1>4, <1>5, <1>6, SumLess
<1>8. PICK l \in D : ~ (v[l] < u[l])
  BY <1>3, <1>4, <1>5, <1>6, SumLess
<1>9. \A t, x \in Int, b \in Nat \ {0} : /\ ~ (t < x) => t * b >= x * b
                                         /\ ~ (x < t) => t * b <= x * b
  OBVIOUS
<1>10. T * q[k] >= (n * P[k]) * q[k]
  BY <1>1, <1>2, <1>3, <1>7, <1>9
<1>11. T * q[l] <= (n * P[l]) * q[l]
  BY <1>1, <1>2, <1>3, <1>8, <1>9
<1> QED
  BY <1>a, <1>1, <1>10, <1>11

\* The prices of rows that may lack values.
LEMMA PricesAre ==
  ASSUME NEW rows, NEW D, D = DOMAIN rows, IsFiniteSet(D), D # {},
         \A k \in D : rows[k].amount \in {None} \cup Int /\ rows[k].quantity \in {None} \cup Int,
         NEW price \in {Weighted(rows), Mean(rows)} \ {None}
  PROVE  /\ \A k \in D : rows[k].amount # None /\ rows[k].quantity # None
         /\ \E k \in D : price[1] * rows[k].quantity >= rows[k].amount * price[2]
         /\ \E k \in D : price[1] * rows[k].quantity <= rows[k].amount * price[2]
         /\ Weighted(rows)[1] = Sum(rows, "amount")
<1>1. Priced(rows)
  BY DEF Weighted, Mean
<1>2. \A k \in D : /\ k \in Present(rows, "amount") /\ k \in Present(rows, "quantity")
                   /\ rows[k].amount >= 0 /\ rows[k].quantity > 0
  BY <1>1 DEF Priced, Usable
<1>3. \A k \in D : rows[k].amount # None /\ rows[k].quantity # None
  BY <1>2 DEF Present
<1>4. \A k \in D : rows[k].amount \in Int /\ rows[k].quantity \in Int /\ rows[k].quantity \in Nat \ {0}
  BY <1>2, <1>3
<1>5. Present(rows, "amount") = D /\ Present(rows, "quantity") = D
  BY <1>2 DEF Present
<1> DEFINE f == [k \in D |-> rows[k].amount]
           q == [k \in D |-> rows[k].quantity]
           A == SumFunctionOnSet(f, D)
           Q == SumFunctionOnSet(q, D)
<1>6. Sum(rows, "amount") = A /\ Sum(rows, "quantity") = Q
  BY <1>5 DEF Sum
<1>7. \A k \in D : f[k] = rows[k].amount /\ q[k] = rows[k].quantity
  OBVIOUS
<1>8. Weighted(rows) = <<A, Q>>
  BY <1>1, <1>6 DEF Weighted
<1> DEFINE C == Product(q, D)
           P == [k \in D |-> rows[k].amount * (C \div rows[k].quantity)]
           T == SumFunctionOnSet(P, D)
           n == Cardinality(D)
<1>9. Mean(rows) = <<T, n * C>>
  BY <1>1 DEF Mean, Prices, Common
<1>10. \A k \in D : P[k] = f[k] * (C \div q[k])
  BY <1>7
<1>11. \A k \in D : f[k] \in Int /\ q[k] \in Int /\ q[k] \in Nat \ {0}
  BY <1>4, <1>7
<1> HIDE DEF f, q, A, Q, C, P, T, n
<1>12. PICK a, b, c, d, t, m, g, h : /\ a = A /\ b = Q /\ c = C /\ d = P /\ t = T /\ m = n
                                     /\ g = f /\ h = q
  OBVIOUS
<1>13. /\ a = SumFunctionOnSet(g, D) /\ b = SumFunctionOnSet(h, D)
       /\ c = Product(h, D) /\ t = SumFunctionOnSet(d, D) /\ m = Cardinality(D)
  BY <1>12 DEF A, Q, C, T, n
<1>14. /\ \A k \in D : g[k] \in Int /\ h[k] \in Int /\ h[k] \in Nat \ {0}
       /\ \A k \in D : d[k] = g[k] * (c \div h[k])
       /\ \A k \in D : g[k] = rows[k].amount /\ h[k] = rows[k].quantity
  BY <1>7, <1>10, <1>11, <1>12
<1>15. Weighted(rows)[1] = Sum(rows, "amount")
  BY <1>6, <1>8
<1>16. CASE price = <<a, b>>
  <2>1. /\ \E k \in D : a * h[k] >= g[k] * b
        /\ \E k \in D : a * h[k] <= g[k] * b
    <3>1. \A k \in D : g[k] \in Int /\ h[k] \in Int
      BY <1>14
    <3> QED
      BY <3>1, <1>13, WeightedBetween
  <2>2. price[1] = a /\ price[2] = b
    BY <1>16
  <2>3. /\ \E k \in D : price[1] * rows[k].quantity >= rows[k].amount * price[2]
        /\ \E k \in D : price[1] * rows[k].quantity <= rows[k].amount * price[2]
    BY <1>14, <2>1, <2>2
  <2> QED
    BY <1>3, <1>15, <2>3
<1>17. CASE price = <<t, m * c>>
  <2>1. c \in Nat \ {0} /\ \A k \in D : \E w \in Nat \ {0} : c = h[k] * w
    BY <1>13, <1>14, ProductMultiple
  <2>2. ASSUME NEW k \in D
        PROVE  g[k] \in Int /\ h[k] \in Nat \ {0} /\ d[k] \in Int /\ d[k] * h[k] = g[k] * c
    <3>1. PICK w \in Nat \ {0}, x \in Int, y \in Nat \ {0} : c = y * w /\ x = g[k] /\ y = h[k]
      BY <1>14, <2>1
    <3>2. (y * w) \div y = w
      OBVIOUS
    <3>3. d[k] = x * w
      BY <1>14, <3>1, <3>2
    <3>4. (x * w) * y = x * (y * w) /\ x * w \in Int
      OBVIOUS
    <3> QED
      BY <1>14, <3>1, <3>3, <3>4
  <2>3. c \in Int /\ \A k \in D : g[k] \in Int /\ h[k] \in Nat \ {0} /\ d[k] \in Int /\ d[k] * h[k] = g[k] * c
    BY <2>1, <2>2
  <2>4. /\ \E k \in D : t * h[k] >= g[k] * (m * c)
        /\ \E k \in D : t * h[k] <= g[k] * (m * c)
    <3>1. /\ \E k \in D : SumFunctionOnSet(d, D) * h[k] >= g[k] * (Cardinality(D) * c)
          /\ \E k \in D : SumFunctionOnSet(d, D) * h[k] <= g[k] * (Cardinality(D) * c)
      BY <2>3, MeanBetween
    <3> QED
      BY <1>13, <3>1
  <2>5. price[1] = t /\ price[2] = m * c
    BY <1>17
  <2>6. /\ \E k \in D : price[1] * rows[k].quantity >= rows[k].amount * price[2]
        /\ \E k \in D : price[1] * rows[k].quantity <= rows[k].amount * price[2]
    BY <1>14, <2>4, <2>5
  <2> QED
    BY <1>3, <1>15, <2>6
<1> QED
  BY <1>8, <1>9, <1>12, <1>16, <1>17

\* The prices of a selection stand for the rows of their item.
LEMMA PricesAreTrue ==
  ASSUME ConstantsSound, NEW texts, DetailInv(texts)
  PROVE  PricesTrue
<1> SUFFICES ASSUME NEW p \in answer.projects, NEW price \in {p.weighted, p.mean} \ {None}
             PROVE  /\ \A k \in DOMAIN p.rows : p.rows[k].amount # None /\ p.rows[k].quantity # None
                    /\ \E k \in DOMAIN p.rows : price[1] * p.rows[k].quantity >= p.rows[k].amount * price[2]
                    /\ \E k \in DOMAIN p.rows : price[1] * p.rows[k].quantity <= p.rows[k].amount * price[2]
                    /\ p.weighted[1] = p.amount
  BY DEF PricesTrue
<1>1. PICK S \in SUBSET Files : answer = Reply(S)
  <2>1. answer # NoAnswer
    BY DEF NoAnswer
  <2> QED
    BY <2>1 DEF DetailInv, ShownSound
<1>2. PICK taken : taken = Breakdown(S)
  OBVIOUS
<1>3. p \in Projects(taken)
  BY <1>1, <1>2 DEF Reply
<1>4. PICK x \in taken : p = Project(taken, detail[x[2]].row.name)
  BY <1>3 DEF Projects
<1>5. PICK item : item = detail[x[2]].row.name
  OBVIOUS
<1>6. PICK rows : rows = ItemRows(taken, item)
  OBVIOUS
<1>7. /\ p.rows = rows /\ p.amount = Sum(rows, "amount")
      /\ p.weighted = Weighted(rows) /\ p.mean = Mean(rows)
  BY <1>4, <1>5, <1>6 DEF Project
<1>8. PICK D : D = DOMAIN rows
  OBVIOUS
<1>9. D \subseteq taken /\ x \in D /\ \A k \in D : rows[k] = detail[k[2]].row
  BY <1>5, <1>6, <1>8 DEF ItemRows
<1>10. \A k \in D : rows[k].amount \in {None} \cup Int /\ rows[k].quantity \in {None} \cup Int
  <2>1. \A k \in D : k[2] \in DOMAIN detail
    BY <1>2, <1>9, BreakdownIs
  <2> QED
    BY <1>9, <2>1, DetailRow
<1>11. IsFiniteSet(D)
  <2>1. IsFiniteSet(DOMAIN detail)
    <3>1. DOMAIN detail = 1..Len(detail) /\ Len(detail) \in Nat
      BY DEF DetailInv, DetailSound
    <3> QED
      BY <3>1, FS_Interval
  <2>2. IsFiniteSet(Ticked(S) \X DOMAIN detail)
    BY <2>1, TickedAre, FS_Product
  <2>3. D \subseteq Ticked(S) \X DOMAIN detail
    BY <1>2, <1>9, BreakdownIs
  <2> QED
    BY <2>2, <2>3, FS_Subset
<1>12. /\ \A k \in D : rows[k].amount # None /\ rows[k].quantity # None
       /\ \E k \in D : price[1] * rows[k].quantity >= rows[k].amount * price[2]
       /\ \E k \in D : price[1] * rows[k].quantity <= rows[k].amount * price[2]
       /\ Weighted(rows)[1] = Sum(rows, "amount")
  <2>1. price \in {Weighted(rows), Mean(rows)} \ {None} /\ D # {}
    BY <1>7, <1>9
  <2> QED
    BY <1>8, <1>10, <1>11, <2>1, PricesAre
<1> QED
  BY <1>7, <1>8, <1>12

\* Whatever is scanned and read: the invoice is read from the best of its files, a check that
\* passes speaks of its own rows where names differ, a selection has each row of its invoices
\* once, and a price stands for all rows of its item.
THEOREM SelectionIsTrue ==
  ASSUME ConstantsSound, NEW texts
  PROVE  Spec /\ Readable(texts) => []SelectionTrue
<1>1. Init /\ Readable(texts) => DetailInv(texts)
  BY DetailInitially
<1>2. DetailInv(texts) /\ [Next]_vars => DetailInv(texts)'
  BY DetailStep
<1>3. DetailInv(texts) => SelectionTrue
  BY DetailTyped, BestIsChosen, ChecksAreTrue, SelectionIsOnce, PricesAreTrue DEF SelectionTrue
<1> QED
  BY <1>1, <1>2, <1>3, PTL DEF Spec
=============================================================================
