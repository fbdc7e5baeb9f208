-------------------------------- MODULE MCCosts --------------------------------
(***************************************************************************)
(* The cost pages, for TLC: in one behaviour the analysis of files and     *)
(* what is asked of it (MCCostDetail), in another the reference statuses   *)
(* of rows, of two pieces each as they start (Costs).  They share no state *)
(* here; the one not at work stays as it started.                          *)
(***************************************************************************)
EXTENDS MCCostDetail, Costs, TLC

CONSTANTS k1, k2   \* rows

\* A PDF and an OFD of one invoice, a PDF of another; only the first has its number in its name.
MCFiles == 1..3
MCCopy == <<n1, n1, n2>>
MCFileNumber == <<n1, None, None>>

\* A row of nothing, one row and a row of the same amount at another price.
MCContents == {[quantity |-> 0, price |-> 0], [quantity |-> 1, price |-> 2],
               [quantity |-> 2, price |-> 1]}

Symmetry == Permutations({k1, k2})

VARIABLE work   \* the component at work

ASSUME StatusAssumption == References!ConstantsSound
ASSUME DetailAssumption == ConstantsSound

BothInit ==
    /\ work \in {"references", "analysis"}
    /\ work = "analysis" => MCInit
    /\ work = "references" => Quiet
    /\ work = "analysis" => table = (CHOOSE d \in References!Details : TRUE) /\ book = References!Empty
    /\ work = "references" => table = [k \in Keys |-> [quantity |-> 2, price |-> 1]]
    /\ References!Init

BothNext ==
    \/ work = "references" /\ References!Next /\ UNCHANGED <<work, vars>>
    \/ work = "analysis" /\ Next /\ UNCHANGED <<work, statusVars>>

MCSpec == BothInit /\ [][BothNext]_<<work, vars, statusVars>>

\* A reading that is trusted has the items of its invoice (CostDetail), and any reading is of rows.
TrustedTrue == (left = Families => Readable(Seq({a, b, c}))) /\ TrustedRowsTrue
=============================================================================
