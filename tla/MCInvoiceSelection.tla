-------------------------- MODULE MCInvoiceSelection --------------------------
(***************************************************************************)
(* Four files: a PDF and an OFD of one invoice, whose name says its        *)
(* number, a PDF of it under another name, and a PDF of a second invoice.  *)
(* Either any facts and one request, or two threads, a moving folder and   *)
(* facts that no request confuses.                                         *)
(***************************************************************************)
EXTENDS InvoiceSelection

CONSTANTS n1, n2, t1, t2, Budget

MCFiles == 1..4
MCCopy == <<n1, n2, n1, n1>>
MCFileNumber == <<n1, None, n1, None>>
MCFormat == <<"pdf", "pdf", "ofd", "pdf">>
MCThreads == {t1, t2}

Symmetry == Permutations(MCThreads)

MCInit ==
    /\ Init
    /\ \/ budget = 1 /\ number[2] = n2 /\ amount[2] = 2
       \/ /\ budget = Budget
          /\ number = <<n1, n2, None, None>> /\ amount = <<1, 2, 1, 1>>
          /\ disk = {2, 3}

MCSpec == MCInit /\ [][Next]_vars
=============================================================================
