--------------------------------- MODULE Costs ---------------------------------
(***************************************************************************)
(* The reference statuses of cost rows (CostReferences) beside the         *)
(* analysis of invoices (CostDetail), which shows the same detail.         *)
(***************************************************************************)
CONSTANTS Keys, Contents, Rates, Default, Keep, MaxSaves, MaxSteps

VARIABLES table, json, book, oldSchema, asked, synced, saves, steps

statusVars == <<table, json, book, oldSchema, asked, synced, saves, steps>>

References == INSTANCE CostReferences WITH detail <- table

\* A row shows what was asked for it last, and the workbook shows the same (CostReferences).
AskedShown == References!AskedShown

\* The amount of what was invoiced stays what it was (CostReferences).
PartKept == References!PartKept
=============================================================================
