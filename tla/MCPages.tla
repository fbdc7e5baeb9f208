-------------------------------- MODULE MCPages --------------------------------
(***************************************************************************)
(* What the pages of the application do with a folder of invoices, for     *)
(* TLC: each behaviour is of one of a batch rename (MCRenameBatch), ticked *)
(* invoices, the index of documents and their export (Pages).  They share  *)
(* no state here; those that are not at work stay as they started.         *)
(***************************************************************************)
EXTENDS MCRenameBatch, Pages, Sequences, SequencesExt

CONSTANTS n1, n2,             \* numbers of invoices
          t1, t2, Requests,   \* threads of the list, and what they are asked
          s1, s2,             \* folders of the index
          Exports             \* exports and changes of users

VARIABLE part   \* the component at work

\* A PDF and an OFD of one invoice, a PDF of it under another name, and a PDF of another.
MCFiles == 1..4
MCCopy == <<n1, n2, n1, n1>>
MCFileNumber == <<n1, None, n1, None>>
MCFormat == <<"pdf", "pdf", "ofd", "pdf">>

\* An XML and an OFD of one outbound invoice, and a PDF of another.
MCOutbounds == 1..3
MCPriority == <<0, 1, 2>>
MCOutNumber == <<None, n1, n2>>

MCList == INSTANCE MCInvoiceSelection
            WITH None <- Absent, summary <- sheet, answer <- reply, budget <- requests,
                 Budget <- Requests

MCExport == INSTANCE MCDocumentExport
              WITH None <- Absent, catalog <- listed, budget <- exports, Files <- Outbounds, Sources <- RowSources,
                   FileNumber <- OutNumber, Budget <- Exports

ASSUME IndexAssumption == Index!ConstantsSound
ASSUME ListAssumption == List!ConstantsSound
ASSUME ExportAssumption == Export!ConstantsSound

\* Threads of the list and folders of documents are alike.
Symmetry == Permutations({t1, t2}) \union Permutations({s1, s2})

MCInit ==
    /\ part \in {"rename", "list", "index", "export"}
    /\ part # "rename" => os = "posix" /\ dir = Nothing /\ overs = Nothing
    /\ Init
    /\ part = "list" => MCList!MCInit
    /\ part # "list" => /\ number = [f \in Files |-> None] /\ amount = [f \in Files |-> 0]
                        /\ disk = {} /\ requests = 0 /\ List!Init
    /\ Index!Init
    /\ part = "export" => MCExport!MCInit
    /\ part # "export" => /\ MCExport!Quiet
                          /\ digits = MCExport!NoAmount /\ detail = MCExport!NoRows

\* Jobs are in two folders, or two changes come around those of one.
Bounded ==
    changes' <= 1 \/ Cardinality({s \in Scopes : statusFile'[s].job # 0 \/ versions'[s] # 1}) <= 1

MCNext ==
    \/ /\ part = "rename" /\ Next
       /\ UNCHANGED <<part, listVars, indexVars, exportVars>>
    \/ /\ part = "list" /\ List!Next
       /\ UNCHANGED <<part, vars, indexVars, exportVars>>
    \/ /\ part = "index" /\ Index!Next /\ Bounded
       /\ UNCHANGED <<part, vars, listVars, exportVars>>
    \/ /\ part = "export" /\ Export!Next
       /\ UNCHANGED <<part, vars, listVars, indexVars>>

MCSpec ==
    MCInit /\ [][MCNext]_<<part, vars, listVars, indexVars, exportVars>>
=============================================================================
