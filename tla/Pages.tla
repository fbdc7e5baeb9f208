--------------------------------- MODULE Pages ---------------------------------
(***************************************************************************)
(* What the pages of the application do with invoices: what is summed and  *)
(* printed of ticked ones (InvoiceSelection), the index of documents       *)
(* (DocumentIndex) and their export (DocumentExport).  A request of one    *)
(* page touches nothing that another page keeps.                           *)
(***************************************************************************)
CONSTANTS Absent,   \* None of all of them
          Files, Threads, Copy, FileNumber, Format,                        \* of the list
          Scopes, MaxJobs, MaxChanges, Faults,                             \* of the index
          Numbers, RowSources, Lines, Outbounds, Priority, OutNumber, Copies  \* of the export

VARIABLES number, amount, disk, sheet, stamp, cacheKey, cacheRows, thread, view, reply, edited,
          requests,
          csv, versions, scope, job, signature, last, catalog, statusFile, inbound, outbound,
          rows, worker, call, answer, began, withdrawn, changes,
          detail, ticked, content, listed, folder, open, request, seen, digits, exports

listVars == <<number, amount, disk, sheet, stamp, cacheKey, cacheRows, thread, view, reply, edited,
              requests>>
indexVars == <<csv, versions, scope, job, signature, last, catalog, statusFile, inbound, outbound,
               rows, worker, call, answer, began, withdrawn, changes>>
exportVars == <<detail, ticked, content, listed, folder, open, request, seen, digits, exports>>

List == INSTANCE InvoiceSelection
          WITH None <- Absent, summary <- sheet, answer <- reply, budget <- requests

Index == INSTANCE DocumentIndex WITH None <- Absent, disk <- versions

Export == INSTANCE DocumentExport
            WITH None <- Absent, catalog <- listed, budget <- exports, Files <- Outbounds, Sources <- RowSources,
                 FileNumber <- OutNumber

\* A ticked invoice counts once in a total and prints once (InvoiceSelection).
CountedOnce == List!TypeOK /\ List!MoneyOnce /\ List!PrintedOnce

\* The lists of documents are of the present job and of the files it read (DocumentIndex).
ListsTrue == Index!ListsTrue

\* A document has the rows of its invoice once, and is of the invoice asked (DocumentExport).
DocumentsTrue == Export!RowsOnce /\ Export!OutboundIsAsked

\* A document says its amount in words (DocumentExport).
WordsTrue == Export!WordsSayAmount

\* A job that was cancelled stays so until another is wanted (DocumentIndex), and an export
\* that skips or copies replaces no document (DocumentExport).
ChoicesKept == Index!CancelKept /\ Export!DocumentsKept
=============================================================================
