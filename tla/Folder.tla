-------------------------------- MODULE Folder --------------------------------
(***************************************************************************)
(* The folder of invoices: the jobs that keep its summary (ProfileSync)    *)
(* and the previews and prints of its files (FilePreview).  The two share  *)
(* no state here.                                                          *)
(***************************************************************************)
EXTENDS ProfileSync

CONSTANTS PageFiles, Requests, Format, Size, Broken,   \* files and requests of the pages
          TTL, MaxJobs, MaxJobBytes, MaxCacheBytes, MaxMade, MaxTicks, MaxChanges

VARIABLES service, shown, jobs, slot, req, told, idle, count, ticks, changes

pageVars == <<service, shown, jobs, slot, req, told, idle, count, ticks, changes>>

Pages == INSTANCE FilePreview WITH disk <- shown, made <- count, Files <- PageFiles

\* The caches keep their limits, and what they show is the version that was selected
\* (FilePreview).
PreviewTrue == Pages!TypeOK /\ Pages!WithinLimits /\ Pages!ShowsSelected

\* A job goes only when it is the least used (FilePreview).
LeastUsedGo == Pages!LeastUsedGo
=============================================================================
