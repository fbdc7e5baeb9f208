------------------------------- MODULE MCFolder -------------------------------
(***************************************************************************)
(* The folder of invoices, for TLC: in one behaviour the jobs that keep    *)
(* its summary (MCProfileSync), in another the previews and prints of a    *)
(* PDF of two units and an OFD of one (FilePreview).  The one that is not  *)
(* at work stays as it started.                                            *)
(***************************************************************************)
EXTENDS MCProfileSync, Folder

CONSTANTS pdf, ofd, r1, r2

VARIABLE part   \* the component at work

MCFormat == pdf :> "pdf" @@ ofd :> "ofd"
MCSize == pdf :> 2 @@ ofd :> 1

ASSUME PreviewAssumption == Pages!ConstantsSound

\* Invoices are interchangeable as well as requests.
AllSymmetry == Permutations({r1, r2}) \union Permutations(Files)

BothInit ==
    /\ part \in {"jobs", "pages"}
    /\ part # "jobs" => disk = [f \in Files |-> 0]
    /\ part # "pages" => service = "preview"
    /\ Init /\ Pages!Init

\* Of the two files it is the OFD that changes, whose rendering takes long; one request
\* at a time makes a job, next to those that render and store pages.
Bounded ==
    /\ shown'[pdf] = shown[pdf]
    /\ Cardinality({r \in Requests : req'[r].pc = "entries"}) <= 1

BothNext ==
    \/ part = "jobs" /\ Next /\ UNCHANGED <<part, pageVars>>
    \/ part = "pages" /\ Pages!Next /\ Bounded /\ UNCHANGED <<part, vars>>

BothSpec == BothInit /\ [][BothNext]_<<part, vars, pageVars>>
=============================================================================
