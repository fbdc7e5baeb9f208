-------------------------------- MODULE MCHost --------------------------------
(***************************************************************************)
(* The life of the application, for TLC: in one behaviour its first        *)
(* synchronisation (BackgroundSync), in another the updates it is told of, *)
(* their installation or its end (Application).  They share no state;      *)
(* those that are not at work stay as they started.                        *)
(***************************************************************************)
EXTENDS BackgroundSync, Application

VARIABLE part   \* the component at work

ASSUME UpdateAssumption == Update!ConstantsSound

\* Folders are interchangeable: one of them is the first.  The application is the first
\* version, or a later one than the feed's.
MCInit ==
    /\ part \in {"startup", "updates", "recovery", "end"}
    /\ active = CHOOSE f \in Profiles : TRUE
    /\ Init
    /\ folder = CHOOSE f \in Folders : TRUE
    /\ part # "end" => pidFile = None
    /\ End!Init
    /\ part # "updates" => hosted = FALSE /\ product = 1 /\ served = 1
    /\ Update!Init
    /\ product = 1 \/ served < product
    /\ part # "recovery" => system = "macos" /\ monitor = "off"
    /\ Recovery!Init

MCNext ==
    \/ part = "startup" /\ Next /\ UNCHANGED <<part, endVars, updateVars, recoveryVars>>
    \/ part = "end" /\ End!Next /\ UNCHANGED <<part, vars, updateVars, recoveryVars>>
    \/ part = "updates" /\ Update!Next /\ UNCHANGED <<part, vars, endVars, recoveryVars>>
    \/ part = "recovery" /\ Recovery!Next /\ UNCHANGED <<part, vars, endVars, updateVars>>

\* The fairness of the modules.
MCSpec ==
    /\ MCInit /\ [][MCNext]_<<part, vars, endVars, updateVars, recoveryVars>>
    /\ \A g \in Gens : /\ WF_vars(part = "startup" /\ WorkerStep(g))
                       /\ SF_vars(part = "startup" /\ Overdue(g))
                       /\ WF_vars(part = "startup" /\ RetireStep(g))
                       /\ WF_vars(part = "startup" /\ g \in told /\ ChildKilled(g))
                       /\ WF_vars(part = "startup" /\ ChildExits(g))
    /\ WF_endVars(part = "end" /\ End!Ending)
    /\ \A s \in Streams : WF_endVars(part = "end" /\ End!StreamEnds(s))
    /\ \A k \in 1..6 : WF_recoveryVars(part = "recovery" /\ Recovery!Fair(k))

\* A synchronisation ends, and so does the child of an older generation (BackgroundSync).
ChildrenEnd == Settles /\ ObsoleteEnds
=============================================================================
