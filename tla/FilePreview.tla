----------------------------- MODULE FilePreview -----------------------------
(***************************************************************************)
(* Previews and prints of selected invoices (services/file_preview.py,     *)
(* invoice_printing.py, ofd_rendering.py, and what app_state.py selects):  *)
(* jobs in memory that expire, hold a bounded number of rendered pages and *)
(* push each other out, while requests render pages of files that change.  *)
(*                                                                         *)
(* Both services keep such jobs and share none: a behaviour uses one.  A   *)
(* file has one page; a byte is one unit of Size; the unit of time is a    *)
(* Tick, and a job lives for TTL of them after its last use.               *)
(***************************************************************************)
EXTENDS Naturals, FiniteSets, FiniteSetsExt, Functions

CONSTANTS Files, Requests, None,
          Format,    \* [Files -> {"pdf", "ofd"}]
          Size,      \* [Files -> Nat], of a rendered page
          TTL,       \* 15 minutes
          Broken,    \* files that cannot be opened
          MaxJobs, MaxJobBytes, MaxCacheBytes,
          MaxMade,   \* bound: jobs created
          MaxTicks,  \* bound: time
          MaxChanges \* bound: changes of files

\* A cache has room for the largest job there may be.
ConstantsSound ==
    /\ IsFiniteSet(Files) /\ Size \in [Files -> Nat]
    /\ MaxJobs \in Nat \ {0} /\ MaxJobBytes \in Nat /\ MaxCacheBytes \in Nat
    /\ MaxJobBytes <= MaxCacheBytes
    /\ MaxMade \in Nat /\ MaxTicks \in Nat /\ MaxChanges \in Nat

VARIABLES service,        \* "preview" or "print"
          disk,           \* version of each file
          jobs,
          slot,           \* the request that renders an OFD
          req, told,      \* what a request is at, the page this step has shown
          idle,           \* ghost: ticks since a job was made or asked for
          made, ticks, changes

world == <<service, disk, changes>>
cache == <<jobs, idle>>
vars == <<world, cache, slot, req, told, made, ticks>>

JobIds == 1..MaxMade
Version == 1..(MaxChanges + 1)

NoReq == [pc |-> "idle", job |-> None, file |-> None, seen |-> 0, entries |-> << >>]
NoPage == [seen |-> 0, signature |-> 0]

\* What a job holds of a file: its version when it was selected, what can be
\* shown of it, and the version of the page rendered, 0 for none.
Entry(v, type, page) == [signature |-> v, type |-> type, page |-> page]

Init ==
    /\ service \in {"preview", "print"}
    /\ disk = [f \in Files |-> 1]
    /\ jobs = << >> /\ idle = [j \in JobIds |-> 0]
    /\ slot = None
    /\ req = [r \in Requests |-> NoReq] /\ told = NoPage
    /\ made = 0 /\ ticks = 0 /\ changes = 0

-----------------------------------------------------------------------------
(* The jobs.  jobs[j].age is the time since its last use.                  *)

Without(f, keys) == [k \in DOMAIN f \ keys |-> f[k]]
With(f, k, v) == [x \in DOMAIN f \cup {k} |-> IF x = k THEN v ELSE f[x]]

SumSize(fs) == SumFunctionOnSet(Size, fs)
Bytes(job) == SumSize({f \in DOMAIN job.entries : job.entries[f].page # 0})
Cached(js) == SumFunction([j \in DOMAIN js |-> Bytes(js[j])])

Expired(js) == {j \in DOMAIN js : js[j].age >= TTL}

\* Mutant: any job may go for another one.
Oldest_Any(js, S) == S
Oldest(js, S) == {j \in S : \A k \in S : js[k].age <= js[j].age}

Fits(js, room) ==
    Cardinality(DOMAIN js) + room.jobs <= MaxJobs /\ Cached(js) + room.bytes <= MaxCacheBytes

\* Jobs S go one after another, the least recently used first, until there is room:
\* none of them was used later than one that stays, and the last of them had to go.
OldestGo(js, S, candidates) == \A j \in S : j \in Oldest(js, (candidates \ S) \cup {j})
HadToGo(js, S, room) ==
    S # {} => \E last \in S : /\ \A j \in S : j \in Oldest(js, {j, last})
                             /\ ~Fits(Without(js, S \ {last}), room)

Evicted(js, room, spare) ==
    LET candidates == DOMAIN js \ spare
        goes(S) == /\ OldestGo(js, S, candidates) /\ HadToGo(js, S, room)
                   /\ Fits(Without(js, S), room) \/ S = candidates
    IN {Without(js, S) : S \in {S \in SUBSET candidates : goes(S)}}

\* The job that is asked for, once those that expired are gone.
Live == Without(jobs, Expired(jobs))

Renewed(js, j) == IF service = "print" THEN js ELSE [js EXCEPT ![j].age = 0]

\* The ghost: jobs asked for start anew, jobs gone are no longer counted.
IdleOf(asked) ==
    idle' = [j \in JobIds |-> IF j \in DOMAIN jobs' \ asked THEN idle[j] ELSE 0]

\* get_job: every request for a preview renews it.
GetJob(j) ==
    /\ jobs' = IF j \in DOMAIN Live THEN Renewed(Live, j) ELSE Live
    /\ IdleOf(IF service = "preview" THEN {j} ELSE {})

Shows(r, page, signature) ==
    /\ req' = [req EXCEPT ![r] = NoReq]
    /\ told' = [seen |-> page, signature |-> signature]

Silent == told' = NoPage

\* Every other answer, for the reason given.
Answers(r, reason) == req' = [req EXCEPT ![r] = NoReq] /\ Silent

-----------------------------------------------------------------------------
(* A new job.                                                              *)

Prepare(r) ==
    /\ req[r].pc = "idle" /\ made < MaxMade
    /\ made' = made + 1
    /\ \E fs \in (SUBSET Files) \ {{}} :
        req' = [req EXCEPT ![r] = [NoReq EXCEPT !.pc = "entries", !.job = made + 1,
                    !.entries = [f \in fs |-> Entry(0, "pages", 0)]]]
    /\ UNCHANGED <<world, cache, slot, ticks>> /\ Silent

Pending(r) == {f \in DOMAIN req[r].entries : req[r].entries[f].signature = 0}

\* The files are gone through in one order, whoever asks.
Following(r) == CHOOSE f \in Pending(r) : TRUE

\* What cannot be opened is an error of the file, and so is an OFD while another
\* one is rendered.
Opens(f) == f \notin Broken /\ (Format[f] = "ofd" => slot = None)

\* _entry_for_source takes the signature before it looks at the pages.
PreviewEntry(r) ==
    /\ req[r].pc = "entries" /\ service = "preview"
    /\ Pending(r) # {}
    /\ LET f == Following(r)
       IN req' = [req EXCEPT ![r].entries[f] =
                    Entry(disk[f], IF Opens(f) THEN "pages" ELSE "error", 0)]
    /\ UNCHANGED <<world, cache, slot, made, ticks>> /\ Silent

\* A print is rendered whole, and one file that fails is the end of it.
PrintEntry(r) ==
    /\ req[r].pc = "entries" /\ service = "print"
    /\ Pending(r) # {}
    /\ LET f == Following(r)
           held == SumSize(DOMAIN req[r].entries \ Pending(r)) + Size[f]
       IN IF f \in Broken \/ Format[f] = "ofd" \/ held > MaxJobBytes
          THEN Answers(r, "refused")
          ELSE /\ req' = [req EXCEPT ![r].entries[f] = Entry(disk[f], "pages", disk[f])]
               /\ Silent
    /\ UNCHANGED <<world, cache, slot, made, ticks>>

\* create_job: expired jobs go, then the least recently used, until there is room.
CreateJob(r) ==
    LET new == [entries |-> req[r].entries, age |-> 0]
        room == [jobs |-> 1, bytes |-> Bytes(new)]
    IN /\ req[r].pc = "entries" /\ Pending(r) = {}
       /\ \E left \in Evicted(Live, room, {}) : jobs' = With(left, req[r].job, new)
       /\ IdleOf({req[r].job})
       /\ Answers(r, "created")
       /\ UNCHANGED <<world, slot, made, ticks>>

-----------------------------------------------------------------------------
(* Pages.                                                                  *)

Entries(j) == jobs[j].entries

\* A print page comes as it was rendered; a preview only while its file is the
\* one that was selected, out of the cache if it is there.
AskPage(r, j, f) ==
    /\ req[r].pc = "idle"
    /\ GetJob(j)
    /\ \/ /\ j \notin DOMAIN Live
          /\ Answers(r, "expired")
       \/ /\ j \in DOMAIN Live /\ f \in DOMAIN Entries(j)
          /\ LET entry == Entries(j)[f]
             IN CASE service = "print" -> Shows(r, entry.page, entry.signature)
                  [] service = "preview" /\ disk[f] # entry.signature -> Answers(r, "changed")
                  [] service = "preview" /\ disk[f] = entry.signature /\ entry.type = "error" ->
                        Answers(r, "error")
                  [] service = "preview" /\ disk[f] = entry.signature /\ entry.page # 0 ->
                        Shows(r, entry.page, entry.signature)
                  [] OTHER -> /\ req' = [req EXCEPT ![r] = [NoReq EXCEPT !.pc = "render",
                                            !.job = j, !.file = f, !.entries = [x \in {f} |-> entry]]]
                              /\ Silent
    /\ UNCHANGED <<world, slot, made, ticks>>

\* keep_alive, and opening the file or its folder in another program.
Touch(r, j) ==
    /\ req[r].pc = "idle" /\ service = "preview"
    /\ j \in DOMAIN jobs
    /\ GetJob(j)
    /\ UNCHANGED <<world, slot, req, made, ticks>> /\ Silent

\* One OFD at a time; who comes second is told so.
Render(r) ==
    LET f == req[r].file
    IN /\ req[r].pc = "render"
       /\ IF Format[f] = "ofd" /\ slot # None
          THEN Answers(r, "busy") /\ UNCHANGED slot
          ELSE /\ slot' = IF Format[f] = "ofd" THEN r ELSE slot
               /\ req' = [req EXCEPT ![r].seen = disk[f], ![r].pc = "rendered"]
               /\ Silent
       /\ UNCHANGED <<world, cache, made, ticks>>

SlotAfter(r) == IF slot = r THEN None ELSE slot

RenderFails(r) ==
    /\ req[r].pc = "rendered"
    /\ slot' = SlotAfter(r)
    /\ Answers(r, "failed")
    /\ UNCHANGED <<world, cache, made, ticks>>

\* Mutant: the file is not looked at again after it was rendered.
StillSelected_Never(r) == TRUE
StillSelected(r) == disk[req[r].file] = req[r].entries[req[r].file].signature

Rendered(r) ==
    /\ req[r].pc = "rendered"
    /\ slot' = SlotAfter(r)
    /\ IF StillSelected(r)
       THEN req' = [req EXCEPT ![r].pc = "store"] /\ Silent
       ELSE Answers(r, "changed")
    /\ UNCHANGED <<world, cache, made, ticks>>

\* _store_page: jobs go for the page of another even when that is not enough.
StorePage(r) ==
    LET j == req[r].job
        f == req[r].file
        entry == req[r].entries[f]
        room == [jobs |-> 0, bytes |-> Size[f]]
        left == Renewed(Live, j)
    IN /\ req[r].pc = "store"
       /\ \/ /\ j \notin DOMAIN Live
             /\ Answers(r, "expired")
             /\ jobs' = Live
          \/ /\ j \in DOMAIN Live /\ left[j].entries[f].page # 0
             /\ Shows(r, left[j].entries[f].page, entry.signature)
             /\ jobs' = left
          \/ /\ j \in DOMAIN Live /\ left[j].entries[f].page = 0
             /\ Bytes(left[j]) + Size[f] > MaxJobBytes
             /\ Answers(r, "too_large")
             /\ jobs' = left
          \/ /\ j \in DOMAIN Live /\ left[j].entries[f].page = 0
             /\ Bytes(left[j]) + Size[f] <= MaxJobBytes
             /\ \E kept \in Evicted(left, room, {j}) :
                 IF Cached(kept) + Size[f] > MaxCacheBytes
                 THEN jobs' = kept /\ Answers(r, "full")
                 ELSE /\ jobs' = [kept EXCEPT ![j].entries[f].page = req[r].seen]
                      /\ Shows(r, req[r].seen, entry.signature)
       /\ IdleOf({j})
       /\ UNCHANGED <<world, slot, made, ticks>>

-----------------------------------------------------------------------------
(* Time and files.                                                         *)

Tick ==
    /\ ticks < MaxTicks /\ ticks' = ticks + 1
    /\ jobs' = [j \in DOMAIN jobs |-> [jobs[j] EXCEPT !.age = @ + 1]]
    /\ idle' = [j \in JobIds |-> IF j \in DOMAIN jobs THEN idle[j] + 1 ELSE idle[j]]
    /\ UNCHANGED <<world, slot, req, made>> /\ Silent

FileChanges(f) ==
    /\ changes < MaxChanges /\ changes' = changes + 1
    /\ disk' = [disk EXCEPT ![f] = @ + 1]
    /\ UNCHANGED <<service, cache, slot, req, made, ticks>> /\ Silent

Next ==
    \/ \E r \in Requests :
        \/ Prepare(r) \/ PreviewEntry(r) \/ PrintEntry(r) \/ CreateJob(r)
        \/ \E j \in JobIds, f \in Files : AskPage(r, j, f)
        \/ \E j \in JobIds : Touch(r, j)
        \/ Render(r) \/ RenderFails(r) \/ Rendered(r) \/ StorePage(r)
    \/ Tick
    \/ \E f \in Files : FileChanges(f)

Spec == Init /\ [][Next]_vars

-----------------------------------------------------------------------------
(* Properties.                                                             *)

TypeOK ==
    /\ disk \in [Files -> Version]
    /\ DOMAIN jobs \subseteq 1..made
    /\ \A j \in DOMAIN jobs : \A f \in DOMAIN Entries(j) :
        Entries(j)[f] \in [signature : Version, type : {"pages", "error"}, page : 0..MaxChanges + 1]
    /\ slot \in Requests \cup {None}

\* The caches keep their limits whatever requests come together: the number of
\* jobs, the pages of one job and those of all of them.
WithinLimits ==
    /\ Cardinality(DOMAIN jobs) <= MaxJobs
    /\ Cached(jobs) <= MaxCacheBytes
    /\ \A j \in DOMAIN jobs : Bytes(jobs[j]) <= MaxJobBytes

\* A preview shows the version of the file that was selected, and a page that
\* came while the file changed is neither shown nor kept.
ShowsSelected ==
    /\ told.seen = told.signature
    /\ \A j \in DOMAIN jobs : \A f \in DOMAIN Entries(j) :
        Entries(j)[f].page \in {0, Entries(j)[f].signature}

\* A job that was used within TTL goes only for room, and then it is one that
\* was used no later than any that stays, but for the job that gets the room.
LeastUsedGo ==
    [][\A j \in DOMAIN jobs \ DOMAIN jobs' :
        \/ idle[j] >= TTL
        \/ \E r \in Requests : \A k \in DOMAIN jobs' \cap DOMAIN jobs :
            idle[k] <= idle[j] \/ k = req[r].job]_vars
=============================================================================
