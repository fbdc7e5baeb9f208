------------------------------- MODULE Updates -------------------------------
(***************************************************************************)
(* Update checks and the approval of an install (services/update_service.py,*)
(* services/app_state.py): callers that ask at the same time, a feed that  *)
(* changes under its ETag, a cache that outlives the process, fetches that *)
(* hang, and the desktop host, which installs the candidate it holds.      *)
(*                                                                         *)
(* A feed is the number of its version, 0 for one that is not valid; its   *)
(* ETag is the same number, 0 for none.                                    *)
(***************************************************************************)
EXTENDS Naturals, FiniteSets

CONSTANTS Versions,
          TooNew,     \* versions that need a later contract
          Callers, None,
          MaxAsks,    \* bound: checks and installs
          MaxChanges  \* bound: feeds, restarts and days

VARIABLES hosted,     \* does the desktop host install updates?
          product, served, untagged,   \* this version, the feed; was one served without ETag?
          cache, shown,
          gate,       \* held by the worker of a fetch
          lock, hostLock,
          pc, forced, got,
          odd,        \* did a fetch end with an error that check does not expect?
          approval, candidate, installed,
          body,       \* version of the last feed a hosted check has accepted, 0 after others
          asks, changes

\* No feed and no ETag are no version.
ConstantsSound == Versions \subseteq Nat \ {0} /\ None \notin Callers

world == <<hosted, product, served, changes>>
locks == <<gate, lock, hostLock>>
host == <<approval, candidate, installed, body>>
vars == <<world, untagged, cache, shown, locks, pc, forced, got, odd, host, asks>>

Cached(feed, etag, result, v, fresh) ==
    [feed |-> feed, etag |-> etag, result |-> result, latest |-> v, fresh |-> fresh]
Nobody == Cached(0, 0, "none", 0, FALSE)
Says(status, v) == [status |-> status, latest |-> v]
NoAnswer == [status |-> 0, feed |-> 0, etag |-> 0, of |-> 0]

\* The state a service starts with is that of the file.
Loaded == Says(IF cache.result = "none" THEN "idle" ELSE cache.result, cache.latest)

Init ==
    /\ hosted \in BOOLEAN
    /\ product \in Versions \ TooNew /\ served \in Versions /\ untagged = FALSE
    /\ cache = Nobody /\ shown = Says("idle", 0)
    /\ gate = FALSE /\ lock = None /\ hostLock = None
    /\ pc = [c \in Callers |-> "idle"] /\ forced = [c \in Callers |-> FALSE]
    /\ got = [c \in Callers |-> NoAnswer] /\ odd = FALSE
    /\ approval = 0 /\ candidate = 0 /\ installed = 0 /\ body = 0
    /\ asks = 0 /\ changes = 0

Go(c, to) == pc' = [pc EXCEPT ![c] = to]
Asked == asks < MaxAsks /\ asks' = asks + 1

-----------------------------------------------------------------------------
(* A check.                                                                *)

\* Mutant: an approval lasts through later checks.
Revoked_Never == approval
Revoked == 0

\* check_for_updates; nobody waits for a check that is under way.
CheckForUpdates(c, force) ==
    /\ pc[c] = "idle" /\ Asked
    /\ \/ /\ IF hosted THEN hostLock # None ELSE lock # None
          /\ UNCHANGED <<pc, forced, lock, hostLock, approval>>
       \/ /\ lock = None
          /\ IF hosted THEN hostLock = None /\ hostLock' = c /\ approval' = Revoked
                       ELSE UNCHANGED <<hostLock, approval>>
          /\ lock' = c
          /\ forced' = [forced EXCEPT ![c] = force]
          /\ Go(c, "begin")
    /\ UNCHANGED <<world, untagged, cache, shown, gate, got, odd, candidate, installed, body>>

Fresh == cache.fresh /\ cache.result \in {"up_to_date", "available"}

\* A hosted check neither takes the result of the cache nor sends its ETag.
Begin(c) ==
    /\ pc[c] = "begin"
    /\ IF ~hosted /\ ~forced[c] /\ Fresh
       THEN shown' = Says(cache.result, cache.latest) /\ Go(c, "release")
       ELSE shown' = Says("checking", 0) /\ Go(c, "fetch")
    /\ UNCHANGED <<world, untagged, cache, locks, forced, got, odd, host, asks>>

\* One worker at a time, which keeps the gate for as long as it lives.
Fetch(c) ==
    /\ pc[c] = "fetch"
    /\ gate' = TRUE
    /\ Go(c, IF gate THEN "offline" ELSE "wait")
    /\ UNCHANGED <<world, untagged, cache, shown, lock, hostLock, forced, got, odd, host, asks>>

Answered(c, status, feed, etag) ==
    /\ pc[c] = "wait"
    /\ gate' = FALSE
    /\ got' = [got EXCEPT ![c] = [status |-> status, feed |-> feed, etag |-> etag, of |-> served]]
    /\ Go(c, "answered")

FeedComes(c, tagged) ==
    /\ Answered(c, 200, served, IF tagged THEN served ELSE 0)
    /\ untagged' = (untagged \/ ~tagged)
    /\ UNCHANGED <<world, cache, shown, lock, hostLock, forced, odd, host, asks>>

NotModified(c) ==
    /\ ~hosted /\ cache.etag # 0 /\ cache.etag = served
    /\ Answered(c, 304, cache.feed, 0)
    /\ UNCHANGED <<world, untagged, cache, shown, lock, hostLock, forced, odd, host, asks>>

NotFound(c) ==
    /\ Answered(c, 404, 0, 0)
    /\ UNCHANGED <<world, untagged, cache, shown, lock, hostLock, forced, odd, host, asks>>

FetchFails(c) ==
    /\ pc[c] = "wait" /\ gate' = FALSE
    /\ Go(c, "offline")
    /\ UNCHANGED <<world, untagged, cache, shown, lock, hostLock, forced, got, odd, host, asks>>

\* An answer that is no HTTP: nobody catches it, and the check ends as it stands.
FetchOdd(c) ==
    /\ pc[c] = "wait" /\ gate' = FALSE
    /\ odd' = TRUE
    /\ Go(c, "release")
    /\ UNCHANGED <<world, untagged, cache, shown, lock, hostLock, forced, got, host, asks>>

\* The caller goes on; its worker keeps the gate.
Deadline(c) ==
    /\ pc[c] = "wait"
    /\ Go(c, "offline")
    /\ UNCHANGED <<world, untagged, cache, shown, locks, forced, got, odd, host, asks>>

WorkerEnds ==
    /\ gate /\ \A c \in Callers : pc[c] # "wait"
    /\ gate' = FALSE
    /\ UNCHANGED <<world, untagged, cache, shown, lock, hostLock, pc, forced, got, odd, host, asks>>

HasBody(c) == pc[c] = "answered" /\ got[c].status \in {200, 304}

\* The last good feed and its ETag stay; the result of the failure is never fresh.
Failed == Cached(cache.feed, cache.etag, "error", 0, cache.fresh)

\* Mutant: an error goes to the cache and not to the status.
SetError_StateLast(c) ==
    /\ pc[c] = "offline" \/ (HasBody(c) /\ got[c].feed = 0)
    /\ cache' = Failed /\ body' = 0
    /\ Go(c, "release")
    /\ UNCHANGED <<world, untagged, shown, locks, forced, got, odd, approval, candidate, installed, asks>>

SetError(c) ==
    /\ pc[c] = "offline" \/ (HasBody(c) /\ got[c].feed = 0)
    /\ cache' = Failed /\ shown' = Says("error", 0) /\ body' = 0
    /\ Go(c, "release")
    /\ UNCHANGED <<world, untagged, locks, forced, got, odd, approval, candidate, installed, asks>>

\* The absence of a feed is not put into the cache.
Unpublished(c) ==
    /\ pc[c] = "answered" /\ got[c].status = 404
    /\ shown' = Says("unsupported", 0) /\ body' = 0
    /\ Go(c, "release")
    /\ UNCHANGED <<world, untagged, cache, locks, forced, got, odd, approval, candidate, installed, asks>>

EvaluateFeed(feed) ==
    IF feed \in TooNew THEN "unsupported" ELSE IF feed > product THEN "available" ELSE "up_to_date"

Tag(c) == IF got[c].etag # 0 THEN got[c].etag ELSE cache.etag

Accept(c) ==
    /\ HasBody(c) /\ got[c].feed # 0
    /\ LET result == EvaluateFeed(got[c].feed)
       IN /\ cache' = Cached(got[c].feed, Tag(c), result, got[c].feed, TRUE)
          /\ shown' = Says(result, got[c].feed)
          /\ body' = IF hosted THEN got[c].feed ELSE 0
          /\ Go(c, IF hosted /\ result = "available" THEN "host" ELSE "release")
    /\ UNCHANGED <<world, untagged, locks, forced, got, odd, approval, candidate, installed, asks>>

\* The host drops its candidate, looks at its own feed and may find one.
HostCheck(c) ==
    /\ pc[c] = "host"
    /\ candidate' \in Versions \union {0}
    /\ approval' = IF candidate' = got[c].feed THEN got[c].feed ELSE approval
    /\ Go(c, "release")
    /\ UNCHANGED <<world, untagged, cache, shown, locks, forced, got, odd, installed, body, asks>>

HostRefuses(c) ==
    /\ pc[c] = "host"
    /\ candidate' \in {0, candidate}
    /\ Go(c, "release")
    /\ UNCHANGED <<world, untagged, cache, shown, locks, forced, got, odd, approval, installed, body, asks>>

Release(c) ==
    /\ pc[c] = "release"
    /\ lock' = None
    /\ hostLock' = IF hosted THEN None ELSE hostLock
    /\ got' = [got EXCEPT ![c] = NoAnswer]
    /\ Go(c, "idle")
    /\ UNCHANGED <<world, untagged, cache, shown, gate, forced, odd, host, asks>>

-----------------------------------------------------------------------------
(* An install.                                                             *)

\* install_update: the approval is gone whatever comes of it.
InstallUpdate(c) ==
    /\ pc[c] = "idle" /\ hosted /\ Asked
    /\ \/ hostLock # None /\ UNCHANGED <<pc, hostLock, approval>>
       \/ /\ hostLock = None
          /\ approval' = 0
          /\ IF approval = 0 THEN UNCHANGED <<pc, hostLock>> ELSE hostLock' = c /\ Go(c, "install")
    /\ UNCHANGED <<world, untagged, cache, shown, gate, lock, forced, got, odd, candidate, installed,
                   body>>

HostInstall(c) ==
    /\ pc[c] = "install"
    /\ installed' = candidate /\ candidate' = 0
    /\ hostLock' = None
    /\ Go(c, "idle")
    /\ UNCHANGED <<world, untagged, cache, shown, gate, lock, forced, got, odd, approval, body, asks>>

InstallRefused(c) ==
    /\ pc[c] = "install"
    /\ candidate' \in {0, candidate}
    /\ hostLock' = None
    /\ Go(c, "idle")
    /\ UNCHANGED <<world, untagged, cache, shown, gate, lock, forced, got, odd, approval, installed,
                   body, asks>>

CandidateExpires ==
    /\ candidate # 0
    /\ candidate' = 0
    /\ UNCHANGED <<world, untagged, cache, shown, locks, pc, forced, got, odd, approval, installed,
                   body, asks>>

-----------------------------------------------------------------------------
(* The world.                                                              *)

Changes == changes < MaxChanges /\ changes' = changes + 1

FeedChanges(f) ==
    /\ Changes /\ served' = f /\ f # served
    /\ UNCHANGED <<hosted, product, untagged, cache, shown, locks, pc, forced, got, odd, host, asks>>

DayPasses ==
    /\ Changes /\ cache.fresh
    /\ cache' = Cached(cache.feed, cache.etag, cache.result, cache.latest, FALSE)
    /\ UNCHANGED <<hosted, product, served, untagged, shown, locks, pc, forced, got, odd, host, asks>>

\* A restart in the middle of anything, of this version or a later one: only the cache stays.
Restart(v) ==
    /\ Changes /\ v >= product
    /\ product' = v
    /\ shown' = Loaded
    /\ gate' = FALSE /\ lock' = None /\ hostLock' = None
    /\ pc' = [c \in Callers |-> "idle"] /\ forced' = [c \in Callers |-> FALSE]
    /\ got' = [c \in Callers |-> NoAnswer] /\ odd' = FALSE
    /\ approval' = 0 /\ candidate' = 0 /\ installed' = 0 /\ body' = 0
    /\ UNCHANGED <<hosted, served, untagged, cache, asks>>

-----------------------------------------------------------------------------
CheckStep(c) ==
    \/ Begin(c) \/ Fetch(c) \/ \E t \in BOOLEAN : FeedComes(c, t)
    \/ NotModified(c) \/ NotFound(c) \/ FetchFails(c) \/ FetchOdd(c) \/ Deadline(c)
    \/ SetError(c) \/ Unpublished(c) \/ Accept(c) \/ HostCheck(c) \/ HostRefuses(c) \/ Release(c)
    \/ HostInstall(c) \/ InstallRefused(c)

Next ==
    \/ \E c \in Callers : \/ \E f \in BOOLEAN : CheckForUpdates(c, f)
                          \/ InstallUpdate(c) \/ CheckStep(c)
    \/ WorkerEnds \/ CandidateExpires \/ DayPasses
    \/ \E f \in Versions \union {0} : FeedChanges(f)
    \/ \E v \in Versions : Restart(v)

\* The thread of a caller runs and its deadline comes, whatever its worker does.
Own(c) ==
    \/ Begin(c) \/ Fetch(c) \/ Deadline(c) \/ SetError(c) \/ Unpublished(c) \/ Accept(c)
    \/ HostCheck(c) \/ HostRefuses(c) \/ Release(c) \/ HostInstall(c) \/ InstallRefused(c)

Spec == Init /\ [][Next]_vars /\ \A c \in Callers : WF_vars(Own(c))

-----------------------------------------------------------------------------
(* Properties.                                                             *)

\* Cache, answers and locks keep their types; a hosted check holds both locks.
TypeOK ==
    /\ cache.feed \in Versions \union {0} /\ cache.etag \in Versions \union {0}
    /\ cache.feed = 0 => cache.result \in {"none", "error"}
    /\ shown.status \in {"idle", "checking", "up_to_date", "available", "unsupported", "error"}
    /\ lock \in Callers \union {None} /\ hostLock \in Callers \union {None}
    /\ (hosted /\ lock # None) => hostLock = lock
    /\ {approval, candidate, installed, body} \subseteq Versions \union {0}

\* The host installs only the version of the feed that the last check has accepted fresh,
\* however its candidates, later checks and failures come between.
InstallApproved == [][(installed' # installed /\ installed' # 0) => installed' = body]_vars

\* What a check takes for the feed is the one that was served, also when the answer was
\* that nothing has changed; unless a feed once came without an ETag, for then the cache
\* has it under the ETag of the one before.
AnswersTrue == \A c \in Callers : got[c].feed = got[c].of \/ got[c].status = 404 \/ untagged

\* A check that fails leaves the last good feed and its ETag in the cache.
FeedKept ==
    [][(cache' # cache /\ cache'.result = "error") =>
           cache'.feed = cache.feed /\ cache'.etag = cache.etag]_vars

\* The page says checking only while a check runs, unless one ended with an error that is
\* none of those it expects.
CheckingEnds == shown.status = "checking" => lock # None \/ odd

\* What a check says is of the feed that was served, and it says so in the end.
ChecksTold == TypeOK /\ AnswersTrue /\ CheckingEnds

\* The host installs what the last check has accepted, and a check that fails keeps
\* the last good feed.
FeedInstalled == InstallApproved /\ FeedKept
=============================================================================
