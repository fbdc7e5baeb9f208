----------------------------- MODULE RenameBatch -----------------------------
(***************************************************************************)
(* The batch rename of the invoice files of a folder (rename_invoice_files *)
(* in services/app_state.py): every file gets the name its invoice asks    *)
(* for, by way of a temporary name; a failure is rolled back name by name; *)
(* then the corrections a person made move to the new paths, while a sync  *)
(* may be saving corrections too.                                          *)
(***************************************************************************)
EXTENDS Naturals, FiniteSets

CONSTANTS Names,      \* file names as numbers, in the order they are listed
          Invoices, None,
          Target,     \* the name an invoice asks for, None if it has not all the parts
          MaxFails,   \* bound: renames the system refuses
          MaxUser,    \* bound: files a person adds or deletes meanwhile
          Systems     \* of "posix", where a rename replaces, and "windows", where it does not

ASSUME TargetAssumption ==
    /\ Names \subseteq Nat /\ None \notin Names \union Invoices
    /\ Target \in [Invoices -> Names \union {None}]
    /\ Systems \subseteq {"posix", "windows"}

VARIABLES os, dir, temp,   \* what is at each name, and at the temporary name of each source
          summary,         \* the invoice the last rebuild found at each name
          overs,           \* the invoice the correction of each path was made for
          plan,            \* the new name of each planned source
          staged, committed, back,  \* sources so far; back: of a roll back
          pc, errors, fails, user,
          before,          \* the folder when the batch was planned
          lost,            \* invoices a rename has replaced
          fresh,           \* invoices a person added during the batch
          entries,         \* corrections as the batch read them
          raced            \* a sync saved a correction during the batch

files == <<os, dir, temp>>
moves == <<staged, committed, back>>
counts == <<errors, fails, user>>
history == <<before, lost, fresh, raced>>
vars == <<files, summary, overs, plan, moves, pc, counts, history, entries>>

Nothing == [n \in Names |-> None]
Present(d) == {n \in Names : d[n] # None}
Somewhere == {dir[n] : n \in Names} \union {temp[n] : n \in Names}

Init ==
    /\ os \in Systems
    /\ dir \in [Names -> Invoices \union {None}]
    /\ \A m, n \in Present(dir) : dir[m] = dir[n] => m = n
    /\ overs \in {o \in [Names -> Invoices \union {None}] :
                    \A n \in Names : o[n] # None /\ dir[n] # None => o[n] = dir[n]}
    /\ Cardinality(Present(overs)) <= 1
    /\ temp = Nothing /\ summary = Nothing /\ plan = Nothing
    /\ staged = {} /\ committed = {} /\ back = {}
    /\ pc = "idle" /\ errors = FALSE /\ fails = 0 /\ user = 0
    /\ before = Nothing /\ lost = {} /\ fresh = {} /\ raced = FALSE
    /\ entries = Nothing

-----------------------------------------------------------------------------
(* The plan.                                                               *)

\* The rebuild before it, and with it the list of invoices.
Preflight ==
    /\ pc = "idle"
    /\ \/ pc' = "listed" /\ summary' = dir
       \/ pc' = "failed" /\ UNCHANGED summary
    /\ before' = dir
    /\ UNCHANGED <<files, overs, plan, moves, counts, lost, fresh, raced, entries>>

Wanted(n) == IF summary[n] = None THEN None ELSE Target[summary[n]]

Candidates == {n \in Present(dir) : Wanted(n) \notin {None, n}}

Single == {n \in Candidates : \A m \in Candidates : Wanted(m) = Wanted(n) => m = n}

\* A target may be the place of a source that itself leaves, and no other file's.
Free(S, n) == dir[Wanted(n)] = None \/ Wanted(n) \in S

Planned == UNION {S \in SUBSET Single : \A n \in S : Free(S, n)}

Plan ==
    /\ pc = "listed"
    /\ plan' = [n \in Names |-> IF n \in Planned THEN Wanted(n) ELSE None]
    /\ before' = dir
    /\ pc' = IF Planned = {} THEN "done" ELSE "stage"
    /\ UNCHANGED <<files, summary, overs, moves, counts, lost, fresh, raced, entries>>

Sources == Present(plan)

Least(n, S) == n \in S /\ \A m \in S : n <= m
Greatest(n, S) == n \in S /\ \A m \in S : m <= n

-----------------------------------------------------------------------------
(* Renames.  One fails when its file is gone, when the system refuses it,  *)
(* and on Windows when there is a file at the new name.                    *)

Refused == fails < MaxFails /\ fails' = fails + 1

Replaces(occupant) == occupant # None
Lost(occupant) == lost' = IF Replaces(occupant) THEN lost \union {occupant} ELSE lost

Vacated(n) == [temp EXCEPT ![n] = None]

\* Temporary names are always free.
StageFile(n) ==
    /\ pc = "stage" /\ Least(n, Sources \ staged) /\ dir[n] # None
    /\ temp' = [temp EXCEPT ![n] = dir[n]] /\ dir' = [dir EXCEPT ![n] = None]
    /\ staged' = staged \union {n}
    /\ UNCHANGED <<os, summary, overs, plan, pc, committed, back, counts, history, entries>>

StageFails(n) ==
    /\ pc = "stage" /\ Least(n, Sources \ staged)
    /\ (dir[n] = None /\ UNCHANGED fails) \/ Refused
    /\ pc' = "unstage" /\ back' = staged
    /\ UNCHANGED <<files, summary, overs, plan, staged, committed, errors, user, history, entries>>

AllStaged ==
    /\ pc = "stage" /\ staged = Sources
    /\ pc' = "commit"
    /\ UNCHANGED <<files, summary, overs, plan, moves, counts, history, entries>>

CommitFile(n) ==
    /\ pc = "commit" /\ Least(n, staged \ committed)
    /\ os = "posix" \/ dir[plan[n]] = None
    /\ dir' = [dir EXCEPT ![plan[n]] = temp[n]] /\ temp' = Vacated(n)
    /\ Lost(dir[plan[n]])
    /\ committed' = committed \union {n}
    /\ UNCHANGED <<os, summary, overs, plan, pc, staged, back, counts, before, fresh, raced, entries>>

CommitFails(n) ==
    /\ pc = "commit" /\ Least(n, staged \ committed)
    /\ (os = "windows" /\ dir[plan[n]] # None /\ UNCHANGED fails) \/ Refused
    /\ pc' = "uncommit" /\ back' = committed
    /\ UNCHANGED <<files, summary, overs, plan, staged, committed, errors, user, history, entries>>

\* A failure of the roll back is noted, and the next file is tried.
BackFails(n) ==
    /\ back' = back \ {n} /\ errors' = TRUE
    /\ UNCHANGED <<files, summary, overs, plan, pc, staged, committed, user, history, entries>>

\* The last committed first, from its new name straight to its old one.
UncommitFile(n) ==
    /\ pc = "uncommit" /\ Greatest(n, back)
    /\ dir[plan[n]] # None /\ (os = "posix" \/ dir[n] = None)
    /\ dir' = [dir EXCEPT ![n] = dir[plan[n]], ![plan[n]] = None]
    /\ Lost(dir[n])
    /\ back' = back \ {n}
    /\ UNCHANGED <<os, temp, summary, overs, plan, pc, staged, committed, counts, before, fresh,
                   raced, entries>>

UncommitFails(n) ==
    /\ pc = "uncommit" /\ Greatest(n, back)
    /\ \/ dir[plan[n]] = None /\ UNCHANGED fails
       \/ os = "windows" /\ dir[n] # None /\ UNCHANGED fails
       \/ Refused
    /\ BackFails(n)

AllUncommitted ==
    /\ pc = "uncommit" /\ back = {}
    /\ pc' = "unstage" /\ back' = staged \ committed
    /\ UNCHANGED <<files, summary, overs, plan, staged, committed, counts, history, entries>>

UnstageFile(n) ==
    /\ pc = "unstage" /\ Greatest(n, back)
    /\ os = "posix" \/ dir[n] = None
    /\ dir' = [dir EXCEPT ![n] = temp[n]] /\ temp' = Vacated(n)
    /\ Lost(dir[n])
    /\ back' = back \ {n}
    /\ UNCHANGED <<os, summary, overs, plan, pc, staged, committed, counts, before, fresh, raced,
                   entries>>

UnstageFails(n) ==
    /\ pc = "unstage" /\ Greatest(n, back)
    /\ (os = "windows" /\ dir[n] # None /\ UNCHANGED fails) \/ Refused
    /\ BackFails(n)

\* Mutant: the roll back puts no staged file back.
AllUnstaged_First ==
    /\ pc = "unstage"
    /\ pc' = "failed"
    /\ UNCHANGED <<files, summary, overs, plan, moves, counts, history, entries>>

AllUnstaged ==
    /\ pc = "unstage" /\ back = {}
    /\ pc' = "failed"
    /\ UNCHANGED <<files, summary, overs, plan, moves, counts, history, entries>>

-----------------------------------------------------------------------------
(* The corrections: read, moved, written, without the lock of the profile. *)

AllCommitted ==
    /\ pc = "commit" /\ committed = staged
    /\ entries' = overs
    /\ pc' = "migrate"
    /\ UNCHANGED <<files, summary, overs, plan, moves, counts, history>>

Arrivals(n) == {m \in committed : plan[m] = n /\ entries[m] # None}

\* What may be at path n afterwards: of an entry that arrives and one that stays, the later.
Moved(n) ==
    LET stays == IF n \in committed \/ entries[n] = None THEN {} ELSE {entries[n]}
    IN {entries[m] : m \in Arrivals(n)} \union stays

\* When they cannot be written the batch has failed with all its files renamed.
Migrate ==
    /\ pc = "migrate"
    /\ overs' \in [Names -> Invoices \union {None}]
    /\ \/ /\ IF \E m \in committed : entries[m] # None
             THEN \A n \in Names : IF Moved(n) = {} THEN overs'[n] = None ELSE overs'[n] \in Moved(n)
             ELSE overs' = overs
          /\ pc' = "rebuild" /\ UNCHANGED fails
       \/ Refused /\ overs' = overs /\ pc' = "astray"
    /\ UNCHANGED <<files, summary, plan, moves, errors, user, history, entries>>

\* The rebuild after it; ProfileSync says what it does to summary and corrections.
Rebuild ==
    /\ pc = "rebuild"
    /\ summary' \in {dir, summary}
    /\ pc' = "done"
    /\ UNCHANGED <<files, overs, plan, moves, counts, history, entries>>

-----------------------------------------------------------------------------
(* Others.                                                                 *)

Running == pc \notin {"idle", "done", "failed", "astray"}

\* A sync saves a correction for a path of the last summary.
Absorb(n) ==
    /\ Running /\ ~raced /\ summary[n] # None
    /\ overs' = [overs EXCEPT ![n] = summary[n]]
    /\ raced' = TRUE
    /\ UNCHANGED <<files, summary, plan, moves, pc, counts, before, lost, fresh, entries>>

AddFile(n, i) ==
    /\ Running /\ user < MaxUser
    /\ dir[n] = None /\ i \notin Somewhere \union lost
    /\ dir' = [dir EXCEPT ![n] = i]
    /\ fresh' = fresh \union {i} /\ user' = user + 1
    /\ UNCHANGED <<os, temp, summary, overs, plan, moves, pc, errors, fails, before, lost, raced, entries>>

DeleteFile(n) ==
    /\ Running /\ user < MaxUser /\ dir[n] # None
    /\ dir' = [dir EXCEPT ![n] = None]
    /\ user' = user + 1
    /\ UNCHANGED <<os, temp, summary, overs, plan, moves, pc, errors, fails, history, entries>>

-----------------------------------------------------------------------------
Rename(n) ==
    \/ StageFile(n) \/ StageFails(n) \/ CommitFile(n) \/ CommitFails(n)
    \/ UncommitFile(n) \/ UncommitFails(n) \/ UnstageFile(n) \/ UnstageFails(n)

Next ==
    \/ Preflight \/ Plan \/ AllStaged \/ AllUncommitted \/ AllUnstaged
    \/ AllCommitted \/ Migrate \/ Rebuild
    \/ \E n \in Names : Rename(n) \/ Absorb(n) \/ DeleteFile(n) \/ \E i \in Invoices : AddFile(n, i)

Spec == Init /\ [][Next]_vars

-----------------------------------------------------------------------------
(* Properties.                                                             *)

\* Files, names and stages keep their types; an invoice is at one place at most; only
\* staged sources have a temporary name.
TypeOK ==
    /\ dir \in [Names -> Invoices \union {None}]
    /\ \A m, n \in Names : (dir[m] # None /\ dir[m] = dir[n]) => m = n
    /\ committed \subseteq staged /\ staged \subseteq Sources
    /\ \A n \in Names : temp[n] # None => n \in staged /\ temp[n] \notin {dir[m] : m \in Names}
    /\ overs \in [Names -> Invoices \union {None}]

\* Invoices whose new name is the old name of another that the roll back takes back before
\* them, in the reverse order, or after them when their own way back was refused.
InTheWay ==
    {before[m] : m \in {s \in Sources : \E n \in Sources : plan[s] = n /\ (n > s \/ errors)}}

\* No rename replaces an invoice: never on Windows; elsewhere only one somebody added during
\* the batch, or, in a roll back, one that was still where the next had to go.
NothingReplaced == IF os = "windows" THEN lost = {} ELSE lost \subseteq fresh \union InTheWay

\* A batch that failed, reports no error of its roll back and was not interfered with leaves
\* the folder as it was, but for the chains of NothingReplaced.
FailureUndone ==
    (pc = "failed" /\ ~errors /\ user = 0 /\ lost = {}) => dir = before /\ temp = Nothing

\* The same without that exception, as the description of the two stages has it.
FailureUndoneAlways == (pc = "failed" /\ ~errors /\ user = 0) => dir = before /\ temp = Nothing

\* A correction shows on the invoice it was made for, after any swaps and chains: unless a
\* sync saved one meanwhile or a correction of a deleted file waited at the new path.
CorrectionsFollow ==
    (pc = "done" /\ ~raced /\ user = 0 /\ \A n \in Sources : entries[plan[n]] = None \/ plan[n] \in Sources)
        => \A n \in Names : (overs[n] # None /\ dir[n] # None) => overs[n] = dir[n]

\* A batch that failed has put every file back, none replaced another, and the manual
\* corrections went along.
BatchUndone == TypeOK /\ FailureUndone /\ NothingReplaced /\ CorrectionsFollow
=============================================================================
