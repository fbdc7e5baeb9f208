---------------------------- MODULE MappingRules ----------------------------
(***************************************************************************)
(* The account mapping of a company: which rule answers for an invoice row *)
(* (bookkeeping/mapping.py), how a person previews a rule, sees what it    *)
(* changes and saves it, and how a mapping of version 1 is migrated        *)
(* (bookkeeping/mapping_migration.py, the operations of AppState).         *)
(***************************************************************************)
EXTENDS Naturals, FiniteSets

CONSTANTS Scopes,     \* [seller, project, period, prio]; Every matches all, {} is always
          RuleId,     \* [Scopes -> Nat], the hash of a scope as an order, one for each
          Contexts,   \* [seller, project, date]
          Every, None,
          Targets,    \* accounts, auxiliaries and business class of a rule
          LegacyFiles,\* contents of a mapping of version 1, sets of records
                      \* [n, scope, target, source]; n tells equal rules apart
          Commands,   \* ids of migration commands
          MaxWrites   \* bound: writes of the mapping and confirmations of the profile

VARIABLES schema,    \* version of the mapping file
          legacy,    \* its content while that is 1
          rules,     \* its rules from then on
          bound,     \* profile revision it is bound to, 0 for none
          revision,
          receipts,  \* commands of migrations done
          backups,   \* contents of the backups on disk
          prof,      \* the confirmed ledger profile
          page,      \* the preview of a rule on somebody's screen
          plan,      \* the preview of a migration on somebody's screen
          pending    \* receipt of a migration between its backup and its write

\* What the proofs assume of the constants, true of every installation.
ConstantsSound ==
    /\ MaxWrites \in Nat \ {0}
    /\ None \notin Scopes
    /\ LegacyFiles \subseteq SUBSET [n: Nat, scope: Scopes, target: Targets,
                                     source: {"manual", "ai_confirmed"}]

vars == <<schema, legacy, rules, bound, revision, receipts, backups, prof, page, plan, pending>>

Origins == {"manual", "ai_confirmed"}
Rule(s, t, src, state, old) ==
    [scope |-> s, target |-> t, source |-> src, state |-> state, old |-> old]
NoPage == [rev |-> None]

Init ==
    /\ schema \in {1, 2}
    /\ legacy \in LegacyFiles
    /\ schema = 2 => legacy = {}
    /\ rules = {} /\ bound = 0 /\ revision = 0
    /\ receipts = {} /\ backups = {}
    /\ prof = 1
    /\ page = NoPage /\ plan = NoPage /\ pending = None

-----------------------------------------------------------------------------
(* Which rule answers.                                                     *)

Applies(r, c) ==
    /\ r.state = "active"
    /\ r.scope.seller \in {Every, c.seller}
    /\ r.scope.project \in {Every, c.project}
    /\ r.scope.period = {} \/ c.date \in r.scope.period

Specificity(s) ==
    Cardinality({f \in {"seller", "project"} : s[f] # Every}) + (IF s.period = {} THEN 0 ELSE 1)

\* Manual before confirmed suggestions, then the narrower scope, then the priority.
Outranks(r, q) ==
    \/ r.source = "manual" /\ q.source # "manual"
    \/ /\ r.source = q.source
       /\ \/ Specificity(r.scope) > Specificity(q.scope)
          \/ /\ Specificity(r.scope) = Specificity(q.scope)
             /\ r.scope.prio > q.scope.prio

Finalists(rs, c) ==
    {r \in rs : Applies(r, c) /\ \A q \in rs : Applies(q, c) => ~Outranks(q, r)}

First(rs) == CHOOSE r \in rs : \A q \in rs : RuleId[r.scope] <= RuleId[q.scope]

\* What resolve_account_mapping records with a voucher: the rule, or why there is none.
Resolution(rs, c) ==
    LET top == Finalists(rs, c)
    IN IF top = {} THEN [outcome |-> "unmatched", by |-> {}]
       ELSE IF \E r, q \in top : r.target # q.target THEN [outcome |-> "ambiguous", by |-> top]
       ELSE [outcome |-> "matched", by |-> {First(top)}]

Changed(rs, qs) == {c \in Contexts : Resolution(rs, c) # Resolution(qs, c)}

-----------------------------------------------------------------------------
(* Saving a rule.                                                          *)

At(s) == {r \in rules : r.scope = s}

\* A mapping that is not bound takes a binding while it has no rule.
Bindable == bound = prof \/ (bound = 0 /\ rules = {})

\* The rule a person names as replaced, in scope "over" or None; a replaced rule of the
\* old version hands its legacy ids on.
Replaced(over) == IF over = None THEN {} ELSE At(over)

Heir(r, over) ==
    Rule(r.scope, r.target, r.source, r.state, r.old \/ \E q \in Replaced(over) : q.old)

Candidate(r, over) == (rules \ (At(r.scope) \union Replaced(over))) \union {Heir(r, over)}

\* Mutant: a suggestion may take the place of any rule.
AppendAllowed_AnySource(r, over) ==
    /\ schema = 2 /\ Bindable
    /\ over # None => Replaced(over) # {}
    /\ (over # None /\ At(r.scope) # {}) => over = r.scope

\* append_rule, inside the bookkeeping lock.
AppendAllowed(r, over) ==
    /\ schema = 2 /\ Bindable
    /\ over # None => Replaced(over) # {} /\ r.source = "manual"
    /\ \A q \in At(r.scope) :
          /\ q.source = "manual" => r.source = "manual"
          /\ r.source = "manual" => over = r.scope
    /\ (over # None /\ At(r.scope) # {}) => over = r.scope

Write(rs) ==
    /\ rules' = rs
    /\ bound' = IF bound = 0 THEN prof ELSE bound
    /\ revision' = revision + 1

\* An identical rule is not written again.
Append(r, over) ==
    LET new == Heir(r, over)
        same == new \in rules /\ over \in {None, r.scope}
    IN /\ same \/ AppendAllowed(r, over)
       /\ ~same /\ revision < MaxWrites
       /\ Write(Candidate(r, over))

\* A suggestion somebody confirmed.
AppendSuggestion(s, t) ==
    /\ pending = None
    /\ Append(Rule(s, t, "ai_confirmed", "active", FALSE), None)
    /\ UNCHANGED <<schema, legacy, receipts, backups, prof, page, plan, pending>>

\* preview_mapping_rule: reads everything, without the lock, and answers what would change.
PreviewRule(s, t, over) ==
    /\ schema = 2 /\ Bindable
    /\ over # None => At(over) # {}
    /\ LET r == Rule(s, t, "manual", "active", FALSE)
       IN page' = [rev |-> revision, prof |-> prof, rule |-> r, over |-> over,
                   changes |-> Changed(rules, Candidate(r, over))]
    /\ UNCHANGED <<schema, legacy, rules, bound, revision, receipts, backups, prof, plan, pending>>

\* The impact a saved rule was previewed with must be the impact it has now.
ImpactKept ==
    /\ page.rev = revision
    /\ page.prof = prof
    /\ page.changes = Changed(rules, Candidate(page.rule, page.over))

AppendMappingRule ==
    /\ page # NoPage /\ pending = None
    /\ ImpactKept
    /\ Append(page.rule, page.over)
    /\ page' = NoPage
    /\ UNCHANGED <<schema, legacy, receipts, backups, prof, plan, pending>>

\* The person confirms the ledger profile again.
SaveProfile ==
    /\ pending = None
    /\ prof + revision < MaxWrites
    /\ prof' = prof + 1
    /\ UNCHANGED <<schema, legacy, rules, bound, revision, receipts, backups, page, plan, pending>>

-----------------------------------------------------------------------------
(* Migration of a mapping of version 1.                                    *)

\* Mutant: a migrated rule is active at once.
Migrated_Active(old) == {Rule(o.scope, o.target, o.source, "active", TRUE) : o \in old}

Migrated(old) ==
    {Rule(o.scope, o.target, o.source, "pending_reconfirmation", TRUE) : o \in old}

\* Several old rules of one scope.
Conflicts(old) == {o \in old : \E q \in old : q # o /\ q.scope = o.scope}

PreviewMigration ==
    /\ schema = 1
    /\ plan' = [rev |-> revision, source |-> legacy, prof |-> prof]
    /\ UNCHANGED <<schema, legacy, rules, bound, revision, receipts, backups, prof, page, pending>>

Receipt(c) == [plan |-> plan, command |-> c]

MayMigrate ==
    /\ plan # NoPage
    /\ schema = 1 /\ legacy = plan.source /\ prof = plan.prof
    /\ Conflicts(legacy) = {}

\* The exact backup comes first.
WriteBackup(c) ==
    /\ pending = None
    /\ MayMigrate
    /\ backups' = backups \union {legacy}
    /\ pending' = Receipt(c)
    /\ UNCHANGED <<schema, legacy, rules, bound, revision, receipts, prof, page, plan>>

WriteMigrated ==
    /\ pending # None
    /\ schema' = 2
    /\ rules' = Migrated(legacy)
    /\ bound' = pending.plan.prof
    /\ revision' = revision + 1
    /\ receipts' = {pending}
    /\ legacy' = {}
    /\ pending' = None
    /\ UNCHANGED <<backups, prof, page, plan>>

\* The same command again answers with its receipt; another one is refused.
Replay(c) ==
    /\ pending = None
    /\ schema = 2 /\ plan # NoPage /\ Receipt(c) \in receipts
    /\ UNCHANGED vars

Crash ==
    /\ pending # None
    /\ pending' = None
    /\ page' = NoPage
    /\ UNCHANGED <<schema, legacy, rules, bound, revision, receipts, backups, prof, plan>>

\* An installation of the old version writes the file meanwhile.
OldVersionWrites ==
    /\ schema = 1 /\ pending = None
    /\ \E old \in LegacyFiles : old # legacy /\ legacy' = old
    /\ UNCHANGED <<schema, rules, bound, revision, receipts, backups, prof, page, plan, pending>>

-----------------------------------------------------------------------------
Next ==
    \/ \E s \in Scopes, t \in Targets : AppendSuggestion(s, t)
    \/ \E s \in Scopes, t \in Targets, over \in Scopes \union {None} : PreviewRule(s, t, over)
    \/ AppendMappingRule
    \/ SaveProfile
    \/ PreviewMigration
    \/ \E c \in Commands : WriteBackup(c) \/ Replay(c)
    \/ WriteMigrated
    \/ Crash
    \/ OldVersionWrites

Spec == Init /\ [][Next]_vars

-----------------------------------------------------------------------------
(* Properties.                                                             *)

States == {"active", "pending_reconfirmation"}

\* The mapping keeps its types and has one rule for a scope.
TypeOK ==
    /\ schema \in 1..2 /\ bound \in 0..prof /\ revision \in 0..MaxWrites
    /\ legacy \in LegacyFiles \union {{}}
    /\ rules \subseteq [scope: Scopes, target: Targets, source: Origins, state: States,
                        old: BOOLEAN]
    /\ \A r, q \in rules : r.scope = q.scope => r = q
    /\ schema = 1 => rules = {} /\ bound = 0

\* No suggestion takes the place of a rule a person made: such a rule goes only when a
\* person saves another, and goes alone or with the one it names.
ManualKept ==
    [][LET gone == {r \in rules \ rules' : r.source = "manual"}
       IN gone # {} => /\ \E q \in rules' \ rules : q.source = "manual"
                       /\ Cardinality(gone) = 1]_vars

\* A migrated mapping was backed up as it was, had one rule a scope, is bound to the
\* profile it was previewed with; and a rule of the old version answers only after a
\* person confirmed it, however often the command or the service is repeated.
MigrationSafe ==
    /\ TypeOK
    /\ \A x \in receipts : /\ x.plan.source \in backups /\ Conflicts(x.plan.source) = {}
                            /\ bound = x.plan.prof
    /\ \A r \in rules : (r.old /\ r.state = "active") => r.source = "manual"
=============================================================================
