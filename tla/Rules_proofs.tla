---------------------------- MODULE Rules_proofs ----------------------------
(***************************************************************************)
(* Proofs about the account mapping of a company, for any scopes, targets, *)
(* old mappings and commands and any number of writes (MappingRules), and  *)
(* about the lines of a voucher (VoucherLines).                            *)
(***************************************************************************)
EXTENDS Rules, Sums, TLAPS

RuleSet == [scope: Scopes, target: Targets, source: Origins, state: States, old: BOOLEAN]

Typed ==
  /\ schema \in 1..2 /\ prof \in Nat \ {0} /\ bound \in 0..prof /\ revision \in 0..MaxWrites
  /\ legacy \in LegacyFiles \cup {{}}
  /\ rules \subseteq RuleSet

(* One rule for a scope: saving a rule for it replaces the one it has.     *)
OneEach == \A r, q \in rules : r.scope = q.scope => r = q

(* A mapping of version 1 has no rule, no binding and no revision yet.     *)
Unmigrated == schema = 1 => rules = {} /\ bound = 0 /\ revision = 0

(* The screens show what was read, a rule that a person saves by hand.     *)
Screens ==
  /\ page # NoPage => /\ page.rule \in RuleSet /\ page.rule.source = "manual"
                      /\ page.over \in Scopes \cup {None}
  /\ plan # NoPage => plan.prof \in Nat \ {0}

(* A migration that has its backup can go on as it was planned.            *)
Backed ==
  pending # None =>
    /\ schema = 1 /\ legacy = pending.plan.source /\ legacy \in backups
    /\ Conflicts(legacy) = {}
    /\ pending.plan.prof = prof

(* A mapping that was migrated is bound for good.                          *)
Recorded ==
  \A x \in receipts : /\ x.plan.source \in backups /\ Conflicts(x.plan.source) = {}
                      /\ bound = x.plan.prof /\ bound # 0

Reconfirmed == \A r \in rules : r.old /\ r.state = "active" => r.source = "manual"

Inv == Typed /\ OneEach /\ Unmigrated /\ Screens /\ Backed /\ Recorded /\ Reconfirmed

-----------------------------------------------------------------------------
(* Saving a rule.                                                          *)

LEMMA HeirIsRule ==
  ASSUME NEW r \in RuleSet, NEW over
  PROVE  /\ Heir(r, over) \in RuleSet
         /\ Heir(r, over).scope = r.scope /\ Heir(r, over).source = r.source
         /\ Heir(r, over).old <=> r.old \/ \E q \in Replaced(over) : q.old
<1>1. (r.old \/ \E q \in Replaced(over) : q.old) \in BOOLEAN
  OBVIOUS
<1> QED
  BY <1>1 DEF Heir, Rule, RuleSet

LEMMA AppendInv ==
  ASSUME ConstantsSound, Inv, NEW r \in RuleSet, NEW over \in Scopes \cup {None},
         Append(r, over), pending = None, r.old => r.source = "manual",
         over # None => r.source = "manual",
         UNCHANGED <<schema, legacy, receipts, backups, prof, plan, pending>>,
         page' = page \/ page' = NoPage
  PROVE  Inv'
<1> USE DEF Inv
<1>1. /\ schema = 2 /\ Bindable /\ revision < MaxWrites
      /\ rules' = Candidate(r, over)
      /\ bound' = IF bound = 0 THEN prof ELSE bound
      /\ revision' = revision + 1
      /\ \A q \in At(r.scope) : q.source = "manual" => r.source = "manual"
  BY DEF Append, AppendAllowed, Write
<1>2. /\ Heir(r, over) \in RuleSet
      /\ Heir(r, over).scope = r.scope /\ Heir(r, over).source = r.source
      /\ Heir(r, over).old <=> r.old \/ \E q \in Replaced(over) : q.old
  BY HeirIsRule
<1>3. \A q \in rules' : q = Heir(r, over) \/ (q \in rules /\ q.scope # r.scope)
  BY <1>1 DEF Candidate, At
<1>4. Typed'
  BY <1>1, <1>2, <1>3 DEF Typed, ConstantsSound
<1>5. OneEach'
  BY <1>2, <1>3 DEF OneEach
<1>6. Reconfirmed'
  <2>1. Heir(r, over).old => r.source = "manual"
    BY <1>2 DEF Replaced
  <2> QED
    BY <1>2, <1>3, <2>1 DEF Reconfirmed
<1>7. Unmigrated' /\ Screens' /\ Backed' /\ Recorded'
  BY <1>1 DEF Unmigrated, Screens, Backed, Recorded, Conflicts
<1> QED
  BY <1>4, <1>5, <1>6, <1>7

(* Every step of the mapping.                                              *)
LEMMA InvStep ==
  ASSUME ConstantsSound, Inv, [Next]_vars
  PROVE  Inv'
<1> USE DEF Inv
<1>1. ASSUME NEW s \in Scopes, NEW t \in Targets, AppendSuggestion(s, t) PROVE Inv'
  <2> DEFINE r == Rule(s, t, "ai_confirmed", "active", FALSE)
  <2>1. r \in RuleSet /\ r.old = FALSE
    BY DEF Rule, RuleSet, Origins, States
  <2>2. /\ Append(r, None) /\ pending = None
        /\ UNCHANGED <<schema, legacy, receipts, backups, prof, page, plan, pending>>
    BY <1>1 DEF AppendSuggestion
  <2> HIDE DEF r
  <2> QED
    BY <2>1, <2>2, AppendInv
<1>2. ASSUME NEW s \in Scopes, NEW t \in Targets, NEW over \in Scopes \cup {None},
             PreviewRule(s, t, over)
      PROVE Inv'
  <2> DEFINE r == Rule(s, t, "manual", "active", FALSE)
  <2>1. r \in RuleSet /\ r.source = "manual"
    BY DEF Rule, RuleSet, Origins, States
  <2>2. /\ page'.rule = r /\ page'.over = over
        /\ UNCHANGED <<schema, legacy, rules, bound, revision, receipts, backups, prof, plan,
                       pending>>
    BY <1>2 DEF PreviewRule
  <2> HIDE DEF r
  <2>3. Screens'
    BY <2>1, <2>2 DEF Screens, NoPage
  <2> QED
    BY <2>2, <2>3
    DEF Typed, OneEach, Unmigrated, Backed, Recorded, Reconfirmed, Conflicts
<1>3. CASE AppendMappingRule
  <2>1. /\ page # NoPage /\ pending = None
        /\ Append(page.rule, page.over) /\ page' = NoPage
        /\ UNCHANGED <<schema, legacy, receipts, backups, prof, plan, pending>>
    BY <1>3 DEF AppendMappingRule
  <2>2. /\ page.rule \in RuleSet /\ page.rule.source = "manual"
        /\ page.over \in Scopes \cup {None}
    BY <2>1 DEF Screens
  <2> QED
    BY <2>1, <2>2, AppendInv
<1>4. CASE SaveProfile
  BY <1>4
  DEF SaveProfile, Typed, OneEach, Unmigrated, Screens, Backed, Recorded, Reconfirmed, Conflicts
<1>5. CASE PreviewMigration
  <2>1. /\ plan'.prof = prof
        /\ UNCHANGED <<schema, legacy, rules, bound, revision, receipts, backups, prof, page,
                       pending>>
    BY <1>5 DEF PreviewMigration
  <2> QED
    BY <2>1
    DEF Typed, OneEach, Unmigrated, Screens, Backed, Recorded, Reconfirmed, Conflicts
<1>6. ASSUME NEW c \in Commands, WriteBackup(c) PROVE Inv'
  <2>1. /\ schema = 1 /\ legacy = plan.source /\ prof = plan.prof /\ Conflicts(legacy) = {}
        /\ backups' = backups \cup {legacy} /\ pending'.plan = plan
        /\ UNCHANGED <<schema, legacy, rules, bound, revision, receipts, prof, page, plan>>
    BY <1>6 DEF WriteBackup, MayMigrate, Receipt
  <2> QED
    BY <2>1
    DEF Typed, OneEach, Unmigrated, Screens, Backed, Recorded, Reconfirmed, Conflicts
<1>7. CASE WriteMigrated
  <2>1. /\ pending # None /\ schema' = 2 /\ rules' = Migrated(legacy)
        /\ bound' = pending.plan.prof /\ revision' = revision + 1
        /\ receipts' = {pending} /\ legacy' = {} /\ pending' = None
        /\ UNCHANGED <<backups, prof, page, plan>>
    BY <1>7 DEF WriteMigrated
  <2>2. legacy \subseteq [n: Nat, scope: Scopes, target: Targets,
                          source: {"manual", "ai_confirmed"}]
    BY DEF Typed, ConstantsSound
  <2> DEFINE moved(o) == Rule(o.scope, o.target, o.source, "pending_reconfirmation", TRUE)
  <2>3. ASSUME NEW o \in legacy
        PROVE  /\ moved(o) \in RuleSet /\ moved(o).state = "pending_reconfirmation"
               /\ moved(o).scope = o.scope
    <3>1. o.scope \in Scopes /\ o.target \in Targets /\ o.source \in Origins
      BY <2>2 DEF Origins
    <3> QED
      BY <3>1 DEF Rule, RuleSet, States
  <2>a. rules' = {moved(o) : o \in legacy}
    BY <2>1 DEF Migrated
  <2>4. \A o, q \in legacy : o.scope = q.scope => o = q
    BY <2>1 DEF Backed, Conflicts
  <2> HIDE DEF moved
  <2>5. OneEach'
    BY <2>3, <2>4, <2>a DEF OneEach
  <2>b. rules' \subseteq RuleSet
    BY <2>3, <2>a
  <2>c. /\ pending.plan.prof = prof /\ revision = 0
    BY <2>1 DEF Unmigrated, Backed
  <2>6. Typed'
    BY <2>1, <2>b, <2>c DEF Typed, ConstantsSound
  <2>7. Recorded'
    BY <2>1 DEF Recorded, Backed, Typed, Conflicts
  <2>8. Reconfirmed'
    BY <2>3, <2>a DEF Reconfirmed
  <2> QED
    BY <2>1, <2>5, <2>6, <2>7, <2>8 DEF Unmigrated, Screens, Backed
<1>8. CASE Crash
  BY <1>8
  DEF Crash, Typed, OneEach, Unmigrated, Screens, Backed, Recorded, Reconfirmed, Conflicts
<1>9. CASE OldVersionWrites
  BY <1>9
  DEF OldVersionWrites, Typed, OneEach, Unmigrated, Screens, Backed, Recorded, Reconfirmed,
      Conflicts
<1>10. CASE UNCHANGED vars
  BY <1>10
  DEF vars, Typed, OneEach, Unmigrated, Screens, Backed, Recorded, Reconfirmed, Conflicts
<1>11. ASSUME NEW c \in Commands, Replay(c) PROVE Inv'
  BY <1>10, <1>11 DEF Replay
<1> QED
  BY <1>1, <1>2, <1>3, <1>4, <1>5, <1>6, <1>7, <1>8, <1>9, <1>10, <1>11 DEF Next

LEMMA InitInv == ASSUME ConstantsSound, Init PROVE Inv
BY DEF Init, ConstantsSound, Inv, Typed, OneEach, Unmigrated, Screens, Backed, Recorded,
       Reconfirmed

LEMMA InvIsSafe == ASSUME Inv PROVE MigrationSafe
BY DEF Inv, Typed, OneEach, Unmigrated, Recorded, Reconfirmed, TypeOK, MigrationSafe, RuleSet

(* However often migrations are previewed, begun, interrupted and repeated *)
(* while the old version still writes its file and rules and profiles are  *)
(* saved: a mapping that was migrated was backed up as it was and is bound *)
(* to the profile its preview named, and a rule of the old version answers *)
(* for an invoice only once a person has confirmed it                      *)
(* (mapping_migration.py, append_rule).                                    *)
THEOREM MigrationIsSafe ==
  ASSUME ConstantsSound
  PROVE  Spec => []MigrationSafe
<1>1. Init => Inv
  BY InitInv
<1>2. Inv /\ [Next]_vars => Inv'
  BY InvStep
<1>3. Inv => MigrationSafe
  BY InvIsSafe
<1> QED
  BY <1>1, <1>2, <1>3, PTL DEF Spec

-----------------------------------------------------------------------------
(* What a step may do to the rules.                                        *)

OnlyByHand ==
  LET gone == {r \in rules \ rules' : r.source = "manual"}
  IN gone # {} => /\ \E q \in rules' \ rules : q.source = "manual"
                  /\ Cardinality(gone) = 1

LEMMA AppendByHand ==
  ASSUME Inv, NEW r \in RuleSet, NEW over \in Scopes \cup {None}, Append(r, over)
  PROVE  OnlyByHand
<1> DEFINE gone == {q \in rules \ rules' : q.source = "manual"}
           new == Heir(r, over)
<1> SUFFICES ASSUME gone # {}
             PROVE  /\ \E q \in rules' \ rules : q.source = "manual"
                    /\ Cardinality(gone) = 1
  BY DEF OnlyByHand
<1>1. PICK g \in gone : TRUE
  OBVIOUS
<1>2. /\ rules' = Candidate(r, over)
      /\ ~(new \in rules /\ over \in {None, r.scope})
      /\ over # None => r.source = "manual"
      /\ \A q \in At(r.scope) : q.source = "manual" => r.source = "manual"
      /\ (over # None /\ At(r.scope) # {}) => over = r.scope
  BY DEF Append, AppendAllowed, Write
<1>3. new.scope = r.scope /\ new.source = r.source
  BY HeirIsRule
<1> HIDE DEF new
<1>4. \A q \in gone : q \in At(r.scope) \/ (over # None /\ q \in At(over))
  BY <1>2 DEF Candidate, Replaced, new
<1>5. new \in rules'
  BY <1>2 DEF Candidate, new
<1>6. new \notin rules
  BY <1>2, <1>3 DEF At
<1>7. r.source = "manual"
  BY <1>1, <1>2, <1>4
<1>8. \A q \in gone : q = g
  BY <1>1, <1>2, <1>4 DEF Inv, OneEach, At
<1>9. gone = {g}
  BY <1>1, <1>8
<1>10. Cardinality(gone) = 1
  BY <1>9, FS_Singleton
<1> QED
  BY <1>3, <1>5, <1>6, <1>7, <1>10

(* No suggestion takes the place of a rule that a person made, and a rule  *)
(* that is saved takes the place of one at most (append_rule); a migration *)
(* finds no rules to replace.                                              *)
THEOREM ManualRulesStay ==
  ASSUME ConstantsSound
  PROVE  Spec => ManualKept
<1>1. Inv /\ [Next]_vars => [OnlyByHand]_vars
  <2> SUFFICES ASSUME Inv, Next PROVE OnlyByHand
    OBVIOUS
  <2>1. CASE UNCHANGED rules \/ rules = {}
    BY <2>1 DEF OnlyByHand
  <2>2. ASSUME NEW s \in Scopes, NEW t \in Targets, AppendSuggestion(s, t) PROVE OnlyByHand
    <3>1. Rule(s, t, "ai_confirmed", "active", FALSE) \in RuleSet
      BY DEF Rule, RuleSet, Origins, States
    <3> QED
      BY <2>2, <3>1, AppendByHand DEF AppendSuggestion
  <2>3. CASE AppendMappingRule
    BY <2>3, AppendByHand DEF AppendMappingRule, Inv, Screens
  <2>4. CASE WriteMigrated
    BY <2>1, <2>4 DEF WriteMigrated, Inv, Backed, Unmigrated
  <2> QED
    BY <2>1, <2>2, <2>3, <2>4
    DEF Next, PreviewRule, SaveProfile, PreviewMigration, WriteBackup, Replay, Crash,
        OldVersionWrites, vars
<1>2. Init => Inv
  BY InitInv
<1>3. Inv /\ [Next]_vars => Inv'
  BY InvStep
<1> QED
  BY <1>1, <1>2, <1>3, PTL DEF Spec, ManualKept, OnlyByHand

-----------------------------------------------------------------------------
(* The lines of one voucher (VoucherLines), for any sources, allocations   *)
(* and accounts.                                                           *)

(* A line of a decision has the account that is decided for its id, if any. *)
LEMMA LineDecided ==
  ASSUME NEW as, NEW t, NEW dec, NEW l \in Voucher!Materialized(as, t, dec), l.id \in DOMAIN dec
  PROVE  l.account = dec[l.id]
<1>1. ASSUME NEW a \in DOMAIN as, l = Voucher!CostLine(a, as, t, dec) PROVE l.account = dec[l.id]
  BY <1>1 DEF Voucher!CostLine, Voucher!Line, Voucher!Decided
<1>2. ASSUME NEW s \in Sources, NEW role, NEW amount, l = Voucher!SourceLineOf(s, role, amount, dec)
      PROVE  l.account = dec[l.id]
  BY <1>2 DEF Voucher!SourceLineOf, Voucher!Line, Voucher!Decided
<1>3. \/ \E a \in DOMAIN as : l = Voucher!CostLine(a, as, t, dec)
      \/ \E s \in Sources : l = Voucher!SourceLineOf(s, "input_tax", Voucher!SourceLine(s).tax, dec)
      \/ \E s \in Sources : l = Voucher!SourceLineOf(s, "payable", Voucher!SourceLine(s).total, dec)
  BY DEF Voucher!Materialized
<1> QED
  BY <1>1, <1>2, <1>3

(* What was decided is in force until a decision names it.                 *)
LEMMA DecisionsKept ==
  ASSUME NEW raw, NEW id \in DOMAIN templates
  PROVE  /\ id \in DOMAIN Voucher!Decisions(raw)
         /\ id \notin DOMAIN raw => Voucher!Decisions(raw)[id] = templates[id]
BY DEF Voucher!Decisions

LEMMA DecideKeeps ==
  ASSUME NEW as, NEW raw, NEW t, Voucher!Decide(as, raw, t), NEW id \in DOMAIN templates,
         (\E l \in lines' : l.id = id) \/ \E s \in Sources, role \in Voucher!Roles : id = Voucher!Template(s, role)
  PROVE  id \in DOMAIN templates' /\ (id \notin chosen' => templates'[id] = templates[id])
<1> DEFINE dec == Voucher!Decisions(raw)
           ls == Voucher!Materialized(as, t, dec)
           now == {l.id : l \in ls}
<1>1. lines' = ls /\ templates' = Voucher!Retained(ls, dec) /\ chosen' = DOMAIN raw
  BY DEF Voucher!Decide
<1>2. id \in DOMAIN dec /\ (id \notin DOMAIN raw => dec[id] = templates[id])
  BY DecisionsKept
<1>3. \A l \in ls : l.id = id => l.account = dec[id]
  BY <1>2, LineDecided
<1> HIDE DEF dec, ls
<1>4. id \in DOMAIN Voucher!Retained(ls, dec)
  BY <1>1, <1>2 DEF Voucher!Retained
<1>5. Voucher!Retained(ls, dec)[id] = IF id \in now THEN (CHOOSE l \in ls : l.id = id).account ELSE dec[id]
  BY <1>4 DEF Voucher!Retained
<1>6. Voucher!Retained(ls, dec)[id] = dec[id]
  <2>1. CASE id \in now
    <3>1. (CHOOSE l \in ls : l.id = id) \in ls /\ (CHOOSE l \in ls : l.id = id).id = id
      BY <2>1
    <3> QED
      BY <1>3, <1>5, <2>1, <3>1
  <2> QED
    BY <1>5, <2>1
<1> QED
  BY <1>1, <1>2, <1>4, <1>6

(* A person's choice of an account outlasts every later decision that does *)
(* not name it, for any sources, allocations and accounts                  *)
(* (apply_voucher_decision, _materialized_lines).                          *)
THEOREM ChoicesAreKept == Voucher!Spec => ChoicesLast
<1> DEFINE Last == \A id \in DOMAIN templates :
          ((\E l \in lines' : l.id = id) \/ \E s \in Sources, role \in Voucher!Roles : id = Voucher!Template(s, role))
             => id \in DOMAIN templates' /\ (id \notin chosen' => templates'[id] = templates[id])
<1>1. Voucher!Next => Last
  BY DecideKeeps DEF Voucher!Next
<1>2. [Voucher!Next]_(Voucher!vars) => [Last]_(Voucher!vars)
  BY <1>1
<1> HIDE DEF Last
<1>3. ChoicesLast <=> [][Last]_(Voucher!vars)
  BY DEF ChoicesLast, Voucher!ChoicesLast, Last
<1> QED
  BY <1>2, <1>3, PTL DEF Voucher!Spec
-----------------------------------------------------------------------------
(* The amounts of a voucher.                                               *)

(* The lines of a voucher are summed as everybody sums.                    *)
LEMMA SameSum == \A f, S : Voucher!SumFunctionOnSet(f, S) = SumFunctionOnSet(f, S)
BY DEF Voucher!SumFunctionOnSet, Voucher!FoldFunctionOnSet, Voucher!MapThenFoldSet,
       SumFunctionOnSet, FoldFunctionOnSet, MapThenFoldSet

\* The finite sets of the lines are the finite sets.
LEMMA SameFinite == \A S : Voucher!IsFiniteSet(S) <=> IsFiniteSet(S)
BY DEF Voucher!IsFiniteSet, IsFiniteSet

\* An invoice has finitely many cost rows, at least one, and finitely many allocations.
LEMMA SourcesFinite ==
  ASSUME Voucher!ConstantsSound
  PROVE  IsFiniteSet(Sources) /\ IsFiniteSet(AllocIds) /\ Sources # {}
BY SameFinite DEF Voucher!ConstantsSound

Divisions == UNION {[A -> [source: Sources, pretax: Nat, tax: Nat, total: Nat]] : A \in SUBSET AllocIds}

RowsTyped == row \in [Sources -> [pretax: Int, tax: Int, total: Int]]

\* Rounding to cents gives a whole number of cents.
LEMMA CentsInt == \A half \in Int : Voucher!Cents(half) \in Int
BY DEF Voucher!Cents

\* A cost row in cents has whole amounts.
LEMMA SourceLineTyped ==
  ASSUME RowsTyped, NEW s \in Sources
  PROVE  /\ Voucher!SourceLine(s) \in [pretax: Int, tax: Int, total: Int]
         /\ Voucher!SourceLine(s).pretax \in Int /\ Voucher!SourceLine(s).tax \in Int
         /\ Voucher!SourceLine(s).total \in Int
<1>1. row[s].pretax \in Int /\ row[s].tax \in Int /\ row[s].total \in Int
  BY DEF RowsTyped
<1> QED
  BY <1>1, CentsInt DEF Voucher!SourceLine

(* The amounts of the allocations of a source.                             *)
Field(as, field) == [a \in DOMAIN as |-> as[a][field]]
Mine(as, s) == {a \in DOMAIN as : as[a].source = s}

\* A division is a finite function to allocations of no negative amounts.
LEMMA DivisionTyped ==
  ASSUME Voucher!ConstantsSound, NEW as \in Divisions
  PROVE  /\ DOMAIN as \subseteq AllocIds /\ IsFiniteSet(DOMAIN as)
         /\ as \in [DOMAIN as -> [source: Sources, pretax: Nat, tax: Nat, total: Nat]]
         /\ \A s : IsFiniteSet(Mine(as, s)) /\ Mine(as, s) \subseteq DOMAIN as
         /\ \A a \in DOMAIN as : /\ as[a].source \in Sources /\ as[a].pretax \in Nat
                                 /\ as[a].tax \in Nat /\ as[a].total \in Nat
<1>1. PICK A \in SUBSET AllocIds : as \in [A -> [source: Sources, pretax: Nat, tax: Nat, total: Nat]]
  BY DEF Divisions
<1>2. DOMAIN as = A /\ IsFiniteSet(A)
  BY <1>1, FS_Subset, SourcesFinite
<1>3. \A s : Mine(as, s) \subseteq A
  BY <1>2 DEF Mine
<1>4. \A s : IsFiniteSet(Mine(as, s))
  BY <1>2, <1>3, FS_Subset
<1>5. as \in [DOMAIN as -> [source: Sources, pretax: Nat, tax: Nat, total: Nat]]
  BY <1>1, <1>2
<1>6. \A a \in DOMAIN as : /\ as[a].source \in Sources /\ as[a].pretax \in Nat
                           /\ as[a].tax \in Nat /\ as[a].total \in Nat
  BY <1>5
<1>7. \A s : Mine(as, s) \subseteq DOMAIN as
  BY <1>2, <1>3
<1> QED
  BY <1>2, <1>4, <1>5, <1>6, <1>7

\* A division that covers a cost row sums to each of its three amounts.
LEMMA CoverSays ==
  ASSUME Voucher!ConstantsSound, NEW as \in Divisions, Voucher!AllocationsValid(as), NEW s \in Sources
  PROVE  /\ Mine(as, s) # {}
         /\ Voucher!SourceLine(s).pretax = SumFunctionOnSet(Field(as, "pretax"), Mine(as, s))
         /\ Voucher!SourceLine(s).tax = SumFunctionOnSet(Field(as, "tax"), Mine(as, s))
         /\ Voucher!SourceLine(s).total = SumFunctionOnSet(Field(as, "total"), Mine(as, s))
         /\ \A a \in DOMAIN as : /\ as[a].total > 0 /\ as[a].total = as[a].pretax + as[a].tax
<1>1. Voucher!AllocationsCover(as) /\ \A a \in DOMAIN as : as[a].total > 0
  BY DEF Voucher!AllocationsValid
<1>2. /\ Mine(as, s) # {}
      /\ Voucher!SourceLine(s) =
           [pretax |-> SumFunctionOnSet(Field(as, "pretax"), Mine(as, s)),
            tax |-> SumFunctionOnSet(Field(as, "tax"), Mine(as, s)),
            total |-> SumFunctionOnSet(Field(as, "total"), Mine(as, s))]
  BY <1>1, SameSum DEF Voucher!AllocationsCover, Mine, Field
<1>3. \A a \in DOMAIN as : as[a].total = as[a].pretax + as[a].tax
  BY <1>1 DEF Voucher!AllocationsCover
<1>4. /\ Voucher!SourceLine(s).pretax = SumFunctionOnSet(Field(as, "pretax"), Mine(as, s))
      /\ Voucher!SourceLine(s).tax = SumFunctionOnSet(Field(as, "tax"), Mine(as, s))
      /\ Voucher!SourceLine(s).total = SumFunctionOnSet(Field(as, "total"), Mine(as, s))
  BY <1>2
<1> QED
  BY <1>1, <1>2, <1>3, <1>4

\* A cost row that a valid division covers balances and is of some amount.
LEMMA RowsBalance ==
  ASSUME Voucher!ConstantsSound, NEW as \in Divisions, Voucher!AllocationsValid(as), NEW s \in Sources
  PROVE  /\ Voucher!SourceLine(s).pretax \in Nat /\ Voucher!SourceLine(s).tax \in Nat
         /\ Voucher!SourceLine(s).total \in Nat /\ Voucher!SourceLine(s).total > 0
         /\ Voucher!SourceLine(s).pretax + Voucher!SourceLine(s).tax = Voucher!SourceLine(s).total
<1> DEFINE M == Mine(as, s)
           P == Field(as, "pretax")
           X == Field(as, "tax")
           W == Field(as, "total")
<1>1. /\ M # {}
      /\ Voucher!SourceLine(s).pretax = SumFunctionOnSet(P, M)
      /\ Voucher!SourceLine(s).tax = SumFunctionOnSet(X, M)
      /\ Voucher!SourceLine(s).total = SumFunctionOnSet(W, M)
  BY CoverSays
<1>2. IsFiniteSet(M)
  BY DivisionTyped
<1>3. \A a \in M : /\ P[a] \in Nat /\ X[a] \in Nat /\ W[a] \in Nat /\ W[a] > 0
                   /\ W[a] = P[a] + X[a]
  BY CoverSays, DivisionTyped DEF Field, Mine
<1> HIDE DEF M, P, X, W
<1>4. SumFunctionOnSet(P, M) \in Nat /\ SumFunctionOnSet(X, M) \in Nat
  BY <1>2, <1>3, SumNat
<1>5. SumFunctionOnSet(W, M) = SumFunctionOnSet(P, M) + SumFunctionOnSet(X, M)
  <2>1. \A a \in M : P[a] \in Int /\ X[a] \in Int /\ W[a] = P[a] + X[a]
    BY <1>3
  <2> QED BY <1>2, <2>1, SumAdd
<1>6. SumFunctionOnSet(W, M) > 0
  <2>1. PICK a \in M : TRUE
    BY <1>1
  <2>2. \A b \in M : W[b] \in Int
    BY <1>3
  <2>3. SumFunctionOnSet(W, M) = W[a] + SumFunctionOnSet(W, M \ {a})
    BY <1>2, <2>2, SumStep
  <2>4. IsFiniteSet(M \ {a}) /\ \A b \in M \ {a} : W[b] \in Nat
    BY <1>2, <1>3, FS_Subset
  <2>5. SumFunctionOnSet(W, M \ {a}) \in Nat
    BY <2>4, SumNat
  <2> QED BY <1>3, <2>3, <2>5
<1> QED
  BY <1>1, <1>4, <1>5, <1>6

\* Nothing a cost row amounts to is above the largest amount that can be entered.
LEMMA LargestIs ==
  ASSUME Voucher!ConstantsSound, RowsTyped
  PROVE  Voucher!Largest \in Nat /\ \A s \in Sources : Voucher!SourceLine(s).total <= Voucher!Largest
<1> DEFINE T == {Voucher!SourceLine(s).total : s \in Sources} \union {0}
<1>1. T \subseteq Int /\ 0 \in T /\ T # {}
  BY SourceLineTyped
<1>2. IsFiniteSet(T)
  <2>1. IsFiniteSet({Voucher!SourceLine(s).total : s \in Sources})
    <3>1. [s \in Sources |-> Voucher!SourceLine(s).total]
             \in Surjection(Sources, {Voucher!SourceLine(s).total : s \in Sources})
      BY DEF Surjection
    <3> QED BY <3>1, FS_Surjection, SourcesFinite
  <2> QED BY <2>1, FS_AddElement
<1>3. Voucher!Largest = CHOOSE x \in T : \A y \in T : x >= y
  BY DEF Voucher!Largest, Voucher!Max
<1>4. \A s \in Sources : Voucher!SourceLine(s).total \in T
  OBVIOUS
<1> HIDE DEF T
<1>5. \E x \in T : \A y \in T : x >= y
  <2>1. PICK x \in T : \A y \in T : y <= x
    BY <1>1, <1>2, GreatestExists
  <2>2. \A y \in T : y \in Int /\ x \in Int /\ y <= x
    BY <1>1, <2>1
  <2>3. \A y \in T : x >= y
    BY <2>2
  <2> QED BY <2>3
<1>6. Voucher!Largest \in T /\ \A y \in T : Voucher!Largest >= y
  BY <1>3, <1>5
<1>7. Voucher!Largest \in Int /\ \A s \in Sources : Voucher!SourceLine(s).total \in Int
  BY <1>1, <1>4, <1>6
<1> QED
  BY <1>1, <1>4, <1>6, <1>7

\* What a person can enter is a division.
LEMMA EnteredDivides ==
  ASSUME Voucher!ConstantsSound, RowsTyped, NEW as \in Voucher!Entered
  PROVE  as \in Divisions
<1>1. 0..Voucher!Largest \subseteq Nat
  BY LargestIs
<1>2. PICK A \in (SUBSET AllocIds) \ {{}} :
         as \in [A -> [source: Sources, pretax: 0..Voucher!Largest, tax: 0..Voucher!Largest,
                      total: 0..Voucher!Largest]]
  BY DEF Voucher!Entered
<1>3. as \in [A -> [source: Sources, pretax: Nat, tax: Nat, total: Nat]]
  BY <1>1, <1>2
<1> QED
  BY <1>3 DEF Divisions

RowSound(s) ==
  /\ Voucher!SourceLine(s).pretax >= 0 /\ Voucher!SourceLine(s).tax >= 0
  /\ Voucher!SourceLine(s).total > 0
  /\ Voucher!SourceLine(s).pretax + Voucher!SourceLine(s).tax = Voucher!SourceLine(s).total

(* One allocation for each source divides an invoice whose rows balance.   *)
LEMMA WholeDivision ==
  ASSUME Voucher!ConstantsSound, RowsTyped, Injection(Sources, AllocIds) # {},
         \A s \in Sources : RowSound(s)
  PROVE  \E as \in Voucher!Entered : Voucher!AllocationsValid(as)
<1> DEFINE N == 0..Voucher!Largest
<1>1. PICK owner \in Injection(Sources, AllocIds) : TRUE
  OBVIOUS
<1>2. /\ owner \in [Sources -> AllocIds]
      /\ \A s, t \in Sources : owner[s] = owner[t] => s = t
  BY DEF Injection, IsInjective
<1> DEFINE A == {owner[s] : s \in Sources}
           Of(a) == CHOOSE s \in Sources : owner[s] = a
           as == [a \in A |-> [source |-> Of(a), pretax |-> Voucher!SourceLine(Of(a)).pretax,
                               tax |-> Voucher!SourceLine(Of(a)).tax,
                               total |-> Voucher!SourceLine(Of(a)).total]]
<1>3. \A s \in Sources : Of(owner[s]) = s /\ owner[s] \in A
  BY <1>2
<1>4. \A a \in A : Of(a) \in Sources /\ owner[Of(a)] = a
  OBVIOUS
<1>5. \A s \in Sources : /\ Voucher!SourceLine(s).pretax \in N /\ Voucher!SourceLine(s).tax \in N
                         /\ Voucher!SourceLine(s).total \in N
  <2> TAKE s \in Sources
  <2>1. /\ Voucher!SourceLine(s).pretax \in Int /\ Voucher!SourceLine(s).tax \in Int
        /\ Voucher!SourceLine(s).total \in Int
    BY SourceLineTyped
  <2>2. Voucher!SourceLine(s).total <= Voucher!Largest /\ Voucher!Largest \in Nat
    BY LargestIs
  <2>3. RowSound(s)
    OBVIOUS
  <2> QED BY <2>1, <2>2, <2>3 DEF RowSound
<1>6. A \in (SUBSET AllocIds) \ {{}}
  BY <1>2, SourcesFinite
<1> HIDE DEF Of, N, A
<1>7. as \in [A -> [source: Sources, pretax: N, tax: N, total: N]]
  BY <1>4, <1>5
<1>8. as \in Voucher!Entered
  BY <1>6, <1>7 DEF Voucher!Entered, N
<1>9. \A a \in DOMAIN as : as[a].source = Of(a) /\ RowSound(Of(a))
                         /\ as[a].pretax = Voucher!SourceLine(Of(a)).pretax
                         /\ as[a].tax = Voucher!SourceLine(Of(a)).tax
                         /\ as[a].total = Voucher!SourceLine(Of(a)).total
  BY <1>4
<1>10. DOMAIN as = A
  OBVIOUS
<1> HIDE DEF as
<1>11. \A a \in DOMAIN as : /\ as[a].pretax >= 0 /\ as[a].tax >= 0 /\ as[a].total >= 0
                           /\ as[a].pretax + as[a].tax = as[a].total /\ as[a].total > 0
  <2> TAKE a \in DOMAIN as
  <2>1. as[a].total \in Int
    BY <1>4, <1>9, <1>10, SourceLineTyped
  <2>2. /\ as[a].pretax \in Int /\ as[a].tax \in Int
        /\ Voucher!SourceLine(Of(a)).pretax >= 0 /\ Voucher!SourceLine(Of(a)).tax >= 0
        /\ Voucher!SourceLine(Of(a)).total > 0
        /\ Voucher!SourceLine(Of(a)).pretax + Voucher!SourceLine(Of(a)).tax = Voucher!SourceLine(Of(a)).total
    BY <1>4, <1>9, <1>10, SourceLineTyped DEF RowSound
  <2>3. /\ as[a].pretax = Voucher!SourceLine(Of(a)).pretax
        /\ as[a].tax = Voucher!SourceLine(Of(a)).tax
        /\ as[a].total = Voucher!SourceLine(Of(a)).total
    BY <1>9
  <2> QED BY <2>1, <2>2, <2>3
<1>12. ASSUME NEW s \in Sources
       PROVE  /\ Mine(as, s) # {}
              /\ Voucher!SourceLine(s) =
                   [pretax |-> SumFunctionOnSet(Field(as, "pretax"), Mine(as, s)),
                    tax |-> SumFunctionOnSet(Field(as, "tax"), Mine(as, s)),
                    total |-> SumFunctionOnSet(Field(as, "total"), Mine(as, s))]
  <2>1. Mine(as, s) = {owner[s]}
    BY <1>3, <1>4, <1>9, <1>10 DEF Mine
  <2>2. owner[s] \in DOMAIN as /\ Of(owner[s]) = s
    BY <1>3, <1>10
  <2>3. \A field \in {"pretax", "tax", "total"} : Field(as, field)[owner[s]] = as[owner[s]][field]
    BY <2>2 DEF Field
  <2>4. /\ Field(as, "pretax")[owner[s]] = Voucher!SourceLine(s).pretax
        /\ Field(as, "tax")[owner[s]] = Voucher!SourceLine(s).tax
        /\ Field(as, "total")[owner[s]] = Voucher!SourceLine(s).total
    BY <1>9, <2>2, <2>3
  <2>5. /\ SumFunctionOnSet(Field(as, "pretax"), Mine(as, s)) = Voucher!SourceLine(s).pretax
        /\ SumFunctionOnSet(Field(as, "tax"), Mine(as, s)) = Voucher!SourceLine(s).tax
        /\ SumFunctionOnSet(Field(as, "total"), Mine(as, s)) = Voucher!SourceLine(s).total
    BY <2>1, <2>4, SumSingle, SourceLineTyped
  <2>6. Voucher!SourceLine(s) \in [pretax: Int, tax: Int, total: Int]
    BY SourceLineTyped
  <2> QED BY <2>1, <2>5, <2>6
<1>13. Voucher!AllocationsCover(as)
  <2>1. \A s \in Sources :
          LET mine == {a \in DOMAIN as : as[a].source = s}
              OfField(field) == Voucher!SumFunctionOnSet([a \in DOMAIN as |-> as[a][field]], mine)
          IN /\ mine # {}
             /\ Voucher!SourceLine(s) = [pretax |-> OfField("pretax"), tax |-> OfField("tax"),
                                         total |-> OfField("total")]
    BY <1>12, SameSum DEF Mine, Field
  <2> QED BY <1>11, <2>1 DEF Voucher!AllocationsCover
<1> QED
  BY <1>8, <1>11, <1>13 DEF Voucher!AllocationsValid

\* A division is accepted exactly when every cost row balances and is of some amount.
LEMMA DecidableHolds ==
  ASSUME Voucher!ConstantsSound, RowsTyped, Injection(Sources, AllocIds) # {}
  PROVE  Voucher!DecidableExactly
<1>1. ASSUME NEW as \in Voucher!Entered, Voucher!AllocationsValid(as), NEW s \in Sources
      PROVE  RowSound(s)
  <2>1. as \in Divisions
    BY EnteredDivides
  <2>2. /\ Voucher!SourceLine(s).pretax \in Nat /\ Voucher!SourceLine(s).tax \in Nat
        /\ Voucher!SourceLine(s).total \in Nat /\ Voucher!SourceLine(s).total > 0
        /\ Voucher!SourceLine(s).pretax + Voucher!SourceLine(s).tax = Voucher!SourceLine(s).total
    BY <1>1, <2>1, RowsBalance
  <2> QED BY <2>2 DEF RowSound
<1> QED
  BY <1>1, WholeDivision DEF Voucher!DecidableExactly, RowSound

(* What a decision that was taken has left.                                *)
Taken(dec) ==
  /\ RowsTyped /\ allocs \in Divisions /\ Voucher!AllocationsValid(allocs)
  /\ lines = Voucher!Materialized(allocs, treatment, dec)
  /\ \A l \in lines : l.account \in Usable

OfCost(dec, a) == Voucher!CostLine(a, allocs, treatment, dec)
OfTax(dec, s) == Voucher!SourceLineOf(s, "input_tax", Voucher!SourceLine(s).tax, dec)
OfPayable(dec, s) == Voucher!SourceLineOf(s, "payable", Voucher!SourceLine(s).total, dec)

Taxed == {s \in Sources : treatment = "deductible" /\ Voucher!SourceLine(s).tax # 0}

\* The cost line of an allocation, field by field.
LEMMA CostFields ==
  ASSUME NEW dec, NEW a
  PROVE  /\ OfCost(dec, a).role = "cost" /\ OfCost(dec, a).allocs = {a}
         /\ OfCost(dec, a).source = allocs[a].source
         /\ OfCost(dec, a).amount = Voucher!CostOf(a)
         /\ OfCost(dec, a).id = <<allocs[a].source, "cost", a>>
BY DEF OfCost, Voucher!CostLine, Voucher!Line, Voucher!CostOf

\* The tax line of a cost row, field by field.
LEMMA TaxFields ==
  ASSUME NEW dec, NEW s
  PROVE  /\ OfTax(dec, s).role = "input_tax" /\ OfTax(dec, s).source = s
         /\ OfTax(dec, s).amount = Voucher!SourceLine(s).tax
         /\ OfTax(dec, s).id = <<s, "input_tax">>
BY DEF OfTax, Voucher!SourceLineOf, Voucher!Line, Voucher!Template

\* The payable line of a cost row, field by field.
LEMMA PayableFields ==
  ASSUME NEW dec, NEW s
  PROVE  /\ OfPayable(dec, s).role = "payable" /\ OfPayable(dec, s).source = s
         /\ OfPayable(dec, s).amount = Voucher!SourceLine(s).total
         /\ OfPayable(dec, s).id = <<s, "payable">>
BY DEF OfPayable, Voucher!SourceLineOf, Voucher!Line, Voucher!Template

\* The lines of a decided voucher are the cost lines, the tax lines and the payable lines.
LEMMA LinesAre ==
  ASSUME NEW dec, Taken(dec)
  PROVE  lines = {OfCost(dec, a) : a \in DOMAIN allocs} \union {OfTax(dec, s) : s \in Taxed}
                   \union {OfPayable(dec, s) : s \in Sources}
BY DEF Taken, Voucher!Materialized, OfCost, OfTax, OfPayable, Taxed

\* A decided voucher has finitely many lines.
LEMMA LinesFinite ==
  ASSUME Voucher!ConstantsSound, NEW dec, Taken(dec)
  PROVE  IsFiniteSet(lines)
<1> DEFINE C == {OfCost(dec, a) : a \in DOMAIN allocs}
           X == {OfTax(dec, s) : s \in Taxed}
           P == {OfPayable(dec, s) : s \in Sources}
<1>1. IsFiniteSet(DOMAIN allocs) /\ IsFiniteSet(Taxed) /\ IsFiniteSet(Sources)
  <2>1. Taxed \subseteq Sources
    BY DEF Taxed
  <2> QED BY <2>1, SourcesFinite, FS_Subset, DivisionTyped DEF Taken
<1>2. IsFiniteSet(C)
  <2>1. [a \in DOMAIN allocs |-> OfCost(dec, a)] \in Surjection(DOMAIN allocs, C)
    BY DEF Surjection
  <2> QED BY <1>1, <2>1, FS_Surjection
<1>3. IsFiniteSet(X)
  <2>1. [s \in Taxed |-> OfTax(dec, s)] \in Surjection(Taxed, X)
    BY DEF Surjection
  <2> QED BY <1>1, <2>1, FS_Surjection
<1>4. IsFiniteSet(P)
  <2>1. [s \in Sources |-> OfPayable(dec, s)] \in Surjection(Sources, P)
    BY DEF Surjection
  <2> QED BY <1>1, <2>1, FS_Surjection
<1>5. lines = (C \union X) \union P
  BY LinesAre
<1> HIDE DEF C, X, P
<1> QED
  BY <1>2, <1>3, <1>4, <1>5, FS_Union

Amounts == [l \in lines |-> l.amount]
OfRole(role) == {l \in lines : l.role = role}
Rows(field) == [s \in Sources |-> Voucher!SourceLine(s)[field]]

\* The lines of a role are those that were made for it.
LEMMA LinesByRole ==
  ASSUME NEW dec, Taken(dec)
  PROVE  /\ OfRole("cost") = {OfCost(dec, a) : a \in DOMAIN allocs}
         /\ OfRole("input_tax") = {OfTax(dec, s) : s \in Taxed}
         /\ OfRole("payable") = {OfPayable(dec, s) : s \in Sources}
         /\ \A a \in DOMAIN allocs : OfCost(dec, a) \in lines /\ Amounts[OfCost(dec, a)] = Voucher!CostOf(a)
         /\ \A s \in Taxed : /\ OfTax(dec, s) \in lines
                             /\ Amounts[OfTax(dec, s)] = Voucher!SourceLine(s).tax
         /\ \A s \in Sources : /\ OfPayable(dec, s) \in lines
                               /\ Amounts[OfPayable(dec, s)] = Voucher!SourceLine(s).total
<1>1. \A a \in DOMAIN allocs : OfCost(dec, a) \in lines
  BY LinesAre
<1>2. \A s \in Taxed : OfTax(dec, s) \in lines
  BY LinesAre
<1>3. \A s \in Sources : OfPayable(dec, s) \in lines
  BY LinesAre
<1>4. ASSUME NEW l \in lines
      PROVE  \/ \E a \in DOMAIN allocs : l = OfCost(dec, a)
             \/ \E s \in Taxed : l = OfTax(dec, s)
             \/ \E s \in Sources : l = OfPayable(dec, s)
  BY LinesAre
<1>5. \A a, s : /\ OfCost(dec, a).role = "cost" /\ OfTax(dec, s).role = "input_tax"
                /\ OfPayable(dec, s).role = "payable"
  BY CostFields, TaxFields, PayableFields
<1>6. \A l \in lines : Amounts[l] = l.amount
  BY DEF Amounts
<1>7. OfRole("cost") = {OfCost(dec, a) : a \in DOMAIN allocs}
  BY <1>1, <1>4, <1>5 DEF OfRole
<1>8. OfRole("input_tax") = {OfTax(dec, s) : s \in Taxed}
  BY <1>2, <1>4, <1>5 DEF OfRole
<1>9. OfRole("payable") = {OfPayable(dec, s) : s \in Sources}
  BY <1>3, <1>4, <1>5 DEF OfRole
<1>10. \A a \in DOMAIN allocs : OfCost(dec, a) \in lines /\ Amounts[OfCost(dec, a)] = Voucher!CostOf(a)
  BY <1>1, <1>6, CostFields, TaxFields, PayableFields
<1>11. \A s \in Taxed : OfTax(dec, s) \in lines /\ Amounts[OfTax(dec, s)] = Voucher!SourceLine(s).tax
  BY <1>2, <1>6, CostFields, TaxFields, PayableFields
<1>12. \A s \in Sources : /\ OfPayable(dec, s) \in lines
                          /\ Amounts[OfPayable(dec, s)] = Voucher!SourceLine(s).total
  BY <1>3, <1>6, CostFields, TaxFields, PayableFields
<1> QED
  BY <1>7, <1>8, <1>9, <1>10, <1>11, <1>12

\* The totals of the validator are sums over the lines of a role and over the cost rows.
LEMMA TotalsAre ==
  /\ \A role : Voucher!RoleTotal(role) = SumFunctionOnSet(Amounts, OfRole(role))
  /\ \A field : Voucher!SourceTotal(field) = SumFunctionOnSet(Rows(field), Sources)
BY SameSum DEF Voucher!RoleTotal, Voucher!SourceTotal, Amounts, OfRole, Rows

\* The amounts of the cost rows are whole numbers of cents.
LEMMA RowsInt ==
  ASSUME RowsTyped
  PROVE  \A s \in Sources : /\ Rows("pretax")[s] = Voucher!SourceLine(s).pretax
                            /\ Rows("tax")[s] = Voucher!SourceLine(s).tax
                            /\ Rows("total")[s] = Voucher!SourceLine(s).total
                            /\ Voucher!SourceLine(s).pretax \in Int /\ Voucher!SourceLine(s).tax \in Int
                            /\ Voucher!SourceLine(s).total \in Int
BY SourceLineTyped DEF Rows

(* The payable lines are of the totals of the rows.                        *)
LEMMA PayableTotal ==
  ASSUME Voucher!ConstantsSound, NEW dec, Taken(dec)
  PROVE  Voucher!RoleTotal("payable") = Voucher!SourceTotal("total")
<1> DEFINE h == [s \in Sources |-> OfPayable(dec, s)]
<1>1. OfRole("payable") = {h[s] : s \in Sources}
  BY LinesByRole
<1>2. \A s \in Sources : h[s] \in lines /\ Amounts[h[s]] = Voucher!SourceLine(s).total /\ h[s].source = s
  BY LinesByRole, CostFields, TaxFields, PayableFields
<1>3. \A s, t \in Sources : h[s] = h[t] => s = t
  BY <1>2
<1>4. \A s \in Sources : Amounts[h[s]] \in Int /\ Amounts[h[s]] = Rows("total")[s]
  BY <1>2, RowsInt DEF Taken
<1> HIDE DEF h
<1>5. SumFunctionOnSet(Amounts, {h[s] : s \in Sources})
         = SumFunctionOnSet([s \in Sources |-> Amounts[h[s]]], Sources)
  BY <1>3, <1>4, SourcesFinite, SumImage
<1>6. SumFunctionOnSet([s \in Sources |-> Amounts[h[s]]], Sources)
         = SumFunctionOnSet(Rows("total"), Sources)
  BY <1>4, SourcesFinite, SumEqual
<1> QED
  BY <1>1, <1>5, <1>6, TotalsAre

(* The lines of a tax that can be deducted are of the taxes of the rows.   *)
LEMMA TaxTotal ==
  ASSUME Voucher!ConstantsSound, NEW dec, Taken(dec)
  PROVE  /\ treatment = "deductible" => Voucher!RoleTotal("input_tax") = Voucher!SourceTotal("tax")
         /\ treatment # "deductible" => Voucher!RoleTotal("input_tax") = 0
<1> DEFINE h == [s \in Taxed |-> OfTax(dec, s)]
<1>1. OfRole("input_tax") = {h[s] : s \in Taxed}
  BY LinesByRole
<1>2. \A s \in Taxed : h[s] \in lines /\ Amounts[h[s]] = Voucher!SourceLine(s).tax /\ h[s].source = s
  BY LinesByRole, CostFields, TaxFields, PayableFields
<1>3. \A s, t \in Taxed : h[s] = h[t] => s = t
  BY <1>2
<1>4. \A s \in Taxed : Amounts[h[s]] \in Int /\ Amounts[h[s]] = Rows("tax")[s]
  BY <1>2, RowsInt DEF Taken, Taxed
<1>5. Taxed \subseteq Sources /\ IsFiniteSet(Taxed)
  <2>1. Taxed \subseteq Sources
    BY DEF Taxed
  <2> QED BY <2>1, SourcesFinite, FS_Subset
<1> HIDE DEF h
<1>6. SumFunctionOnSet(Amounts, {h[s] : s \in Taxed})
         = SumFunctionOnSet([s \in Taxed |-> Amounts[h[s]]], Taxed)
  BY <1>3, <1>4, <1>5, SumImage
<1>7. SumFunctionOnSet([s \in Taxed |-> Amounts[h[s]]], Taxed) = SumFunctionOnSet(Rows("tax"), Taxed)
  BY <1>4, <1>5, SumEqual
<1>8. ASSUME treatment = "deductible"
      PROVE  SumFunctionOnSet(Rows("tax"), Taxed) = SumFunctionOnSet(Rows("tax"), Sources)
  <2>1. \A s \in Sources : Rows("tax")[s] \in Int
    BY RowsInt DEF Taken
  <2>2. \A s \in Sources \ Taxed : Rows("tax")[s] = 0
    BY <1>8, RowsInt DEF Taken, Taxed
  <2>3. SumFunctionOnSet(Rows("tax"), Sources)
           = SumFunctionOnSet(Rows("tax"), Taxed) + SumFunctionOnSet(Rows("tax"), Sources \ Taxed)
    BY <1>5, <2>1, SourcesFinite, SumSplit
  <2>4. SumFunctionOnSet(Rows("tax"), Sources \ Taxed) = 0
    BY <2>2, SourcesFinite, FS_Subset, SumZero
  <2>5. SumFunctionOnSet(Rows("tax"), Taxed) \in Int
    BY <1>5, <2>1, SumInt
  <2> QED BY <2>3, <2>4, <2>5
<1>9. treatment # "deductible" => Taxed = {}
  BY DEF Taxed
<1> QED
  BY <1>1, <1>6, <1>7, <1>8, <1>9, TotalsAre, SumEmpty

(* The cost lines are of what the rows of their sources cost.              *)
LEMMA CostTotal ==
  ASSUME Voucher!ConstantsSound, NEW dec, Taken(dec)
  PROVE  Voucher!RoleTotal("cost")
            = Voucher!SourceTotal(IF treatment = "non_deductible" THEN "total" ELSE "pretax")
<1> DEFINE D == DOMAIN allocs
           h == [a \in D |-> OfCost(dec, a)]
           field == IF treatment = "non_deductible" THEN "total" ELSE "pretax"
           c == Field(allocs, field)
           p == [a \in D |-> allocs[a].source]
<1>0. field \in {"pretax", "total"}
  OBVIOUS
<1>1. OfRole("cost") = {h[a] : a \in D}
  BY LinesByRole
<1>2. \A a \in D : c[a] = Voucher!CostOf(a) /\ c[a] \in Int /\ p[a] \in Sources
  BY DivisionTyped DEF Taken, Field, Voucher!CostOf
<1>3. \A a \in D : h[a] \in lines /\ Amounts[h[a]] = c[a] /\ h[a].allocs = {a}
  BY <1>2, LinesByRole, CostFields, TaxFields, PayableFields
<1>4. \A a, b \in D : h[a] = h[b] => a = b
  <2>1. \A a, b \in D : h[a] = h[b] => {a} = {b}
    BY <1>3
  <2> QED BY <2>1
<1>5. IsFiniteSet(D)
  BY DivisionTyped DEF Taken
<1>6. \A s \in Sources : SumFunctionOnSet(c, Mine(allocs, s)) = Rows(field)[s]
  BY CoverSays, RowsInt DEF Taken
<1>7. \A s \in Sources : {a \in D : p[a] = s} = Mine(allocs, s)
  BY DEF Mine
<1> HIDE DEF h, c, p, field, D
<1>8. SumFunctionOnSet(Amounts, {h[a] : a \in D}) = SumFunctionOnSet([a \in D |-> Amounts[h[a]]], D)
  BY <1>2, <1>3, <1>4, <1>5, SumImage
<1>9. SumFunctionOnSet([a \in D |-> Amounts[h[a]]], D) = SumFunctionOnSet(c, D)
  BY <1>3, <1>5, SumEqual
<1>10. SumFunctionOnSet(c, D)
          = SumFunctionOnSet([s \in Sources |-> SumFunctionOnSet(c, {a \in D : p[a] = s})], Sources)
  BY <1>2, <1>5, SourcesFinite, SumGroups
<1>11. SumFunctionOnSet([s \in Sources |-> SumFunctionOnSet(c, {a \in D : p[a] = s})], Sources)
          = SumFunctionOnSet(Rows(field), Sources)
  <2> DEFINE g == [s \in Sources |-> SumFunctionOnSet(c, {a \in D : p[a] = s})]
  <2>1. \A s \in Sources : g[s] = Rows(field)[s]
    BY <1>6, <1>7
  <2> HIDE DEF g
  <2>2. SumFunctionOnSet(g, Sources) = SumFunctionOnSet(Rows(field), Sources)
    BY <2>1, SourcesFinite, SumEqual
  <2> QED BY <2>2 DEF g
<1> QED
  BY <1>1, <1>8, <1>9, <1>10, <1>11, TotalsAre DEF field

\* The id of a cost line is never the id of a source and a role.
LEMMA TupleLengths == \A a, b, c, d, e : <<a, b, c>> # <<d, e>>
<1> TAKE a, b, c, d, e
<1>1. 3 \in DOMAIN <<a, b, c>> /\ 3 \notin DOMAIN <<d, e>>
  OBVIOUS
<1> QED
  BY <1>1

(* What the validator says of one line.                                    *)
LEMMA LineBlockersAre ==
  ASSUME Voucher!ConstantsSound, NEW dec, Taken(dec), NEW l \in lines
  PROVE  Voucher!LineBlockers(l) \subseteq Voucher!LetThrough
<1>1. l.account \in Usable /\ l.account \in Accounts /\ l.account # NoAccount
  BY DEF Taken, Voucher!ConstantsSound
<1>2. CASE \E a \in DOMAIN allocs : l = OfCost(dec, a)
  <2>1. PICK a \in DOMAIN allocs : l = OfCost(dec, a)
    BY <1>2
  <2>2. /\ l.role = "cost" /\ l.allocs = {a} /\ l.source = allocs[a].source
        /\ l.amount = Voucher!CostOf(a)
    BY <2>1, CostFields
  <2>3. (CHOOSE x \in l.allocs : TRUE) = a
    BY <2>2
  <2>4. l.source \in Sources /\ Voucher!CostOf(a) \in Nat
    BY <2>2, DivisionTyped DEF Taken, Voucher!CostOf
  <2>5. \E x \in DOMAIN allocs : l.allocs = {x}
    BY <2>2
  <2>6. Voucher!LineBlockers(l) \subseteq {"LINE_AMOUNT_INVALID", "AUX_REQUIRED"}
    BY <1>1, <2>2, <2>3, <2>4, <2>5 DEF Voucher!LineBlockers
  <2>7. "LINE_AMOUNT_INVALID" \in Voucher!LineBlockers(l) => l.amount <= 0
    BY DEF Voucher!LineBlockers
  <2>8. "AUX_REQUIRED" \in Voucher!LineBlockers(l) => l.account \in Incomplete
    BY DEF Voucher!LineBlockers
  <2> QED
    BY <2>2, <2>4, <2>6, <2>7, <2>8 DEF Voucher!LetThrough
<1>3. ASSUME l.role # "cost", l.source \in Sources, l.amount \in Nat, l.amount # 0
      PROVE  Voucher!LineBlockers(l) \subseteq Voucher!LetThrough
  <2>1. \A b : b \in Voucher!LineBlockers(l)
                  => b \in {"LINE_SOURCE_BINDING_INVALID", "LINE_ALLOCATION_BINDING_INVALID",
                            "LINE_ALLOCATION_SOURCE_MISMATCH", "LINE_AMOUNT_INVALID",
                            "LINE_ALLOCATION_AMOUNT_MISMATCH", "ACCOUNT_CODE_MISSING",
                            "ACCOUNT_NOT_FOUND", "ACCOUNT_DISABLED",
                            "PURCHASE_CREDIT_NOT_LIABILITY", "AUX_REQUIRED"}
    BY DEF Voucher!LineBlockers
  <2>2. "LINE_SOURCE_BINDING_INVALID" \notin Voucher!LineBlockers(l)
    BY <1>3 DEF Voucher!LineBlockers
  <2>3. "LINE_ALLOCATION_BINDING_INVALID" \notin Voucher!LineBlockers(l)
    BY <1>3 DEF Voucher!LineBlockers
  <2>4. "LINE_ALLOCATION_SOURCE_MISMATCH" \notin Voucher!LineBlockers(l)
    BY <1>3 DEF Voucher!LineBlockers
  <2>5. "LINE_AMOUNT_INVALID" \notin Voucher!LineBlockers(l)
    BY <1>3 DEF Voucher!LineBlockers
  <2>6. "LINE_ALLOCATION_AMOUNT_MISMATCH" \notin Voucher!LineBlockers(l)
    BY <1>3 DEF Voucher!LineBlockers
  <2>7. "ACCOUNT_CODE_MISSING" \notin Voucher!LineBlockers(l)
    BY <1>1 DEF Voucher!LineBlockers
  <2>8. "ACCOUNT_DISABLED" \notin Voucher!LineBlockers(l)
    BY <1>1 DEF Voucher!LineBlockers
  <2>9. "ACCOUNT_NOT_FOUND" \notin Voucher!LineBlockers(l)
    BY <1>1 DEF Voucher!LineBlockers
  <2>10. "PURCHASE_CREDIT_NOT_LIABILITY" \in Voucher!LineBlockers(l)
            => l.role = "payable" /\ l.account \notin Liabilities
    BY DEF Voucher!LineBlockers
  <2>11. "AUX_REQUIRED" \in Voucher!LineBlockers(l) => l.account \in Incomplete
    BY DEF Voucher!LineBlockers
  <2> QED
    BY <2>1, <2>2, <2>3, <2>4, <2>5, <2>6, <2>7, <2>8, <2>9, <2>10, <2>11 DEF Voucher!LetThrough
<1>4. CASE \E s \in Taxed : l = OfTax(dec, s)
  <2>1. PICK s \in Taxed : l = OfTax(dec, s)
    BY <1>4
  <2>2. s \in Sources /\ Voucher!SourceLine(s).tax # 0
    BY DEF Taxed
  <2>3. Voucher!SourceLine(s).tax \in Nat
    BY <2>2, RowsBalance DEF Taken
  <2> QED
    BY <1>3, <2>1, <2>2, <2>3, TaxFields
<1>5. CASE \E s \in Sources : l = OfPayable(dec, s)
  <2>1. PICK s \in Sources : l = OfPayable(dec, s)
    BY <1>5
  <2>2. Voucher!SourceLine(s).total \in Nat /\ Voucher!SourceLine(s).total > 0
    BY RowsBalance DEF Taken
  <2> QED
    BY <1>3, <2>1, <2>2, PayableFields
<1> QED
  BY <1>2, <1>4, <1>5, LinesAre

\* The lines are counted as everybody counts.
LEMMA SameCount == \A S : Voucher!Cardinality(S) = Cardinality(S)
BY DEF Voucher!Cardinality, Cardinality

(* Every allocation has its cost line, and only one.                       *)
LEMMA OneCostLine ==
  ASSUME NEW dec, Taken(dec), NEW a \in DOMAIN allocs
  PROVE  Cardinality({l \in lines : l.role = "cost" /\ l.allocs = {a}}) = 1
<1>1. {l \in lines : l.role = "cost" /\ l.allocs = {a}} = {OfCost(dec, a)}
  <2>1. ASSUME NEW l \in lines, l.role = "cost", l.allocs = {a} PROVE l = OfCost(dec, a)
    <3>1. PICK b \in DOMAIN allocs : l = OfCost(dec, b)
      <4>1. l \in OfRole("cost")
        BY <2>1 DEF OfRole
      <4> QED BY <4>1, LinesByRole
    <3>2. l.allocs = {b}
      BY <3>1, CostFields
    <3> QED BY <2>1, <3>1, <3>2
  <2>2. OfCost(dec, a) \in lines /\ OfCost(dec, a).role = "cost" /\ OfCost(dec, a).allocs = {a}
    BY LinesByRole, CostFields
  <2> QED BY <2>1, <2>2
<1> QED
  BY <1>1, FS_Singleton

\* A decided voucher has a cost line and a payable line.
LEMMA TwoLines ==
  ASSUME Voucher!ConstantsSound, NEW dec, Taken(dec)
  PROVE  Cardinality(lines) >= 2
<1>1. PICK s \in Sources : TRUE
  BY SourcesFinite
<1>2. PICK a \in DOMAIN allocs : TRUE
  BY <1>1, CoverSays DEF Taken, Mine
<1> DEFINE l == OfCost(dec, a)
           k == OfPayable(dec, s)
<1>3. l \in lines /\ k \in lines /\ l # k
  <2>1. l.role = "cost" /\ k.role = "payable"
    BY CostFields, PayableFields
  <2> QED BY <2>1, LinesByRole
<1> HIDE DEF l, k
<1>4. IsFiniteSet({l, k}) /\ Cardinality({l, k}) = 2
  <2>1. IsFiniteSet({l}) /\ Cardinality({l}) = 1
    BY FS_Singleton
  <2>2. {l, k} = {l} \union {k} /\ k \notin {l}
    BY <1>3
  <2> QED BY <2>1, <2>2, FS_AddElement
<1>5. {l, k} \subseteq lines /\ IsFiniteSet(lines)
  BY <1>3, LinesFinite
<1>6. Cardinality({l, k}) <= Cardinality(lines) /\ Cardinality(lines) \in Nat
  BY <1>5, FS_Subset, FS_CardinalityType
<1> QED
  BY <1>4, <1>6

(* The totals of a decision pass as soon as the tax is settled.            *)
LEMMA TotalsPass ==
  ASSUME Voucher!ConstantsSound, NEW dec, Taken(dec), treatment \in {"deductible", "non_deductible"}
  PROVE  Voucher!TotalBlockers = {}
<1>1. Voucher!SourceTotal("pretax") \in Int /\ Voucher!SourceTotal("tax") \in Int
      /\ Voucher!SourceTotal("pretax") + Voucher!SourceTotal("tax") = Voucher!SourceTotal("total")
  <2>1. \A s \in Sources : /\ Rows("pretax")[s] \in Int /\ Rows("tax")[s] \in Int
                           /\ Rows("total")[s] = Rows("pretax")[s] + Rows("tax")[s]
    <3> TAKE s \in Sources
    <3>1. Voucher!SourceLine(s).pretax + Voucher!SourceLine(s).tax = Voucher!SourceLine(s).total
      BY RowsBalance DEF Taken
    <3> QED BY <3>1, RowsInt DEF Taken
  <2>2. SumFunctionOnSet(Rows("pretax"), Sources) \in Int /\ SumFunctionOnSet(Rows("tax"), Sources) \in Int
    BY <2>1, SourcesFinite, SumInt
  <2>3. SumFunctionOnSet(Rows("total"), Sources)
           = SumFunctionOnSet(Rows("pretax"), Sources) + SumFunctionOnSet(Rows("tax"), Sources)
    BY <2>1, SourcesFinite, SumAdd
  <2> QED BY <2>2, <2>3, TotalsAre
<1>2. Voucher!RoleTotal("payable") = Voucher!SourceTotal("total")
  BY PayableTotal
<1>3. treatment = "deductible" => /\ Voucher!RoleTotal("input_tax") = Voucher!SourceTotal("tax")
                                  /\ Voucher!RoleTotal("cost") = Voucher!SourceTotal("pretax")
  BY TaxTotal, CostTotal
<1>4. treatment = "non_deductible" => /\ Voucher!RoleTotal("input_tax") = 0
                                      /\ Voucher!RoleTotal("cost") = Voucher!SourceTotal("total")
  BY TaxTotal, CostTotal
<1>5. Voucher!DebitTotal = Voucher!RoleTotal("payable")
  BY <1>1, <1>2, <1>3, <1>4 DEF Voucher!DebitTotal
<1>6. ~ (Voucher!Cardinality(lines) < 2)
  <2>1. Cardinality(lines) >= 2 /\ Cardinality(lines) \in Nat
    BY TwoLines, LinesFinite, FS_CardinalityType
  <2> QED BY <2>1, SameCount
<1>7. ~ \E a \in DOMAIN allocs :
          Voucher!Cardinality({l \in lines : l.role = "cost" /\ l.allocs = {a}}) # 1
  BY OneCostLine, SameCount
<1> QED
  BY <1>2, <1>3, <1>4, <1>5, <1>6, <1>7 DEF Voucher!TotalBlockers

\* What a decision leaves passes the validator, but for what a decision lets through.
LEMMA DecisionHolds ==
  ASSUME Voucher!ConstantsSound, NEW dec, Taken(dec), treatment \in {"deductible", "non_deductible"}
  PROVE  Voucher!Blockers \subseteq Voucher!LetThrough
<1>1. Voucher!SourcesSound
  BY RowsBalance DEF Taken, Voucher!SourcesSound
<1>2. Voucher!AllocationBlockers = {}
  BY DEF Taken, Voucher!AllocationsValid, Voucher!AllocationBlockers
<1>3. Voucher!TotalBlockers = {}
  BY TotalsPass
<1>4. treatment # "pending"
  OBVIOUS
<1> QED
  BY <1>1, <1>2, <1>3, <1>4, LineBlockersAre DEF Voucher!Blockers

-----------------------------------------------------------------------------
(* The invariant: the rows stay, and a voucher that a person decided has   *)
(* the lines of a division that covers them.                               *)
VoucherInv ==
  /\ RowsTyped /\ Injection(Sources, AllocIds) # {}
  /\ Voucher!TypeOK
  /\ tier = "manual_confirmed" => \E dec : Taken(dec)

\* The invariant holds of every draft.
LEMMA VoucherStart ==
  ASSUME Voucher!ConstantsSound, Voucher!Init
  PROVE  VoucherInv
<1>1. RowsTyped
  BY DEF Voucher!Init, Voucher!ConstantsSound, RowsTyped
<1>2. PICK owner \in Voucher!Injection(Sources, AllocIds) :
         lines = Voucher!DraftLines(owner) /\ allocs = Voucher!DraftAllocs(owner)
  BY DEF Voucher!Init
<1>3. owner \in Injection(Sources, AllocIds) /\ owner \in [Sources -> AllocIds]
  BY DEF Voucher!Injection, Injection, Voucher!IsInjective, IsInjective
<1>4. Voucher!TypeOK
  <2> DEFINE C(s) == Voucher!Line(<<s, "cost">>, "cost", Voucher!SourceLine(s).pretax, answer["cost"], s, {owner[s]})
             P(s) == Voucher!Line(<<s, "payable">>, "payable", Voucher!SourceLine(s).total, answer["payable"], s, {})
             X(s) == Voucher!Line(<<s, "input_tax">>, "input_tax", Voucher!SourceLine(s).tax, answer["input_tax"], s, {})
  <2>1. \A l \in lines : \E s \in Sources : l = C(s) \/ l = P(s) \/ l = X(s)
    BY <1>2 DEF Voucher!DraftLines, Voucher!Template
  <2>2. ASSUME NEW s \in Sources
        PROVE  /\ C(s).id = <<s, "cost">> /\ C(s).role = "cost" /\ C(s).dir = "debit"
               /\ C(s).amount \in Int /\ C(s).source = s /\ C(s).account = answer["cost"]
               /\ P(s).id = <<s, "payable">> /\ P(s).role = "payable" /\ P(s).dir = "credit"
               /\ P(s).amount \in Int /\ P(s).source = s /\ P(s).account = answer["payable"]
               /\ X(s).id = <<s, "input_tax">> /\ X(s).role = "input_tax" /\ X(s).dir = "debit"
               /\ X(s).amount \in Int /\ X(s).source = s /\ X(s).account = answer["input_tax"]
    BY <1>1, SourceLineTyped DEF Voucher!Line, Voucher!Direction
  <2> HIDE DEF C, P, X
  <2>3. ASSUME NEW l \in lines
        PROVE  /\ l.id = <<l.source, l.role>> /\ l.role \in Voucher!Roles /\ l.dir = Voucher!Direction(l.role)
               /\ l.amount \in Int /\ l.source \in Sources /\ l.account = answer[l.role]
               /\ \/ l.role = "cost" /\ l = C(l.source)
                  \/ l.role = "payable" /\ l = P(l.source)
                  \/ l.role = "input_tax" /\ l = X(l.source)
    <3>1. PICK s \in Sources : l = C(s) \/ l = P(s) \/ l = X(s)
      BY <2>1
    <3>2. CASE l = C(s)
      BY <2>2, <3>2 DEF Voucher!Roles, Voucher!Direction
    <3>3. CASE l = P(s)
      BY <2>2, <3>3 DEF Voucher!Roles, Voucher!Direction
    <3>4. CASE l = X(s)
      BY <2>2, <3>4 DEF Voucher!Roles, Voucher!Direction
    <3> QED BY <3>1, <3>2, <3>3, <3>4
  <2>4. \A l, k \in lines : l.id = k.id => l = k
    <3> SUFFICES ASSUME NEW l \in lines, NEW k \in lines, l.id = k.id PROVE l = k
      OBVIOUS
    <3>1. l.source = k.source /\ l.role = k.role
      BY <2>3
    <3> QED BY <2>3, <3>1
  <2>5. \A l \in lines : l.id \in Voucher!LineIds
    BY <2>3 DEF Voucher!LineIds, Voucher!Template
  <2>6. DOMAIN allocs \subseteq AllocIds
    BY <1>2, <1>3 DEF Voucher!DraftAllocs
  <2>7. treatment \in Voucher!Treatments /\ DOMAIN templates = {}
    BY DEF Voucher!Init, Voucher!Treatments
  <2>8. tier \in {"auto", "ai_suggested", "forced_manual", "manual_confirmed"}
    BY DEF Voucher!Init, Voucher!Tier
  <2> QED BY <2>3, <2>4, <2>5, <2>6, <2>7, <2>8 DEF Voucher!TypeOK
<1>5. tier # "manual_confirmed"
  BY DEF Voucher!Init, Voucher!Tier
<1> QED
  BY <1>1, <1>3, <1>4, <1>5 DEF VoucherInv

(* The lines of a decision have their types, and ids of their own.         *)
LEMMA MaterializedTyped ==
  ASSUME Voucher!ConstantsSound, RowsTyped, NEW as \in Divisions, NEW t, NEW dec
  PROVE  /\ \A l \in Voucher!Materialized(as, t, dec) :
              /\ l.id \in Voucher!LineIds /\ l.role \in Voucher!Roles
              /\ l.dir = Voucher!Direction(l.role) /\ l.amount \in Int /\ l.source \in Sources
         /\ \A l, k \in Voucher!Materialized(as, t, dec) : l.id = k.id => l = k
<1> DEFINE C(a) == Voucher!CostLine(a, as, t, dec)
           P(s) == Voucher!SourceLineOf(s, "payable", Voucher!SourceLine(s).total, dec)
           X(s) == Voucher!SourceLineOf(s, "input_tax", Voucher!SourceLine(s).tax, dec)
           ls == Voucher!Materialized(as, t, dec)
<1>1. \A l \in ls : \/ \E a \in DOMAIN as : l = C(a)
                    \/ \E s \in Sources : l = P(s)
                    \/ \E s \in Sources : l = X(s)
  BY DEF Voucher!Materialized
<1>2. ASSUME NEW a \in DOMAIN as
      PROVE  /\ C(a).id = <<as[a].source, "cost", a>> /\ C(a).role = "cost" /\ C(a).dir = "debit"
             /\ C(a).amount \in Int /\ C(a).source = as[a].source /\ as[a].source \in Sources
             /\ a \in AllocIds
  <2>1. /\ as[a].source \in Sources /\ as[a].total \in Int /\ as[a].pretax \in Int /\ a \in AllocIds
    <3>1. DOMAIN as \subseteq AllocIds
      BY DivisionTyped
    <3>2. as \in [DOMAIN as -> [source: Sources, pretax: Nat, tax: Nat, total: Nat]]
      BY DivisionTyped
    <3>3. as[a] \in [source: Sources, pretax: Nat, tax: Nat, total: Nat]
      BY <3>2
    <3>4. as[a].source \in Sources /\ as[a].pretax \in Nat /\ as[a].total \in Nat
      BY <3>3
    <3>5. a \in AllocIds
      BY <3>1
    <3>6. \A k \in Nat : k \in Int
      OBVIOUS
    <3> QED BY <3>4, <3>5, <3>6
  <2>2. PICK n : n = IF t = "non_deductible" THEN as[a].total ELSE as[a].pretax
    OBVIOUS
  <2>3. PICK acc : acc = Voucher!Decided(<<as[a].source, "cost", a>>,
                                         Voucher!Template(as[a].source, "cost"), dec)
    OBVIOUS
  <2>4. C(a) = Voucher!Line(<<as[a].source, "cost", a>>, "cost", n, acc, as[a].source, {a})
    BY <2>2, <2>3 DEF Voucher!CostLine
  <2>5. n \in Int
    BY <2>1, <2>2
  <2>6. PICK i, s : i = <<as[a].source, "cost", a>> /\ s = as[a].source
    OBVIOUS
  <2>7. C(a) = Voucher!Line(i, "cost", n, acc, s, {a})
    BY <2>4, <2>6
  <2> HIDE DEF C
  <2>8. C(a).id = i /\ C(a).role = "cost" /\ C(a).dir = "debit" /\ C(a).amount = n /\ C(a).source = s
    BY <2>7 DEF Voucher!Line, Voucher!Direction
  <2> QED
    BY <2>1, <2>5, <2>6, <2>8
<1>3. ASSUME NEW s \in Sources
      PROVE  /\ P(s).id = <<s, "payable">> /\ P(s).role = "payable" /\ P(s).dir = "credit"
             /\ P(s).amount \in Int /\ P(s).source = s
             /\ X(s).id = <<s, "input_tax">> /\ X(s).role = "input_tax" /\ X(s).dir = "debit"
             /\ X(s).amount \in Int /\ X(s).source = s
  BY SourceLineTyped DEF Voucher!SourceLineOf, Voucher!Line, Voucher!Template, Voucher!Direction
<1> HIDE DEF C, P, X, ls
<1>4. ASSUME NEW l \in ls
      PROVE  /\ l.id \in Voucher!LineIds /\ l.role \in Voucher!Roles
             /\ l.dir = Voucher!Direction(l.role) /\ l.amount \in Int /\ l.source \in Sources
  <2>1. CASE \E a \in DOMAIN as : l = C(a)
    <3>1. PICK a \in DOMAIN as : l = C(a)
      BY <2>1
    <3>2. /\ l.id = <<as[a].source, "cost", a>> /\ l.role = "cost" /\ l.dir = "debit"
          /\ l.amount \in Int /\ l.source \in Sources /\ as[a].source \in Sources /\ a \in AllocIds
      BY <1>2, <3>1
    <3>3. PICK s \in Sources : s = as[a].source
      BY <3>2
    <3>4. <<s, "cost", a>> \in Voucher!LineIds
      BY <3>2 DEF Voucher!LineIds
    <3>5. l.id \in Voucher!LineIds
      BY <3>2, <3>3, <3>4
    <3> QED
      BY <3>2, <3>5 DEF Voucher!Roles, Voucher!Direction
  <2>2. CASE \E s \in Sources : l = P(s)
    <3>1. PICK s \in Sources : l = P(s)
      BY <2>2
    <3>2. /\ l.id = <<s, "payable">> /\ l.role = "payable" /\ l.dir = "credit"
          /\ l.amount \in Int /\ l.source \in Sources
      BY <1>3, <3>1
    <3>3. l.id \in Voucher!LineIds
      BY <3>2 DEF Voucher!LineIds, Voucher!Template, Voucher!Roles
    <3> QED
      BY <3>2, <3>3 DEF Voucher!Roles, Voucher!Direction
  <2>3. CASE \E s \in Sources : l = X(s)
    <3>1. PICK s \in Sources : l = X(s)
      BY <2>3
    <3>2. /\ l.id = <<s, "input_tax">> /\ l.role = "input_tax" /\ l.dir = "debit"
          /\ l.amount \in Int /\ l.source \in Sources
      BY <1>3, <3>1
    <3>3. l.id \in Voucher!LineIds
      BY <3>2 DEF Voucher!LineIds, Voucher!Template, Voucher!Roles
    <3> QED
      BY <3>2, <3>3 DEF Voucher!Roles, Voucher!Direction
  <2> QED
    BY <1>1, <2>1, <2>2, <2>3
<1>5. ASSUME NEW l \in ls, NEW k \in ls, l.id = k.id
      PROVE  l = k
  <2>1. CASE \E a \in DOMAIN as : l = C(a)
    <3>1. PICK a \in DOMAIN as : l = C(a)
      BY <2>1
    <3>2. ASSUME NEW s \in Sources PROVE k # P(s) /\ k # X(s)
      <4>1. l.id = <<as[a].source, "cost", a>>
        BY <1>2, <3>1
      <4>2. P(s).id = <<s, "payable">> /\ X(s).id = <<s, "input_tax">>
        BY <1>3
      <4>3. l.id # P(s).id /\ l.id # X(s).id
        BY <4>1, <4>2, TupleLengths
      <4> QED BY <1>5, <4>3
    <3>3. PICK b \in DOMAIN as : k = C(b)
      BY <1>1, <3>2
    <3>4. <<as[a].source, "cost", a>> = <<as[b].source, "cost", b>>
      BY <1>2, <1>5, <3>1, <3>3
    <3>5. a = b
      BY <3>4
    <3> QED
      BY <3>1, <3>3, <3>5
  <2>2. CASE \E s \in Sources : l = P(s) \/ l = X(s)
    <3>1. PICK s \in Sources : l = P(s) \/ l = X(s)
      BY <2>2
    <3>2. ASSUME NEW a \in DOMAIN as PROVE k # C(a)
      <4>1. C(a).id = <<as[a].source, "cost", a>>
        BY <1>2
      <4>2. l.id = <<s, "payable">> \/ l.id = <<s, "input_tax">>
        BY <1>3, <3>1
      <4>3. l.id # C(a).id
        BY <4>1, <4>2, TupleLengths
      <4> QED BY <1>5, <4>3
    <3>3. PICK r \in Sources : k = P(r) \/ k = X(r)
      BY <1>1, <3>2
    <3>4. /\ P(s).id = <<s, "payable">> /\ X(s).id = <<s, "input_tax">>
          /\ P(r).id = <<r, "payable">> /\ X(r).id = <<r, "input_tax">>
      BY <1>3
    <3>5. s = r
      BY <1>5, <3>1, <3>3, <3>4
    <3>6. P(s).id # X(s).id
      BY <3>4
    <3> QED
      BY <1>5, <3>1, <3>3, <3>5, <3>6
  <2> QED
    BY <1>1, <2>1, <2>2
<1> QED
  BY <1>4, <1>5 DEF ls

\* A decision keeps the invariant.
LEMMA VoucherStep ==
  ASSUME Voucher!ConstantsSound, VoucherInv, [Voucher!Next]_(Voucher!vars)
  PROVE  VoucherInv'
<1>1. CASE Voucher!Next
  <2>1. PICK as \in Voucher!Entered, raw \in Voucher!AccountChoices, t \in Voucher!Treatments :
           Voucher!AllocationsValid(as) /\ Voucher!Decide(as, raw, t)
    BY <1>1 DEF Voucher!Next
  <2> PICK dec : dec = Voucher!Decisions(raw)
    OBVIOUS
  <2> DEFINE ls == Voucher!Materialized(as, t, dec)
  <2>2. /\ lines' = ls /\ (\A l \in ls : l.account \in Usable)
        /\ templates' = Voucher!Retained(ls, dec)
        /\ allocs' = as /\ treatment' = t /\ tier' = "manual_confirmed"
        /\ row' = row /\ answer' = answer
    BY <2>1 DEF Voucher!Decide
  <2>3. as \in Divisions
    BY <2>1, EnteredDivides DEF VoucherInv
  <2>4. RowsTyped' /\ (Injection(Sources, AllocIds) # {})'
    BY <2>2 DEF VoucherInv, RowsTyped
  <2>5. \A s : Voucher!SourceLine(s)' = Voucher!SourceLine(s)
    BY <2>2 DEF Voucher!SourceLine, Voucher!Cents
  <2>6. Taken(dec)'
    <3>1. Voucher!AllocationsValid(allocs)'
      BY <2>1, <2>2, <2>5 DEF Voucher!AllocationsValid, Voucher!AllocationsCover
    <3>2. Voucher!Materialized(allocs, treatment, dec)' = ls
      BY <2>2, <2>5 DEF Voucher!Materialized, Voucher!CostLine, Voucher!SourceLineOf, Voucher!Line,
                        Voucher!Decided, Voucher!Template
    <3>3. allocs' \in Divisions /\ lines' = Voucher!Materialized(allocs, treatment, dec)'
          /\ \A l \in lines' : l.account \in Usable
      BY <2>2, <2>3, <3>2
    <3> QED BY <2>4, <3>1, <3>3 DEF Taken
  <2>7. Voucher!TypeOK'
    <3>1. \A l \in ls : /\ l.id \in Voucher!LineIds /\ l.role \in Voucher!Roles
                        /\ l.dir = Voucher!Direction(l.role) /\ l.amount \in Int /\ l.source \in Sources
      BY <2>3, MaterializedTyped DEF VoucherInv
    <3>2. \A l, k \in ls : l.id = k.id => l = k
      BY <2>3, MaterializedTyped DEF VoucherInv
    <3>3. DOMAIN as \subseteq AllocIds
      BY <2>3, DivisionTyped
    <3>4. DOMAIN Voucher!Retained(ls, dec) \subseteq Voucher!LineIds
      <4>1. \A s \in Sources, role \in Voucher!Roles : Voucher!Template(s, role) \in Voucher!LineIds
        BY DEF Voucher!LineIds
      <4> HIDE DEF ls
      <4> QED
        BY <3>1, <4>1 DEF Voucher!Retained
    <3>5. \A l \in ls : l.account \in Accounts
      BY <2>2 DEF Voucher!ConstantsSound
    <3> HIDE DEF ls
    <3> QED BY <2>1, <2>2, <3>1, <3>2, <3>3, <3>4, <3>5 DEF Voucher!TypeOK
  <2> QED BY <2>4, <2>6, <2>7 DEF VoucherInv
<1>2. CASE UNCHANGED Voucher!vars
  <2>1. \A s : Voucher!SourceLine(s)' = Voucher!SourceLine(s)
    BY <1>2 DEF Voucher!vars, Voucher!SourceLine, Voucher!Cents
  <2>2. ASSUME NEW dec, Taken(dec) PROVE Taken(dec)'
    <3>1. Voucher!AllocationsValid(allocs)' <=> Voucher!AllocationsValid(allocs)
      BY <1>2, <2>1 DEF Voucher!vars, Voucher!AllocationsValid, Voucher!AllocationsCover
    <3>2. Voucher!Materialized(allocs, treatment, dec)' = Voucher!Materialized(allocs, treatment, dec)
      BY <1>2, <2>1 DEF Voucher!vars, Voucher!Materialized, Voucher!CostLine, Voucher!SourceLineOf,
                        Voucher!Line, Voucher!Decided, Voucher!Template
    <3> QED BY <1>2, <2>2, <3>1, <3>2 DEF Taken, Voucher!vars, RowsTyped
  <2>3. Voucher!TypeOK'
    BY <1>2 DEF VoucherInv, Voucher!TypeOK, Voucher!vars
  <2> QED BY <1>2, <2>2, <2>3 DEF VoucherInv, Voucher!vars, RowsTyped
<1> QED
  BY <1>1, <1>2

\* The invariant makes the decisions right.
LEMMA VoucherInvSays ==
  ASSUME Voucher!ConstantsSound, VoucherInv
  PROVE  DecisionsRight
<1>1. Voucher!DecidableExactly
  BY DecidableHolds DEF VoucherInv
<1>2. Voucher!DecisionPasses
  <2> SUFFICES ASSUME tier = "manual_confirmed", treatment # "pending"
               PROVE  Voucher!Blockers \subseteq Voucher!LetThrough
    BY DEF Voucher!DecisionPasses
  <2>1. PICK dec : Taken(dec)
    BY DEF VoucherInv
  <2>2. treatment \in {"deductible", "non_deductible"}
    BY DEF VoucherInv, Voucher!TypeOK, Voucher!Treatments
  <2> QED BY <2>1, <2>2, DecisionHolds
<1> QED
  BY <1>1, <1>2 DEF DecisionsRight, VoucherInv

(* A person can decide about an invoice exactly when its cost rows,        *)
(* rounded to cents, balance and are of some amount; and of what the       *)
(* validator blocks, apply_voucher_decision leaves nothing but a line of   *)
(* no amount, a credit account that is no liability and an auxiliary value *)
(* that is missing, the last two only where the person chose so.           *)
THEOREM DecisionsAreRight ==
  ASSUME Voucher!ConstantsSound
  PROVE  Voucher!Spec => []DecisionsRight
<1>1. Voucher!Init => VoucherInv
  BY VoucherStart
<1>2. VoucherInv /\ [Voucher!Next]_(Voucher!vars) => VoucherInv'
  BY VoucherStep
<1>3. VoucherInv => DecisionsRight
  BY VoucherInvSays
<1> QED
  BY <1>1, <1>2, <1>3, PTL DEF Voucher!Spec
=============================================================================
