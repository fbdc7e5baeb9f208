---------------------------- MODULE VoucherLines ----------------------------
(***************************************************************************)
(* The lines of one voucher: how the cost rows of an invoice become a      *)
(* draft (bookkeeping/vouchers.py), how a decision divides its amounts     *)
(* over projects and materialises the lines (bookkeeping/decisions.py) and *)
(* what the validator demands of them (bookkeeping/validator.py).  Amounts *)
(* of the cost rows may have fractions of a cent: they are counted in half *)
(* cents here, everything after the draft in cents.                        *)
(***************************************************************************)
EXTENDS Integers, FiniteSets, FiniteSetsExt, Functions

CONSTANTS Sources,    \* cost rows of the invoice
          AllocIds,   \* ids of project allocations
          RowAmounts, \* the amounts a cost row may have, records in half cents
          Answers,    \* what the rules may answer, [role -> account or NoAccount]
          Accounts,   \* codes of the catalogue, with the auxiliary values given for
                      \* them; a rule may name another one
          Usable,     \* the enabled leaf accounts of the catalogue among them
          Liabilities, \* those with a credit balance
          Incomplete, \* those that lack an auxiliary value the account requires, other
                      \* than the project's, which the allocation fills in
          NoAccount

\* What is assumed of the constants: an invoice has cost rows, as many as anybody likes.
ConstantsSound ==
    /\ Usable \subseteq Accounts /\ NoAccount \notin Accounts
    /\ Sources # {} /\ IsFiniteSet(Sources) /\ IsFiniteSet(AllocIds)
    /\ RowAmounts \subseteq [pretax: Int, tax: Int, total: Int]

VARIABLES row,        \* [Sources -> amounts in half cents]
          answer,     \* the rule of the invoice: [role -> account], NoAccount for none
          lines,      \* the lines of the voucher
          allocs,     \* [allocation id -> source, pretax, tax, total]
          templates,  \* [line id -> account], the decisions kept with the voucher
          treatment,  \* of the tax: "pending", "deductible" or "non_deductible"
          tier,       \* "auto", "ai_suggested", "forced_manual" or "manual_confirmed"
          chosen      \* line ids the last decision named

vars == <<row, answer, lines, allocs, templates, treatment, tier, chosen>>

Roles == {"cost", "input_tax", "payable"}
Direction(role) == IF role = "payable" THEN "credit" ELSE "debit"
Treatments == {"pending", "deductible", "non_deductible"}

-----------------------------------------------------------------------------
(* The draft of an invoice.                                                *)

\* money_text: rounded half up to cents (away from zero below it).
Cents(half) == IF half >= 0 THEN (half + 1) \div 2 ELSE -((1 - half) \div 2)

SourceLine(s) == [pretax |-> Cents(row[s].pretax), tax |-> Cents(row[s].tax),
                  total |-> Cents(row[s].total)]

Abs(n) == IF n < 0 THEN -n ELSE n
TailDiffLimit == 2   \* one cent

RowReasons(s) ==
    {r \in {"negative", "tail"} :
       \/ r = "negative" /\ (row[s].pretax < 0 \/ row[s].tax < 0 \/ row[s].total < 0)
       \/ r = "tail" /\ Abs(row[s].pretax + row[s].tax - row[s].total) > TailDiffLimit}

AggregateDiff ==
    Abs(SumFunction([s \in Sources |-> row[s].pretax + row[s].tax - row[s].total]))

MissingAccounts == {role \in Roles : answer[role] \notin Accounts \union {NoAccount}}

Reasons ==
    UNION {RowReasons(s) : s \in Sources}
      \union (IF AggregateDiff > TailDiffLimit THEN {"aggregate"} ELSE {})
      \union (IF MissingAccounts # {} THEN {"account"} ELSE {})

Line(id, role, amount, account, s, as) ==
    [id |-> id, role |-> role, dir |-> Direction(role), amount |-> amount,
     account |-> account, source |-> s, allocs |-> as]

\* Lines of a draft have the template id of their source and role.
Template(s, role) == <<s, role>>

DraftLines(owner) ==
    UNION {{Line(Template(s, "cost"), "cost", SourceLine(s).pretax, answer["cost"], s, {owner[s]}),
            Line(Template(s, "payable"), "payable", SourceLine(s).total, answer["payable"], s, {})}
           \union (IF SourceLine(s).tax = 0 THEN {}
                   ELSE {Line(Template(s, "input_tax"), "input_tax", SourceLine(s).tax,
                              answer["input_tax"], s, {})}) : s \in Sources}

DraftAllocs(owner) ==
    [a \in {owner[s] : s \in Sources} |->
       LET s == CHOOSE s \in Sources : owner[s] = a
       IN [source |-> s, pretax |-> SourceLine(s).pretax, tax |-> SourceLine(s).tax,
           total |-> SourceLine(s).total]]

Tier ==
    IF Reasons # {} THEN "forced_manual"
    ELSE IF answer["cost"] = NoAccount THEN "ai_suggested"
    ELSE "auto"

Init ==
    /\ row \in [Sources -> RowAmounts]
    /\ answer \in Answers
    /\ \E owner \in Injection(Sources, AllocIds) :
          lines = DraftLines(owner) /\ allocs = DraftAllocs(owner)
    /\ templates = <<>>
    /\ treatment = "pending"
    /\ tier = Tier
    /\ chosen = {}

-----------------------------------------------------------------------------
(* A decision.                                                             *)

\* Every allocation balances and the sources are covered to the cent.
AllocationsCover(as) ==
    /\ \A a \in DOMAIN as :
          /\ as[a].pretax >= 0 /\ as[a].tax >= 0 /\ as[a].total >= 0
          /\ as[a].pretax + as[a].tax = as[a].total
    /\ \A s \in Sources :
          LET mine == {a \in DOMAIN as : as[a].source = s}
              Of(field) == SumFunctionOnSet([a \in DOMAIN as |-> as[a][field]], mine)
          IN /\ mine # {}
             /\ SourceLine(s) = [pretax |-> Of("pretax"), tax |-> Of("tax"), total |-> Of("total")]

\* _validated_allocations, which moreover wants each of them to be of some amount.
AllocationsValid(as) == AllocationsCover(as) /\ \A a \in DOMAIN as : as[a].total > 0

Known == {l.id : l \in lines} \union DOMAIN templates

\* The decisions in force: those kept, then the accounts of the lines, then the new ones.
Decisions(raw) ==
    LET named == {l \in lines : l.account # NoAccount}
        ids == DOMAIN raw \union DOMAIN templates \union {l.id : l \in named}
    IN [id \in ids |->
          IF id \in DOMAIN raw THEN raw[id]
          ELSE IF id \in DOMAIN templates THEN templates[id]
          ELSE (CHOOSE l \in named : l.id = id).account]

Decided(id, template, dec) ==
    IF id \in DOMAIN dec THEN dec[id]
    ELSE IF template \in DOMAIN dec THEN dec[template] ELSE NoAccount

CostLine(a, as, t, dec) ==
    LET s == as[a].source
        id == <<s, "cost", a>>
    IN Line(id, "cost", IF t = "non_deductible" THEN as[a].total ELSE as[a].pretax,
            Decided(id, Template(s, "cost"), dec), s, {a})

SourceLineOf(s, role, amount, dec) ==
    Line(Template(s, role), role, amount, Decided(Template(s, role), Template(s, role), dec), s, {})

\* Mutant: a tax line is written whatever the treatment.
Materialized_TaxAlways(as, t, dec) ==
    {CostLine(a, as, t, dec) : a \in DOMAIN as}
      \union {SourceLineOf(s, "input_tax", SourceLine(s).tax, dec) :
                s \in {s \in Sources : SourceLine(s).tax # 0}}
      \union {SourceLineOf(s, "payable", SourceLine(s).total, dec) : s \in Sources}

Materialized(as, t, dec) ==
    {CostLine(a, as, t, dec) : a \in DOMAIN as}
      \union {SourceLineOf(s, "input_tax", SourceLine(s).tax, dec) :
                s \in {s \in Sources : t = "deductible" /\ SourceLine(s).tax # 0}}
      \union {SourceLineOf(s, "payable", SourceLine(s).total, dec) : s \in Sources}

\* Mutant: choices of lines that are not there are forgotten.
Retained_LinesOnly(ls, dec) ==
    [id \in {l.id : l \in ls} |-> (CHOOSE l \in ls : l.id = id).account]

\* The templates of all sources and roles survive, with the accounts of the new lines.
Retained(ls, dec) ==
    LET kept == {id \in DOMAIN dec : \E s \in Sources, role \in Roles : id = Template(s, role)}
        now == {l.id : l \in ls}
    IN [id \in kept \union now |->
          IF id \in now THEN (CHOOSE l \in ls : l.id = id).account ELSE dec[id]]

\* apply_voucher_decision: all of it or, with an exception, nothing.
Decide(as, raw, t) ==
    /\ AllocationsValid(as)
    /\ DOMAIN raw \subseteq Known
    /\ LET ls == Materialized(as, t, Decisions(raw))
       IN /\ \A l \in ls : l.account \in Usable
          /\ lines' = ls
          /\ templates' = Retained(ls, Decisions(raw))
    /\ allocs' = as
    /\ treatment' = t
    /\ tier' = "manual_confirmed"
    /\ chosen' = DOMAIN raw
    /\ UNCHANGED <<row, answer>>

-----------------------------------------------------------------------------
(* The validator, for the amounts, the accounts and the bindings of lines. *)

SourcesSound == \A s \in Sources : SourceLine(s).pretax + SourceLine(s).tax = SourceLine(s).total

RoleTotal(role) ==
    SumFunctionOnSet([l \in lines |-> l.amount], {l \in lines : l.role = role})

SourceTotal(field) == SumFunctionOnSet([s \in Sources |-> SourceLine(s)[field]], Sources)

CostOf(a) == IF treatment = "non_deductible" THEN allocs[a].total ELSE allocs[a].pretax

\* "ACCOUNT_DISABLED" stands for "ACCOUNT_NOT_LEAF" too.
LineBlockers(l) ==
    {b \in {"LINE_SOURCE_BINDING_INVALID", "LINE_ALLOCATION_BINDING_INVALID",
            "LINE_ALLOCATION_SOURCE_MISMATCH", "LINE_AMOUNT_INVALID",
            "LINE_ALLOCATION_AMOUNT_MISMATCH", "ACCOUNT_CODE_MISSING", "ACCOUNT_NOT_FOUND",
            "ACCOUNT_DISABLED", "PURCHASE_CREDIT_NOT_LIABILITY", "AUX_REQUIRED"} :
       LET bound == \E a \in DOMAIN allocs : l.allocs = {a}
           a == CHOOSE a \in l.allocs : TRUE
       IN CASE b = "LINE_SOURCE_BINDING_INVALID" -> l.source \notin Sources
            [] b = "LINE_ALLOCATION_BINDING_INVALID" -> l.role = "cost" /\ ~bound
            [] b = "LINE_ALLOCATION_SOURCE_MISMATCH" ->
                 l.role = "cost" /\ bound /\ allocs[a].source # l.source
            [] b = "LINE_AMOUNT_INVALID" -> l.amount <= 0
            [] b = "LINE_ALLOCATION_AMOUNT_MISMATCH" ->
                 l.role = "cost" /\ bound /\ l.amount > 0 /\ l.amount # CostOf(a)
            [] b = "ACCOUNT_CODE_MISSING" -> l.account = NoAccount
            [] b = "ACCOUNT_NOT_FOUND" -> l.account \notin Accounts \union {NoAccount}
            [] b = "ACCOUNT_DISABLED" -> l.account \in Accounts \ Usable
            [] b = "PURCHASE_CREDIT_NOT_LIABILITY" ->
                 l.role = "payable" /\ l.account \in Accounts \ Liabilities
            [] b = "AUX_REQUIRED" -> l.account \in Incomplete}

AllocationBlockers == IF AllocationsCover(allocs) THEN {} ELSE {"PROJECT_ALLOCATION_AMOUNT_MISMATCH"}

DebitTotal == RoleTotal("cost") + RoleTotal("input_tax")

TotalBlockers ==
    {b \in {"LINES_INSUFFICIENT", "COST_ALLOCATION_COVERAGE_MISMATCH", "VOUCHER_UNBALANCED",
            "PAYABLE_TOTAL_MISMATCH", "DEDUCTIBLE_TAX_LINES_MISMATCH",
            "NON_DEDUCTIBLE_TAX_LINES_MISMATCH"} :
       CASE b = "LINES_INSUFFICIENT" -> Cardinality(lines) < 2
         [] b = "COST_ALLOCATION_COVERAGE_MISMATCH" ->
              \E a \in DOMAIN allocs :
                 Cardinality({l \in lines : l.role = "cost" /\ l.allocs = {a}}) # 1
         [] b = "VOUCHER_UNBALANCED" -> DebitTotal # RoleTotal("payable")
         [] b = "PAYABLE_TOTAL_MISMATCH" -> RoleTotal("payable") # SourceTotal("total")
         [] b = "DEDUCTIBLE_TAX_LINES_MISMATCH" ->
              /\ treatment = "deductible"
              /\ \/ RoleTotal("cost") # SourceTotal("pretax")
                 \/ RoleTotal("input_tax") # SourceTotal("tax")
         [] b = "NON_DEDUCTIBLE_TAX_LINES_MISMATCH" ->
              /\ treatment = "non_deductible"
              /\ \/ RoleTotal("cost") # SourceTotal("total")
                 \/ RoleTotal("input_tax") # 0}

Blockers ==
    (IF SourcesSound THEN {} ELSE {"SOURCE_LINE_AMOUNT_UNBALANCED"})
      \union AllocationBlockers
      \union UNION {LineBlockers(l) : l \in lines}
      \union TotalBlockers
      \union (IF treatment = "pending" THEN {"TAX_TREATMENT_PENDING"} ELSE {})

-----------------------------------------------------------------------------
\* What a person may enter as allocations: any cents up to the largest source.
Largest == Max({SourceLine(s).total : s \in Sources} \union {0})

Entered ==
    UNION {[A -> [source: Sources, pretax: 0..Largest, tax: 0..Largest, total: 0..Largest]] :
             A \in (SUBSET AllocIds) \ {{}}}

\* One account for some of the known lines: one of them, all or none.
AccountChoices ==
    {[id \in I |-> acc] : I \in {{}, Known} \union {{id} : id \in Known}, acc \in Accounts}

Next ==
    \E as \in Entered :
       /\ AllocationsValid(as)
       /\ \E raw \in AccountChoices, t \in Treatments : Decide(as, raw, t)

Spec == Init /\ [][Next]_vars

-----------------------------------------------------------------------------
(* Properties.                                                             *)

LineIds == {Template(s, role) : s \in Sources, role \in Roles}
             \union {<<s, "cost", a>> : s \in Sources, a \in AllocIds}

\* The voucher keeps its types; no two lines share an id.
TypeOK ==
    /\ \A l \in lines : /\ l.id \in LineIds /\ l.role \in Roles /\ l.dir = Direction(l.role)
                         /\ l.amount \in Int /\ l.source \in Sources
                         /\ l.account \in Accounts \union {NoAccount, answer[l.role]}
    /\ \A l, k \in lines : l.id = k.id => l = k
    /\ DOMAIN allocs \subseteq AllocIds
    /\ DOMAIN templates \subseteq LineIds
    /\ treatment \in Treatments
    /\ tier \in {"auto", "ai_suggested", "forced_manual", "manual_confirmed"}

\* Some division of the invoice is accepted exactly when each of its cost rows, rounded
\* to cents, balances, is of some amount and has nothing negative: a row within the tail
\* difference the draft tolerates has no decision, whatever a person enters.
DecidableExactly ==
    (\E as \in Entered : AllocationsValid(as))
       <=> \A s \in Sources :
              /\ SourceLine(s).pretax >= 0 /\ SourceLine(s).tax >= 0 /\ SourceLine(s).total > 0
              /\ SourceLine(s).pretax + SourceLine(s).tax = SourceLine(s).total

\* What a decision lets through although the validator blocks it: a line of no amount, of
\* a deductible allocation that is all tax; an account on the credit side that is no
\* liability; an account that lacks an auxiliary value.
LetThrough ==
    {b \in {"LINE_AMOUNT_INVALID", "PURCHASE_CREDIT_NOT_LIABILITY", "AUX_REQUIRED"} :
       /\ b = "LINE_AMOUNT_INVALID" => \E a \in DOMAIN allocs : CostOf(a) = 0
       /\ b = "PURCHASE_CREDIT_NOT_LIABILITY" =>
            \E l \in lines : l.role = "payable" /\ l.account \notin Liabilities
       /\ b = "AUX_REQUIRED" => \E l \in lines : l.account \in Incomplete}

\* Nothing else the validator blocks comes out of a decision, once the tax is settled: its
\* lines bind, cover the sources and balance, however the amounts were divided.
DecisionPasses ==
    (tier = "manual_confirmed" /\ treatment # "pending") => Blockers \subseteq LetThrough

\* A person's choice of an account lasts: a line, or a source and role, that was decided
\* keeps its account through other divisions and through a tax treatment without that
\* line, until a decision names it again.
ChoicesLast ==
    [][\A id \in DOMAIN templates :
          ((\E l \in lines' : l.id = id) \/ \E s \in Sources, role \in Roles : id = Template(s, role))
             => id \in DOMAIN templates' /\ (id \notin chosen' => templates'[id] = templates[id])]_vars
=============================================================================
