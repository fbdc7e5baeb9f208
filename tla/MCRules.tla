-------------------------------- MODULE MCRules --------------------------------
(***************************************************************************)
(* What fills the lines of a voucher, for TLC: in one behaviour a person's *)
(* decisions about the voucher of an invoice (VoucherLines), in another    *)
(* the rules that answer for invoices (MappingRules).  The two share no    *)
(* state; the one that is not at work stays as it started.                 *)
(***************************************************************************)
EXTENDS Rules, Integers, TLC

CONSTANTS acc1, acc2, closed, unlisted,   \* accounts of a voucher
          seller, project, day, t1, t2    \* of the rules

\* Half cents: exact rows, rows with a tail difference, rows of no amount and negative ones.
MCRows == [pretax: {0, 2}, tax: {0, 2}, total: {2, 4}]
            \union {[pretax |-> 3, tax |-> 1, total |-> 4], [pretax |-> 1, tax |-> 1, total |-> 2],
                    [pretax |-> 0, tax |-> 0, total |-> 0], [pretax |-> -2, tax |-> 0, total |-> -2]}

\* No rule, a rule without a tax account, one that names an account that is closed and
\* one that is not in the catalogue.
Answer(cost, tax, payable) ==
    [role \in {"cost", "input_tax", "payable"} |->
       CASE role = "cost" -> cost [] role = "input_tax" -> tax [] role = "payable" -> payable]
MCAnswers == {Answer(NoAccount, NoAccount, NoAccount), Answer(acc1, NoAccount, acc1),
              Answer(acc1, unlisted, closed)}

\* A rule for a seller, one of the same rank for a project, a narrower one for a project
\* in a period; rules of the old version, two of them for one scope.
Scope(s, p, period) == [seller |-> s, project |-> p, period |-> period, prio |-> 0]
ForSeller == Scope(seller, NoAccount, {})
ForProject == Scope(NoAccount, project, {})
Dated == Scope(NoAccount, project, {day})

Old(n, s, t, src) == [n |-> n, scope |-> s, target |-> t, source |-> src]
MCLegacyFiles ==
    {{}, {Old(1, ForSeller, t1, "manual"), Old(2, ForProject, t2, "ai_confirmed")},
     {Old(1, ForSeller, t1, "manual"), Old(2, ForSeller, t2, "manual")}}

MCScopes == {ForSeller, ForProject, Dated}
MCRuleId == ForSeller :> 1 @@ ForProject :> 2 @@ Dated :> 3
MCContexts == [seller: {seller}, project: {project, NoAccount}, date: {day, NoAccount}]

VARIABLE part   \* the component at work

\* The constants are what the proofs are about.
ASSUME MappingAssumption == ConstantsSound
ASSUME VoucherAssumption == Voucher!ConstantsSound

\* Ids of allocations are interchangeable, and so are those of commands.
Symmetry == Permutations(AllocIds) \union Permutations(Commands)

MCInit ==
    /\ part \in {"vouchers", "mapping"}
    /\ Init /\ Voucher!Init
    /\ part # "mapping" => schema = 2
    /\ part # "vouchers" =>
          /\ row = [s \in Sources |-> [pretax |-> 2, tax |-> 2, total |-> 4]]
          /\ answer = Answer(NoAccount, NoAccount, NoAccount)
          /\ DOMAIN allocs = {CHOOSE a \in AllocIds : TRUE}

MCNext ==
    \/ part = "vouchers" /\ Voucher!Next /\ UNCHANGED <<part, vars>>
    \/ part = "mapping" /\ Next /\ UNCHANGED <<part, voucherVars>>

MCSpec == MCInit /\ [][MCNext]_<<part, vars, voucherVars>>
=============================================================================
