--------------------------------- MODULE Rules ---------------------------------
(***************************************************************************)
(* What fills the lines of a voucher: the rules that answer for invoices   *)
(* (MappingRules) and a person's decisions about the voucher of an invoice *)
(* (VoucherLines).  A draft takes the answer of the rules and keeps it, so *)
(* the two share no state.                                                 *)
(***************************************************************************)
EXTENDS MappingRules

CONSTANTS Sources, AllocIds, RowAmounts, Answers, Accounts, Usable, Liabilities, Incomplete,
          NoAccount

VARIABLES row, answer, lines, allocs, templates, treatment, tier, chosen

voucherVars == <<row, answer, lines, allocs, templates, treatment, tier, chosen>>

Voucher == INSTANCE VoucherLines

\* A person can decide about an invoice where its rows balance, and the amounts and
\* bindings of the lines of a decision pass the validator (VoucherLines).
DecisionsRight == Voucher!TypeOK /\ Voucher!DecidableExactly /\ Voucher!DecisionPasses

\* The account a person chose for a line lasts until a decision names it (VoucherLines).
ChoicesLast == Voucher!ChoicesLast
=============================================================================
