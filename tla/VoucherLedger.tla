--------------------------- MODULE VoucherLedger ---------------------------
(***************************************************************************)
(* What the bookkeeping part of InvoiceHub promises, with the files, the   *)
(* batches and the messages taken away.  A voucher is proposed with some   *)
(* content, approved, submitted to the accounting program and settled.     *)
(* The accounting program posts only what was submitted, at most once,     *)
(* and the verdict recorded about a voucher is the truth.                  *)
(***************************************************************************)
EXTENDS Naturals, Sequences

CONSTANTS Vouchers,   \* posting keys
          Contents,   \* revisions of a proposal, with the facts it was made from
          NoContent   \* none of the contents

VARIABLES stage,      \* "open", "approved", "submitted", "posted" or "absent"
          content,    \* the revision approved, NoContent while the voucher is open
          ledger      \* the postings the accounting program has made of a voucher,
                      \* each with its content

vars == <<stage, content, ledger>>

Stages == {"open", "approved", "submitted", "posted", "absent"}

TypeOK ==
    /\ stage \in [Vouchers -> Stages]
    /\ content \in [Vouchers -> Contents \union {NoContent}]
    /\ ledger \in [Vouchers -> Seq(Contents)]

\* What is settled is settled rightly: one posting, of what was approved, or none;
\* and only what was submitted is posted.
Truth ==
    \A v \in Vouchers :
       /\ stage[v] = "posted" => ledger[v] = <<content[v]>>
       /\ stage[v] \in {"open", "approved", "absent"} => ledger[v] = <<>>

\* A company may come with vouchers of an earlier version, in any stage.
Init == TypeOK /\ Truth

Approve(v) ==
    /\ stage[v] = "open"
    /\ stage' = [stage EXCEPT ![v] = "approved"]
    /\ content'[v] \in Contents
    /\ content' = [content EXCEPT ![v] = content'[v]]
    /\ UNCHANGED ledger

\* A batch is submitted as a whole.
Submit ==
    /\ \A v \in Vouchers : \/ stage'[v] = stage[v]
                           \/ stage[v] = "approved" /\ stage'[v] = "submitted"
    /\ UNCHANGED <<content, ledger>>

\* The accounting program may post a part of what is submitted only, and nothing
\* that it has posted before: a second posting, of the same content or of another,
\* makes the ledger longer and is no step of this specification.
Post ==
    /\ \A v \in Vouchers :
          \/ ledger'[v] = ledger[v]
          \/ stage[v] = "submitted" /\ ledger[v] = <<>> /\ ledger'[v] = <<content[v]>>
    /\ UNCHANGED <<stage, content>>

\* Settling goes by what the accounting program holds.
Settle ==
    /\ \A v \in Vouchers :
          \/ stage'[v] = stage[v]
          \/ stage[v] = "submitted" /\ ledger[v] = <<content[v]>> /\ stage'[v] = "posted"
          \/ stage[v] = "submitted" /\ ledger[v] = <<>> /\ stage'[v] = "absent"
    /\ UNCHANGED <<content, ledger>>

Next ==
    \/ \E v \in Vouchers : Approve(v)
    \/ Submit
    \/ Post
    \/ Settle

Spec == Init /\ [][Next]_vars
=============================================================================
