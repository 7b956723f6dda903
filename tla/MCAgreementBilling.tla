------------------------- MODULE MCAgreementBilling -------------------------
(* Agreements of two months' lock-in, in months of two days, for TLC. *)
EXTENDS AgreementBilling

Terms(start, notice, exitRule, deposit, prorate, autoSend, lateFee, feeValue, grace) ==
    [start |-> start, notice |-> notice, lockIn |-> 2, exitRule |-> exitRule,
     deposit |-> deposit, prorate |-> prorate, autoSend |-> autoSend, lateFee |-> lateFee,
     feeValue |-> feeValue, grace |-> grace, dueDay |-> 0, price |-> 100, percent |-> 10,
     escalateAfter |-> 1]

FeesForLeaving == Terms(0, 1, "remaining_fees", 0, TRUE, TRUE, "per_day", 5, 1)
LosesDeposit   == Terms(1, 1, "forfeit_deposit", 100, TRUE, TRUE, "none", 0, 0)
NoNotice       == Terms(1, 0, "remaining_fees", 0, FALSE, FALSE, "interest", 3650, 0)

\* Which operations the agreements are tried with: everything that touches one another.
Tried ==
    (FeesForLeaving :> {{"bill", "notice", "pay"}, {"bill", "notice", "revise"},
                        {"bill", "bill_month", "revise"}, {"bill", "void", "drafts"},
                        {"bill", "lines"}, {"bill", "report"}})
    @@ (LosesDeposit :> {{"pay", "refund", "deposit", "notice"}, {"pay", "refund", "void"}})
    @@ (NoNotice :> {{"bill", "pay", "notes", "refund"}, {"bill", "void", "drafts"}})

SomeCases == UNION {{[terms |-> t, desk |-> d] : d \in Tried[t]} : t \in DOMAIN Tried}

HalfPrice == {50}
Twenty == {20}
=============================================================================
