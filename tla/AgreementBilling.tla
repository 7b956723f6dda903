-------------------------- MODULE AgreementBilling --------------------------
(***************************************************************************)
(* What one agreement is charged and what is paid on it:                   *)
(* app/services/billing_service.py with the invoice, payment, credit note  *)
(* and refund routes of app/blueprints/admin/billing_routes.py, the notice,*)
(* deposit and revision routes of agreement_routes.py and the customer's   *)
(* payment reports of customer_billing.py.                                 *)
(*                                                                         *)
(* Every handler here is one transaction and one step; the steps of the    *)
(* clock, of the daily job, of the operator's staff and of the customer    *)
(* come in any order.  Amounts are whole paise with their GST included.    *)
(***************************************************************************)
EXTENDS Integers, SequencesExt

CONSTANTS
    Cases,          \* terms of an agreement, each with the operations that are used on it
    Parts,          \* amounts, besides the balance, that a payment or an entry may have
    Percents,       \* increases an operator may confirm instead of the proposed one
    DaysInMonth,
    Year,           \* days between two yearly revisions
    LeadDays,       \* lead_days: how long before it is due a revision is proposed
    LastDay,        \* bound: the last day
    NoticeDates,    \* bound: the dates that a notice may have
    MaxInvoices,    \* bounds: how many invoices are made,
    MaxMoney,       \*   payments, reports, credit notes and refunds in all,
    MaxEntries,     \*   entries of the deposit ledger by hand and by notice,
    MaxRevisions    \*   and revisions

Days == 0..LastDay
NoDate == -1

Operations == {"bill", "bill_month", "drafts", "lines", "void", "pay", "report", "notes",
               "refund", "deposit", "notice", "revise"}

ASSUME Calendar == {DaysInMonth, Year, LastDay} \subseteq Nat \ {0} /\ LeadDays \in Nat
ASSUME Uses ==
    \A c \in Cases : c = [terms |-> c.terms, desk |-> c.desk] /\ c.desk \subseteq Operations
ASSUME Notices == NoticeDates \subseteq Nat
ASSUME Amounts == Parts \subseteq Nat \ {0} /\ Percents \subseteq Nat
ASSUME DaysOfTerms ==
    \A c \in Cases : {c.terms.start, c.terms.notice, c.terms.lockIn, c.terms.dueDay, c.terms.grace}
                       \subseteq Nat
ASSUME SumsOfTerms ==
    \A c \in Cases :
        /\ {c.terms.price, c.terms.deposit, c.terms.percent, c.terms.escalateAfter,
            c.terms.feeValue} \subseteq Nat
        /\ c.terms.lateFee \in {"none", "per_day", "interest"}
ASSUME Bounds == MaxInvoices \in Nat \ {0} /\ MaxMoney \in Nat

VARIABLES
    terms,      \* subscriptions: the terms of the agreement, which do not change
    desk,       \* the operations used
    today,
    sub,        \* subscriptions: its status and terminate_on; history: whether the notice in
                \* force was dated before the month in which it was recorded
    invoices,   \* invoices with their lines; rows are kept in the order of their ids
    payments,
    reports,    \* payment_submissions
    notes,      \* credit_notes
    refunds,
    deposits,   \* deposit_entries
    revisions   \* rate_revisions

paid == <<payments, reports, notes, refunds>>
agreement == <<terms, desk, today, sub, revisions>>
vars == <<terms, desk, today, sub, invoices, paid, deposits, revisions>>
-----------------------------------------------------------------------------
(* Rows *)

\* The days `from' to `upto', the last not included, are those the line charges for; of a
\* late fee, those that invoice `of' was late.
Line == [type: {"plan", "early_exit", "deposit", "late_fee", "other"}, amount: Nat,
         of: 0..MaxInvoices, from: Nat, upto: Nat]

Other(type, amount) == [type |-> type, amount |-> amount, of |-> 0, from |-> 0, upto |-> 0]

\* everVoid is history: whether the invoice was void at some time.
Invoice == [start: Nat, end: Nat, due: Nat, lines: Seq(Line), paid: Nat,
            status: {"draft", "issued", "paid", "partial", "overdue", "void"},
            through: Nat \union {NoDate}, everVoid: BOOLEAN]

Payment == [invoice: 1..MaxInvoices, amount: Nat]
Report  == [invoice: 1..MaxInvoices, amount: Nat, status: {"pending", "accepted", "rejected"}]
Note    == [invoice: 1..MaxInvoices, amount: Nat, applied: BOOLEAN,
            status: {"issued", "applied", "cancelled"}]
Refund  == [payment: 1..MaxMoney, amount: Nat, status: {"pending", "completed", "failed"}]
Entry   == [type: {"received", "deduction", "refund", "reversal"}, amount: Nat,
            invoice: 0..MaxInvoices, forfeit: BOOLEAN]
Revision == [from: Nat, old: Nat, new: Nat, status: {"proposed", "confirmed", "dismissed"}]

Open == {"issued", "partial", "overdue"}

\* The amounts of the rows of a table that a test selects, added up.
SumOver(rows, ids) == SumFunctionOnSet([k \in DOMAIN rows |-> rows[k].amount], ids)
SumOf(rows, Selected(_)) == SumOver(rows, {k \in DOMAIN rows : Selected(rows[k])})
-----------------------------------------------------------------------------
(* Invoices *)

Total(lines) == SumOf(lines, LAMBDA line : TRUE)
Balance(inv) == Total(inv.lines) - inv.paid
Bills(inv, type) == \E k \in DOMAIN inv.lines : inv.lines[k].type = type

MonthStart(day) == day - (day % DaysInMonth)

DueDate(start, day) == Max({MonthStart(start) + terms.dueDay, day})

NewInvoice(start, end, due, status, lines) ==
    [start |-> start, end |-> end, due |-> due, lines |-> lines, paid |-> 0,
     status |-> status, through |-> NoDate, everVoid |-> FALSE]

FirstStatus == IF terms.autoSend THEN "issued" ELSE "draft"

Voided(inv) == [inv EXCEPT !.status = "void", !.everVoid = TRUE]

\* An invoice with its status worked out again from the money paid on it.
Refreshed(inv) ==
    [inv EXCEPT !.status =
        IF Balance(inv) <= 0 THEN "paid"
        ELSE IF inv.paid > 0 THEN "partial"
        ELSE IF inv.due < today THEN "overdue"
        ELSE inv.status]

Pay(inv, amount) == Refreshed([inv EXCEPT !.paid = @ + amount])

\* Halves of a paisa are rounded up.
Rounded(n, d) == (2 * n + d) \div (2 * d)

EffectivePrice(day) ==
    LET rises == {k \in DOMAIN revisions :
                    revisions[k].status = "confirmed" /\ revisions[k].from <= day}
    IN IF rises = {} THEN terms.price
       ELSE revisions[CHOOSE k \in rises :
                        \A j \in rises : revisions[j].from <= revisions[k].from].new
-----------------------------------------------------------------------------
(* Monthly invoices *)

\* The plan line of the month that starts on a day, or none when the agreement is not
\* running in it.  Additional people are charged for the same days: the line stands for both.
PlanCharge(start) ==
    LET end   == start + DaysInMonth
        first == Max({start, terms.start})
        last  == IF sub.ends = NoDate THEN end ELSE Min({end, sub.ends})
        some  == terms.prorate /\ last - first < DaysInMonth
        price == EffectivePrice(start)
    IN IF last <= first THEN <<>>
       ELSE <<[type |-> "plan", of |-> 0,
               amount |-> IF some THEN Rounded(price * (last - first), DaysInMonth) ELSE price,
               from |-> IF some THEN first ELSE start, upto |-> IF some THEN last ELSE end]>>

\* A mutation of FeeStart: every late fee runs from the end of the grace.
FeeStartAnew(inv) == inv.due + terms.grace

FeeStart(inv) == Max({inv.due + terms.grace, inv.through})

LateFee(inv) ==
    LET late == today - FeeStart(inv) IN
    CASE terms.lateFee = "none"     -> 0
      [] terms.lateFee = "per_day"  -> terms.feeValue * late
      [] terms.lateFee = "interest" -> Rounded(Balance(inv) * terms.feeValue * late, 36500)

LateInvoices ==
    {i \in DOMAIN invoices :
        /\ invoices[i].status \in Open /\ invoices[i].due < today
        /\ ~Bills(invoices[i], "deposit")
        /\ Balance(invoices[i]) > 0
        /\ today > FeeStart(invoices[i])
        /\ LateFee(invoices[i]) > 0}

FeeLines ==
    LET fee(i) == [type |-> "late_fee", amount |-> LateFee(invoices[i]), of |-> i,
                   from |-> FeeStart(invoices[i]), upto |-> today]
        late   == SetToSeq(LateInvoices)
    IN [k \in DOMAIN late |-> fee(late[k])]

Generated(start) ==
    \E i \in DOMAIN invoices :
        /\ invoices[i].start = start /\ invoices[i].end = start + DaysInMonth - 1
        /\ invoices[i].status # "void"

Generate(start) ==
    /\ sub.status = "active"
    /\ ~Generated(start)
    /\ PlanCharge(start) # <<>>
    /\ Len(invoices) < MaxInvoices
    /\ invoices' = Append(
         [i \in DOMAIN invoices |->
            [invoices[i] EXCEPT !.through = IF i \in LateInvoices THEN today ELSE @]],
         NewInvoice(start, start + DaysInMonth - 1, DueDate(start, today), FirstStatus,
                    PlanCharge(start) \o FeeLines))
    /\ UNCHANGED <<agreement, paid, deposits>>

\* The daily job from the operator's invoice day on, or its staff on any day.
RunMonthlyBilling == "bill" \in desk /\ Generate(MonthStart(today))

\* run-scheduled-jobs --month, here for the month to come.
RunBillingForMonth == "bill_month" \in desk /\ Generate(MonthStart(today) + DaysInMonth)

IssueDrafts ==
    LET drafts == {i \in DOMAIN invoices : invoices[i].status = "draft"} IN
    /\ "drafts" \in desk /\ drafts # {}
    /\ invoices' = [i \in DOMAIN invoices |->
                      [invoices[i] EXCEPT !.status = IF i \in drafts THEN "issued" ELSE @]]
    /\ UNCHANGED <<agreement, paid, deposits>>
-----------------------------------------------------------------------------
(* What the operator's staff do to an invoice *)

InvoiceBecomes(i, inv) ==
    /\ invoices' = [invoices EXCEPT ![i] = inv]
    /\ UNCHANGED agreement

LineAdd(i, amount) ==
    /\ "lines" \in desk
    /\ invoices[i].status \in {"draft", "issued"}
    /\ ~Bills(invoices[i], "other")             \* bound: one line added to an invoice
    /\ InvoiceBecomes(i, [invoices[i] EXCEPT !.lines = Append(@, Other("other", amount))])
    /\ UNCHANGED <<paid, deposits>>

LineDelete(i, k) ==
    /\ "lines" \in desk
    /\ InvoiceBecomes(i, [invoices[i] EXCEPT !.lines = RemoveAt(@, k)])
    /\ UNCHANGED <<paid, deposits>>

Issue(i) ==
    /\ "drafts" \in desk
    /\ InvoiceBecomes(i, [invoices[i] EXCEPT !.status = "issued"])
    /\ UNCHANGED <<paid, deposits>>

Void(i) ==
    /\ "void" \in desk
    /\ InvoiceBecomes(i, Voided(invoices[i]))
    /\ UNCHANGED <<paid, deposits>>
-----------------------------------------------------------------------------
(* Payments *)

MoreMoney == Len(payments) + Len(reports) + Len(notes) + Len(refunds) < MaxMoney

\* A new row of the deposit ledger.
Recorded(type, amount, i, forfeit) ==
    Append(deposits, [type |-> type, amount |-> amount, invoice |-> i, forfeit |-> forfeit])

DepositOf(inv) == SumOf(inv.lines, LAMBDA line : line.type = "deposit")

\* after_payment: a fully paid deposit invoice puts the deposit on the ledger, once.
AfterPayment(i, inv) ==
    IF /\ inv.status = "paid" /\ DepositOf(inv) > 0
       /\ \A k \in DOMAIN deposits : deposits[k].invoice # i
    THEN Recorded("received", DepositOf(inv), i, FALSE)
    ELSE deposits

Receive(i, amount) ==
    /\ MoreMoney
    /\ payments' = Append(payments, [invoice |-> i, amount |-> amount])
    /\ InvoiceBecomes(i, Pay(invoices[i], amount))
    /\ deposits' = AfterPayment(i, Pay(invoices[i], amount))

PaymentNew(i, amount) ==
    /\ "pay" \in desk
    /\ Receive(i, amount)
    /\ UNCHANGED <<reports, notes, refunds>>

\* A customer reports a payment, which the operator has yet to confirm.
PaymentSubmissionNew(i, amount) ==
    /\ "report" \in desk
    /\ MoreMoney
    /\ invoices[i].status # "draft"
    /\ amount <= Balance(invoices[i])
    /\ reports' = Append(reports, [invoice |-> i, amount |-> amount, status |-> "pending"])
    /\ UNCHANGED <<agreement, invoices, payments, notes, refunds, deposits>>

SubmissionAccept(k) ==
    LET i == reports[k].invoice IN
    /\ reports[k].status = "pending"
    /\ reports[k].amount <= Balance(invoices[i])
    /\ Receive(i, reports[k].amount)
    /\ reports' = [reports EXCEPT ![k].status = "accepted"]
    /\ UNCHANGED <<notes, refunds>>

SubmissionReject(k) ==
    /\ reports[k].status = "pending"
    /\ reports' = [reports EXCEPT ![k].status = "rejected"]
    /\ UNCHANGED <<agreement, invoices, payments, notes, refunds, deposits>>
-----------------------------------------------------------------------------
(* Credit notes and refunds *)

CreditNoteNew(i, amount) ==
    /\ "notes" \in desk
    /\ MoreMoney
    /\ notes' = Append(notes, [invoice |-> i, amount |-> amount, applied |-> FALSE,
                               status |-> "issued"])
    /\ UNCHANGED <<agreement, invoices, payments, reports, refunds, deposits>>

\* A mutation of CreditNoteApply: a note is applied whatever its status.
CreditNoteApplyAgain(k) ==
    LET i == notes[k].invoice IN
    /\ InvoiceBecomes(i, Pay(invoices[i], notes[k].amount))
    /\ notes' = [notes EXCEPT ![k].status = "applied", ![k].applied = TRUE]
    /\ UNCHANGED <<payments, reports, refunds, deposits>>

CreditNoteApply(k) ==
    LET i == notes[k].invoice IN
    /\ notes[k].status = "issued"
    /\ InvoiceBecomes(i, Pay(invoices[i], notes[k].amount))
    /\ notes' = [notes EXCEPT ![k].status = "applied", ![k].applied = TRUE]
    /\ UNCHANGED <<payments, reports, refunds, deposits>>

CreditNoteCancel(k) ==
    /\ notes' = [notes EXCEPT ![k].status = "cancelled"]
    /\ UNCHANGED <<agreement, invoices, payments, reports, refunds, deposits>>

Refundable(p) ==
    payments[p].amount
      - SumOf(refunds, LAMBDA r : r.payment = p /\ r.status \in {"pending", "completed"})

RefundNew(p, amount) ==
    /\ "refund" \in desk
    /\ MoreMoney
    /\ amount <= Refundable(p)
    /\ refunds' = Append(refunds, [payment |-> p, amount |-> amount, status |-> "pending"])
    /\ UNCHANGED <<agreement, invoices, payments, reports, notes, deposits>>

\* The invoice's paid balance goes down only now that the refund has settled.
RefundComplete(k) ==
    LET i == payments[refunds[k].payment].invoice IN
    /\ refunds[k].status = "pending"
    /\ InvoiceBecomes(i,
         Refreshed([invoices[i] EXCEPT !.paid = Max({0, @ - refunds[k].amount})]))
    /\ refunds' = [refunds EXCEPT ![k].status = "completed"]
    /\ UNCHANGED <<payments, reports, notes, deposits>>

RefundFail(k) ==
    /\ refunds[k].status = "pending"
    /\ refunds' = [refunds EXCEPT ![k].status = "failed"]
    /\ UNCHANGED <<agreement, invoices, payments, reports, notes, deposits>>
-----------------------------------------------------------------------------
(* Deposit, notice and exit *)

DepositBalance ==
    SumOf(deposits, LAMBDA e : e.type \in {"received", "reversal"})
      - SumOf(deposits, LAMBDA e : e.type \notin {"received", "reversal"})

DepositEntry(type, amount) ==
    /\ "deposit" \in desk
    /\ Len(deposits) < MaxEntries
    /\ amount <= DepositBalance
    /\ deposits' = Recorded(type, amount, 0, FALSE)
    /\ UNCHANGED <<agreement, invoices, paid>>

LockInEnd == terms.start + terms.lockIn * DaysInMonth

\* Whole months between two days, a part month counting as a month.
MonthsBetween(start, end) ==
    IF end <= start THEN 0 ELSE (end - start + DaysInMonth - 1) \div DaysInMonth

EarlyExit(ends, months, on) ==
    NewInvoice(ends, LockInEnd, DueDate(ends, on), "issued",
        <<[type |-> "early_exit", amount |-> months * EffectivePrice(ends), of |-> 0,
           from |-> ends, upto |-> LockInEnd]>>)

\* A notice has the date that the operator's staff enter, past or to come.
GiveNotice(on) ==
    LET ends   == on + terms.notice * DaysInMonth
        months == MonthsBetween(ends, LockInEnd)
    IN /\ "notice" \in desk
       /\ sub.status = "active" /\ sub.ends = NoDate
       /\ sub' = [sub EXCEPT !.ends = ends, !.backdated = on < MonthStart(today)]
       /\ \/ months = 0 /\ UNCHANGED <<invoices, deposits>>
          \/ /\ months > 0 /\ terms.exitRule = "forfeit_deposit"
             /\ deposits' = IF DepositBalance > 0
                            THEN Recorded("deduction", DepositBalance, 0, TRUE)
                            ELSE deposits
             /\ Len(deposits) < MaxEntries /\ UNCHANGED invoices
          \/ /\ months > 0 /\ terms.exitRule = "remaining_fees"
             /\ Len(invoices) < MaxInvoices
             /\ invoices' = Append(invoices, EarlyExit(ends, months, on))
             /\ UNCHANGED deposits
       /\ UNCHANGED <<terms, desk, today, paid, revisions>>

ExitInvoices ==
    {i \in DOMAIN invoices : Bills(invoices[i], "early_exit") /\ invoices[i].status # "void"}

Forfeits  == {k \in DOMAIN deposits : deposits[k].forfeit}
Reversals == {k \in DOMAIN deposits : deposits[k].type = "reversal"}

\* forfeits[reversals:], those after as many as have been given back.
Lost == {k \in Forfeits : Cardinality({j \in Forfeits : j <= k}) > Cardinality(Reversals)}

MayWithdraw ==
    /\ sub.status = "active" /\ sub.ends # NoDate
    /\ \A i \in ExitInvoices : invoices[i].paid = 0

WithdrawNotice ==
    LET lost == SetToSeq(Lost) IN
    /\ "notice" \in desk
    /\ MayWithdraw
    /\ invoices' = [i \in DOMAIN invoices |->
                      IF i \in ExitInvoices THEN Voided(invoices[i]) ELSE invoices[i]]
    /\ deposits' = deposits \o
         [k \in DOMAIN lost |->
            [deposits[lost[k]] EXCEPT !.type = "reversal", !.forfeit = FALSE]]
    /\ sub' = [sub EXCEPT !.ends = NoDate, !.backdated = FALSE]
    /\ UNCHANGED <<terms, desk, today, paid, revisions>>

\* A mutation of EndTerminated: only the agreements that end today are looked for.
EndTerminatedToday ==
    /\ sub.status = "active" /\ sub.ends = today
    /\ sub' = [sub EXCEPT !.status = "expired"]
    /\ UNCHANGED <<terms, desk, today, invoices, paid, deposits, revisions>>

EndTerminated ==
    /\ sub.status = "active" /\ sub.ends # NoDate /\ sub.ends <= today
    /\ sub' = [sub EXCEPT !.status = "expired"]
    /\ UNCHANGED <<terms, desk, today, invoices, paid, deposits, revisions>>
-----------------------------------------------------------------------------
(* Yearly revisions *)

RevisionAnchor ==
    IF revisions = <<>> THEN terms.start + terms.escalateAfter * DaysInMonth
    ELSE Max({revisions[k].from : k \in DOMAIN revisions}) + Year

Raised(price, percent) == Rounded(price * (100 + percent), 100)

ProposeRevisions ==
    LET old == EffectivePrice(RevisionAnchor) IN
    /\ "revise" \in desk
    /\ sub.status = "active" /\ terms.percent > 0 /\ terms.escalateAfter > 0
    /\ today >= RevisionAnchor - LeadDays
    /\ sub.ends = NoDate \/ sub.ends > RevisionAnchor
    /\ Len(revisions) < MaxRevisions
    /\ revisions' = Append(revisions,
         [from |-> RevisionAnchor, old |-> old, new |-> Raised(old, terms.percent),
          status |-> "proposed"])
    /\ UNCHANGED <<terms, desk, today, sub, invoices, paid, deposits>>

\* Confirmed as proposed, or with an increase that the operator negotiated instead.
RevisionConfirm(k) ==
    /\ revisions[k].status = "proposed"
    /\ \E new \in {revisions[k].new} \union {Raised(revisions[k].old, p) : p \in Percents} :
          revisions' = [revisions EXCEPT ![k].status = "confirmed", ![k].new = new]
    /\ UNCHANGED <<terms, desk, today, sub, invoices, paid, deposits>>

RevisionDismiss(k) ==
    /\ revisions[k].status = "proposed"
    /\ revisions' = [revisions EXCEPT ![k].status = "dismissed"]
    /\ UNCHANGED <<terms, desk, today, sub, invoices, paid, deposits>>
-----------------------------------------------------------------------------
AdvanceDay ==
    /\ today < LastDay /\ today' = today + 1
    /\ UNCHANGED <<terms, desk, sub, invoices, paid, deposits, revisions>>

\* Making an agreement raises its deposit invoice, with no GST.
DepositInvoice(t) ==
    IF t.deposit = 0 THEN <<>>
    ELSE <<NewInvoice(t.start, t.start, t.start, IF t.autoSend THEN "issued" ELSE "draft",
                      <<Other("deposit", t.deposit)>>)>>

Init ==
    /\ \E c \in Cases : terms = c.terms /\ desk = c.desk
    /\ today = 0
    /\ sub = [status |-> "active", ends |-> NoDate, backdated |-> FALSE]
    /\ invoices = DepositInvoice(terms)
    /\ payments = <<>> /\ reports = <<>> /\ notes = <<>> /\ refunds = <<>>
    /\ deposits = <<>> /\ revisions = <<>>

\* Someone pays what is still due or part of it.
Sums(due) == Parts \union (IF due > 0 THEN {due} ELSE {})

OnInvoice(i) ==
    \/ \E amount \in Parts : LineAdd(i, amount)
    \/ \E k \in DOMAIN invoices[i].lines : LineDelete(i, k)
    \/ Issue(i)
    \/ Void(i)
    \/ \E amount \in Sums(Balance(invoices[i])) :
          PaymentNew(i, amount) \/ PaymentSubmissionNew(i, amount)
    \/ \E amount \in Sums(invoices[i].paid) : CreditNoteNew(i, amount)

Next ==
    \/ AdvanceDay
    \/ RunMonthlyBilling \/ RunBillingForMonth \/ IssueDrafts
    \/ \E i \in DOMAIN invoices : OnInvoice(i)
    \/ \E k \in DOMAIN reports : SubmissionAccept(k) \/ SubmissionReject(k)
    \/ \E k \in DOMAIN notes : CreditNoteApply(k) \/ CreditNoteCancel(k)
    \/ \E p \in DOMAIN payments : \E amount \in Sums(payments[p].amount) : RefundNew(p, amount)
    \/ \E k \in DOMAIN refunds : RefundComplete(k) \/ RefundFail(k)
    \/ \E type \in {"deduction", "refund"}, amount \in Sums(DepositBalance) :
          DepositEntry(type, amount)
    \/ \E on \in NoticeDates : GiveNotice(on)
    \/ WithdrawNotice \/ EndTerminated
    \/ ProposeRevisions
    \/ \E k \in DOMAIN revisions : RevisionConfirm(k) \/ RevisionDismiss(k)

Spec == Init /\ [][Next]_vars

\* Days pass, and run-scheduled-jobs runs now and then.
FairSpec == Spec /\ WF_vars(AdvanceDay) /\ WF_vars(EndTerminated)
-----------------------------------------------------------------------------
(* Properties *)

\* Every variable keeps its shape.
TypeOK ==
    /\ [terms |-> terms, desk |-> desk] \in Cases /\ today \in Days
    /\ sub \in [status: {"active", "expired"}, ends: Nat \union {NoDate}, backdated: BOOLEAN]
    /\ Len(invoices) <= MaxInvoices /\ \A i \in DOMAIN invoices : invoices[i] \in Invoice
    /\ \A k \in DOMAIN payments : payments[k] \in Payment
    /\ \A k \in DOMAIN reports : reports[k] \in Report
    /\ \A k \in DOMAIN notes : notes[k] \in Note
    /\ \A k \in DOMAIN refunds : refunds[k] \in Refund
    /\ \A k \in DOMAIN deposits : deposits[k] \in Entry
    /\ \A k \in DOMAIN revisions : revisions[k] \in Revision

AllLines == {<<i, k>> : i \in DOMAIN invoices, k \in 1..(MaxInvoices + 3)}
Lines(types) ==
    {l \in AllLines : /\ l[2] \in DOMAIN invoices[l[1]].lines
                      /\ invoices[l[1]].lines[l[2]].type \in types}
LineAt(l) == invoices[l[1]].lines[l[2]]
Overlap(a, b) == a.from < b.upto /\ b.from < a.upto

\* No day is charged for twice, by the monthly invoices or by the fees for leaving early,
\* however notice is given and withdrawn; when notice is at least a month, part months are
\* charged by days, months are billed as they come and no invoice was ever void.  A notice may be
\* dated before a month that is billed already: its fee, and no invoice made after it, may then
\* charge days of the plan once more.
NoDayBilledTwice ==
    terms.notice >= 1 /\ terms.prorate /\ "bill_month" \notin desk =>
        LET standing == {l \in Lines({"plan", "early_exit"}) : ~invoices[l[1]].everVoid}
            feeOnBilledDays(l, m) ==
                /\ sub.backdated
                /\ l[1] < m[1] /\ LineAt(l).type = "plan" /\ LineAt(m).type = "early_exit"
        IN \A l, m \in standing :
              l # m /\ Overlap(LineAt(l), LineAt(m)) => feeOnBilledDays(l, m) \/ feeOnBilledDays(m, l)

\* "Late fees have been billed on this invoice up to (not including) this date": no day is
\* fined twice, also when the invoice is voided and comes back, and none in the grace.
NoDayFinedTwice ==
    LET fees == Lines({"late_fee"}) IN
    /\ \A l, m \in fees :
          l # m /\ LineAt(l).of = LineAt(m).of => ~Overlap(LineAt(l), LineAt(m))
    /\ \A l \in fees : LineAt(l).from >= invoices[LineAt(l).of].due + terms.grace

\* No day of an agreement is charged twice, neither the plan nor a fine.
NoDayChargedTwice == NoDayBilledTwice /\ NoDayFinedTwice

\* What counts as paid on an invoice is the payments on it and the credit notes once
\* applied, less the refunds that are completed, whatever the order they come in.
PaidIsExplained ==
    \A i \in DOMAIN invoices :
        invoices[i].paid =
            SumOf(payments, LAMBDA p : p.invoice = i)
              + SumOf(notes, LAMBDA n : n.invoice = i /\ n.applied)
              - SumOf(refunds, LAMBDA r : /\ payments[r.payment].invoice = i
                                          /\ r.status = "completed")

\* "The refundable deposit is billed once ... and counted as held when it is paid": a
\* deposit that is paid, refunded and paid again is still held once, and what is deducted,
\* forfeited and given back is never more than what is held.
DepositHeldOnce ==
    /\ \A j, k \in DOMAIN deposits :
          /\ deposits[j].type = "received" /\ deposits[k].type = "received"
          => j = k
    /\ DepositBalance >= 0

\* An agreement that is not under notice has got back every deposit it forfeited, however
\* often notice was given and withdrawn.
WithdrawnNoticeForfeitsNothing ==
    sub.ends = NoDate =>
        SumOf(deposits, LAMBDA e : e.forfeit) = SumOf(deposits, LAMBDA e : e.type = "reversal")

\* The deposit's ledger stays sound through payments, deductions, forfeits, reversals and refunds.
DepositLedgerSound == DepositHeldOnce /\ WithdrawnNoticeForfeitsNothing

\* What an invoice says is paid is explained by its payments, notes and refunds, and so is what is
\* held as a deposit (billing_routes: credit_note_apply, refund_complete; billing_service:
\* after_payment, withdraw_notice).
MoneyExplained == TypeOK /\ PaidIsExplained /\ DepositLedgerSound

\* "The agreement ends after the notice period", also when the job missed that day.
NoticeRunsOut ==
    (sub.ends # NoDate /\ sub.ends <= LastDay) ~> (sub.status = "expired" \/ sub.ends = NoDate)
=============================================================================
