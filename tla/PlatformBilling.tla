-------------------------- MODULE PlatformBilling --------------------------
(***************************************************************************)
(* What one operator owes Hub1z: app/services/operator_billing.py with the *)
(* routes that call it (blueprints/admin/hub1z_billing_routes.py, platform/*)
(* billing_routes.py and finance_routes.py), the operator's status         *)
(* (platform/routes.py) and the quotas that its plan sets                  *)
(* (operator_quotas.py, entitlements.py).                                  *)
(*                                                                         *)
(* A plan or an add-on is asked for, invoiced, and takes effect once its   *)
(* invoice is paid; the daily job issues and starts renewals and bills     *)
(* usage in arrears.  Handlers are single transactions and single steps,   *)
(* except where two requests for one invoice overlap (the desk "overlap"). *)
(* Amounts are whole paise with their GST included.                        *)
(***************************************************************************)
EXTENDS Integers, SequencesExt

CONSTANTS
    Cases,          \* operators, each with the operations that are used on it
    Plans,          \* terms of the tiers an operator may choose
    Contracts,      \* terms that Hub1z's staff negotiate with it
    TrialTerms,     \* terms of the trial
    AddonPrices,    \* the add-ons, and the price of a unit for a month
    Parts,          \* amounts, besides the balance, that a payment may have
    Procs,          \* requests that overlap
    DaysInMonth,
    MonthsInYear,
    NoticeDays,     \* renewal_notice_days
    UnitStorage,    \* storage that one unit of "extra_storage" adds
    LastDay,        \* bounds: the last day,
    Horizon(_),     \*   for the operations in use, the last day that is reached,
    MaxRequests(_), \*   for the operations in use, invoices asked for or made by hand,
    MaxMoney(_),    \*   payments and reports,
    MaxUsage,       \*   seats contracted, storage used,
    MaxUnits        \*   and units of an add-on

Days == 0..LastDay
Modules == DOMAIN AddonPrices
NoDay == -1
NoLimit == -1

Operations == {"plan", "contract", "pay", "manual", "report", "addon", "renewal_units", "seats",
               "storage", "staff", "overlap"}

ASSUME Calendar == {DaysInMonth, MonthsInYear, LastDay} \subseteq Nat \ {0}
ASSUME Uses == \A c \in Cases : c.desk \subseteq Operations /\ Horizon(c.desk) \in Days
ASSUME Amounts == /\ Parts \subseteq Nat \ {0} /\ NoticeDays \in Nat /\ UnitStorage \in Nat
                  /\ IsFiniteSet(Modules) /\ \A m \in Modules : AddonPrices[m] \in Nat \ {0}
ASSUME Bounds == {MaxUsage, MaxUnits} \subseteq Nat

VARIABLES
    desk,       \* the operations used
    today,
    operator,   \* operators: its status
    sub,        \* operator_subscriptions
    addons,     \* operator_addons
    invoices,   \* platform_invoices; rows are kept in the order of their ids
    payments,   \* platform_payments
    reports,    \* platform_payment_reports
    usage,      \* operator_usage_snapshots: the most seats seen on a day
    seats,      \* contracted seats the operator has now
    storage,    \* storage its documents use now
    tasks       \* what each overlapping request has loaded

billing == <<sub, addons, invoices, payments>>
account == <<operator, sub, addons, invoices, payments>>
world == <<desk, today, usage, seats, storage>>
vars == <<world, account, reports, tasks>>
-----------------------------------------------------------------------------
(* Rows *)

Policies == {"allow_and_charge", "block_additional_usage"}
Methods == {"maximum", "end_of_period", "average_daily"}

\* A tier's terms as they are frozen into a contract.
Terms == [tier: STRING, order: Nat, monthly: Nat, annual: Nat, setup: Nat, seats: Nat \union {NoLimit},
          rate: Nat, policy: Policies, method: Methods, storage: Nat \union {NoLimit},
          includes: SUBSET Modules]

NoTerms == [tier |-> "none"]
Cycles == {"monthly", "annual"}
NoChange == [terms |-> NoTerms, cycle |-> "monthly"]

ASSUME Offers ==
    /\ Plans \union Contracts \subseteq Terms
    /\ \A c \in Cases : /\ c.terms \in Terms \union {NoTerms} /\ c.cycle \in Cycles
                        /\ c.seats \in 0..MaxUsage

\* `renews' is what renewal_quantity and cancel_at_period_end say together: the units kept
\* from the next renewal, none of them after a cancellation.
AsBefore == -1
Addon == [active: BOOLEAN, quantity: 0..MaxUnits, through: Nat \union {NoDay},
          renews: 0..MaxUnits \union {AsBefore}]
NoAddon == [active |-> FALSE, quantity |-> 0, through |-> NoDay, renews |-> AsBefore]

\* `terms', `cycle' and `units' are what the payment of the invoice activates.
InvoiceKinds == {"plan", "upgrade", "renewal", "addon", "usage", "manual"}
Units == [Modules -> 0..MaxUnits]
NoUnits == [m \in Modules |-> 0]

NewInvoice(kind, start, end, due, amount) ==
    [kind |-> kind, start |-> start, end |-> end, due |-> due, amount |-> amount,
     status |-> "issued", terms |-> NoTerms, cycle |-> "monthly", units |-> NoUnits]

Open == {"issued", "overdue"}

\* The rows that a handler changes together; a handler's helpers take them and give them
\* back changed.
Books == [operator |-> operator, sub |-> sub, addons |-> addons, invoices |-> invoices,
          payments |-> payments]

Become(books) ==
    /\ operator' = books.operator /\ sub' = books.sub /\ addons' = books.addons
    /\ invoices' = books.invoices /\ payments' = books.payments

Issued(books, inv) == [books EXCEPT !.invoices = Append(@, inv)]
-----------------------------------------------------------------------------
(* Terms and amounts *)

MonthsOf(cycle) == IF cycle = "annual" THEN MonthsInYear ELSE 1
PeriodEnd(start, cycle) == start + MonthsOf(cycle) * DaysInMonth - 1

\* Halves of a paisa are rounded up.
Rounded(n, d) == (2 * n + d) \div (2 * d)

BasePrice(terms, cycle) == IF cycle = "annual" THEN terms.annual ELSE terms.monthly

Paid == sub.status = "active"

\* The terms an operator works under: those it paid for, or those of the trial.
PlanTerms == IF Paid THEN sub.terms ELSE TrialTerms

Lower(a, b) == IF a = NoLimit THEN b ELSE IF b = NoLimit THEN a ELSE Min({a, b})
Within(count, limit) == limit = NoLimit \/ count <= limit

RenewingUnits(addon) ==
    IF ~addon.active THEN 0 ELSE IF addon.renews = AsBefore THEN addon.quantity ELSE addon.renews

InForce(addon) == addon.active /\ addon.through >= today

ExtraStorage(units) == IF "extra_storage" \in Modules THEN units * UnitStorage ELSE 0
StorageAddon == IF "extra_storage" \in Modules THEN addons["extra_storage"] ELSE NoAddon

\* validate_capacity, of contracted seats and storage: staff, leads and locations are
\* counted in the same way.  Storage must fit what renews of the add-on.
Fits(terms, strict) ==
    /\ strict \/ terms.policy # "allow_and_charge" => Within(seats, terms.seats)
    /\ terms.storage # NoLimit =>
         storage <= terms.storage + (IF InForce(StorageAddon)
                                     THEN ExtraStorage(RenewingUnits(StorageAddon)) ELSE 0)
-----------------------------------------------------------------------------
(* Activation *)

RenewalAmount(terms, cycle, units) ==
    LET prices == [m \in Modules |-> AddonPrices[m] * units[m] * MonthsOf(cycle)]
    IN BasePrice(terms, cycle) + SumFunction(prices)

RenewalUnits(books) == [m \in Modules |-> RenewingUnits(books.addons[m])]

PaidOn(books, i) ==
    LET paid == {k \in DOMAIN books.payments : books.payments[k].invoice = i}
    IN SumFunction([k \in paid |-> books.payments[k].amount])

Untouched(books, i) == \A k \in DOMAIN books.payments : books.payments[k].invoice # i

UpcomingRenewals(books) ==
    {i \in DOMAIN books.invoices :
        /\ books.invoices[i].kind = "renewal"
        /\ books.invoices[i].status \in Open \union {"paid"}
        /\ books.invoices[i].start > books.sub.end}

Repriced(books, renewals) ==
    LET units == RenewalUnits(books)
        reprice(inv) == [inv EXCEPT !.units = units,
                                    !.amount = RenewalAmount(inv.terms, inv.cycle, units)]
    IN [books EXCEPT !.invoices = [i \in DOMAIN books.invoices |->
           IF i \in renewals THEN reprice(books.invoices[i]) ELSE books.invoices[i]]]

\* A mutation of AddonActivated: the renewals already issued keep their amount.
AddonActivatedAlone(books, inv) ==
    [books EXCEPT !.addons = [m \in Modules |->
        IF inv.units[m] = 0 THEN books.addons[m]
        ELSE [active |-> TRUE, quantity |-> inv.units[m], through |-> inv.end,
              renews |-> AsBefore]]]

\* A paid add-on is in force to the end of its invoice, and the renewals that nobody has
\* paid anything on are repriced.
AddonActivated(books, inv) ==
    LET bought == [books EXCEPT !.addons = [m \in Modules |->
                      IF inv.units[m] = 0 THEN books.addons[m]
                      ELSE [active |-> TRUE, quantity |-> inv.units[m], through |-> inv.end,
                            renews |-> AsBefore]]]
    IN Repriced(bought, {i \in UpcomingRenewals(bought) :
                            bought.invoices[i].status \in Open /\ Untouched(bought, i)})

PlanActivated(books, inv) ==
    [books EXCEPT
        !.sub = [status |-> "active", start |-> inv.start, end |-> inv.end,
                 terms |-> inv.terms, cycle |-> inv.cycle, scheduled |-> NoChange],
        !.operator = IF @ = "trial" THEN "active" ELSE @]

\* A mutation of AddonsRenewed: an add-on keeps the units it had.
AddonsRenewedAsTheyAre(books, inv) ==
    [books EXCEPT !.addons = [m \in Modules |->
        IF books.addons[m].active /\ inv.units[m] > 0
        THEN [books.addons[m] EXCEPT !.through = inv.end, !.renews = AsBefore]
        ELSE books.addons[m]]]

\* A renewal carries the add-ons it lists over to its period and ends those that were
\* cancelled.
AddonsRenewed(books, inv) ==
    [books EXCEPT !.addons = [m \in Modules |->
        LET addon == books.addons[m] IN
        IF addon.active /\ inv.units[m] > 0
        THEN [addon EXCEPT !.through = inv.end, !.quantity = inv.units[m], !.renews = AsBefore]
        ELSE IF addon.active /\ RenewingUnits(addon) = 0
        THEN [addon EXCEPT !.active = FALSE, !.renews = AsBefore]
        ELSE addon]]

\* _activate, of an invoice that has been paid.
Activated(books, inv) ==
    CASE inv.kind \in {"usage", "manual"} -> books
      [] inv.kind = "addon" -> AddonActivated(books, inv)
      [] inv.kind = "renewal" ->
            IF inv.start > today THEN books ELSE AddonsRenewed(PlanActivated(books, inv), inv)
      [] OTHER -> PlanActivated(books, inv)
-----------------------------------------------------------------------------
(* Asking for a plan *)

Requests == Cardinality({i \in DOMAIN invoices : invoices[i].kind \in {"plan", "upgrade", "addon", "manual"}})

\* A smaller or cheaper plan, and another cycle, wait for the renewal.
WaitsForRenewal(terms, cycle) ==
    /\ Paid
    /\ \/ cycle # sub.cycle
       \/ terms.order < sub.terms.order
       \/ BasePrice(terms, cycle) < BasePrice(sub.terms, cycle)

SchedulePlan(terms, cycle) ==
    /\ WaitsForRenewal(terms, cycle)
    /\ Fits(terms, TRUE)
    /\ sub' = [sub EXCEPT !.scheduled = [terms |-> terms, cycle |-> cycle]]
    /\ UNCHANGED <<world, operator, addons, invoices, payments, reports, tasks>>

AlreadyActive(terms, cycle, custom) ==
    /\ Paid
    /\ terms.tier = sub.terms.tier /\ cycle = sub.cycle
    /\ custom => terms = sub.terms

\* An unpaid request for the same plan is given back, another one is refused.
PendingPlan ==
    \E i \in DOMAIN invoices :
        invoices[i].kind \in {"plan", "upgrade"} /\ invoices[i].status \in Open

\* An upgrade within a paid period charges the difference for the days that are left.
PlanInvoice(terms, cycle) ==
    LET difference == Max({BasePrice(terms, cycle) - BasePrice(sub.terms, cycle), 0})
        inv == IF Paid /\ today <= sub.end
               THEN NewInvoice("upgrade", sub.start, sub.end, today,
                               Rounded(difference * (sub.end - today + 1), sub.end - sub.start + 1))
               ELSE NewInvoice("plan", today, PeriodEnd(today, cycle), today,
                               BasePrice(terms, cycle) + (IF Paid THEN 0 ELSE terms.setup))
    IN [inv EXCEPT !.terms = terms, !.cycle = cycle]

\* What costs nothing takes effect at once.
InvoicePlan(terms, cycle, custom) ==
    LET inv == PlanInvoice(terms, cycle)
        free == Issued(Books, [inv EXCEPT !.status = "paid"])
    IN /\ ~WaitsForRenewal(terms, cycle) /\ ~AlreadyActive(terms, cycle, custom)
       /\ ~PendingPlan
       /\ Fits(terms, FALSE)
       /\ Requests < MaxRequests(desk)
       /\ Become(IF inv.amount = 0 THEN Activated(free, inv) ELSE Issued(Books, inv))
       /\ UNCHANGED <<world, reports, tasks>>

RequestPlan(terms, cycle) ==
    /\ "plan" \in desk
    /\ SchedulePlan(terms, cycle) \/ InvoicePlan(terms, cycle, FALSE)

\* billing_subscription_edit: Hub1z's staff ask for a plan on negotiated terms.
RequestContract(terms, cycle) ==
    /\ "contract" \in desk
    /\ SchedulePlan(terms, cycle) \/ InvoicePlan(terms, cycle, TRUE)
-----------------------------------------------------------------------------
(* Add-ons *)

PendingAddon(m) ==
    \E i \in DOMAIN invoices : /\ invoices[i].kind = "addon" /\ invoices[i].status \in Open
                               /\ invoices[i].units[m] > 0

AddonInvoice(m, quantity, old) ==
    LET price == AddonPrices[m] * (quantity - old) * MonthsOf(sub.cycle)
    IN [NewInvoice("addon", today, sub.end, today,
                   Rounded(price * (sub.end - today + 1), sub.end - sub.start + 1))
        EXCEPT !.units = [NoUnits EXCEPT ![m] = quantity]]

RequestAddon(m, quantity) ==
    LET addon == addons[m]
        old == IF InForce(addon) THEN addon.quantity ELSE 0
    IN /\ "addon" \in desk
       /\ m \notin PlanTerms.includes
       /\ Paid /\ today <= sub.end
       /\ ~(addon.active /\ addon.renews # 0 /\ addon.quantity = quantity)
       /\ quantity > old
       /\ ~PendingAddon(m)
       /\ Requests < MaxRequests(desk)
       /\ Become(Issued(Books, AddonInvoice(m, quantity, old)))
       /\ UNCHANGED <<world, reports, tasks>>

\* The owner chooses what renews of an add-on; renewals already issued are repriced, and
\* none of them may be paid or part paid.
ScheduleAddonRenewal(m, units) ==
    LET keep    == IF units = addons[m].quantity THEN AsBefore ELSE units
        renewals == UpcomingRenewals(Books)
    IN /\ "renewal_units" \in desk
       /\ addons[m].active
       /\ units \in 0..addons[m].quantity \union {AsBefore}
       /\ \A i \in renewals : invoices[i].status \in Open /\ Untouched(Books, i)
       /\ Become(Repriced([Books EXCEPT !.addons[m].renews = keep], renewals))
       /\ UNCHANGED <<world, reports, tasks>>
-----------------------------------------------------------------------------
(* Payments *)

MoreMoney == Len(payments) + Len(reports) < MaxMoney(desk)

KeyUsed(key) == \E k \in DOMAIN payments : payments[k].key = key

\* `inv' is the invoice as the request loaded it; what was paid on it is read under the
\* invoice's row lock.
MayPay(inv, i, amount) == inv.status \in Open /\ amount <= inv.amount - PaidOn(Books, i)

\* confirm_payment, once its checks are passed.
PaymentRecorded(inv, i, amount, key, report) ==
    LET paid == [Books EXCEPT !.payments = Append(@, [invoice |-> i, amount |-> amount,
                                                      key |-> key, report |-> report])]
    IN IF PaidOn(paid, i) >= inv.amount
       THEN Activated([paid EXCEPT !.invoices[i].status = "paid"], inv)
       ELSE paid

NextKey == Len(payments) + 1
NoKey == 0

\* Staff record a payment; the key comes from the page, so that a form sent again is known.
ConfirmPayment(i, amount, key) ==
    /\ "pay" \in desk /\ "overlap" \notin desk
    /\ MoreMoney
    /\ ~KeyUsed(key)
    /\ MayPay(invoices[i], i, amount)
    /\ Become(PaymentRecorded(invoices[i], i, amount, key, 0))
    /\ UNCHANGED <<world, reports, tasks>>

ReportPayment(i, amount) ==
    /\ "report" \in desk
    /\ MoreMoney
    /\ invoices[i].status \in Open
    /\ \A k \in DOMAIN reports : ~(reports[k].invoice = i /\ reports[k].status = "pending")
    /\ reports' = Append(reports, [invoice |-> i, amount |-> amount, status |-> "pending"])
    /\ UNCHANGED <<world, account, tasks>>

AcceptReport(k) ==
    LET i == reports[k].invoice IN
    /\ reports[k].status = "pending"
    /\ MayPay(invoices[i], i, reports[k].amount)
    /\ Become(PaymentRecorded(invoices[i], i, reports[k].amount, NoKey, k))
    /\ reports' = [reports EXCEPT ![k].status = "accepted"]
    /\ UNCHANGED <<world, tasks>>

\* Staff reject it, or it is closed since the invoice has been paid.
RejectReport(k) ==
    /\ reports[k].status = "pending"
    /\ reports' = [reports EXCEPT ![k].status = "rejected"]
    /\ UNCHANGED <<world, account, tasks>>

MayCancel(inv, i) ==
    inv.status \in Open /\ inv.kind \in {"plan", "upgrade", "addon"} /\ Untouched(Books, i)

CancelInvoice(i) ==
    /\ {"plan", "addon"} \intersect desk # {} /\ "overlap" \notin desk
    /\ MayCancel(invoices[i], i)
    /\ invoices' = [invoices EXCEPT ![i].status = "void"]
    /\ UNCHANGED <<world, operator, sub, addons, payments, reports, tasks>>

\* Hub1z's staff make an invoice by hand; nothing depends on it.
ManualInvoice(amount) ==
    /\ "manual" \in desk
    /\ Requests < MaxRequests(desk)
    /\ Become(Issued(Books, NewInvoice("manual", today, today, today, amount)))
    /\ UNCHANGED <<world, reports, tasks>>
-----------------------------------------------------------------------------
(* Requests that overlap: each loads the invoice in one step and commits in another *)

Idle == [op |-> "idle"]
Task(op, i, amount, key) ==
    [op |-> op, invoice |-> i, inv |-> invoices[i], amount |-> amount, key |-> key]

ConfirmLoad(p, i, amount, key) ==
    /\ {"overlap", "pay"} \subseteq desk
    /\ tasks[p] = Idle
    /\ tasks' = [tasks EXCEPT ![p] = Task("confirm", i, amount, key)]
    /\ UNCHANGED <<world, account, reports>>

\* A mutation of ConfirmCommit: the payments are those the request saw when it loaded the
\* invoice, before anything was paid on it.
ConfirmCommitStale(p) ==
    LET t == tasks[p] IN
    /\ t.op = "confirm"
    /\ MoreMoney
    /\ ~KeyUsed(t.key)
    /\ t.inv.status \in Open /\ t.amount <= t.inv.amount
    /\ Become(PaymentRecorded(t.inv, t.invoice, t.amount, t.key, 0))
    /\ tasks' = [tasks EXCEPT ![p] = Idle]
    /\ UNCHANGED <<world, reports>>

\* The row lock makes confirmations wait for each other, but the status is the one loaded.
ConfirmCommit(p) ==
    LET t == tasks[p] IN
    /\ t.op = "confirm"
    /\ MoreMoney
    /\ ~KeyUsed(t.key)
    /\ MayPay(t.inv, t.invoice, t.amount)
    /\ Become(PaymentRecorded(t.inv, t.invoice, t.amount, t.key, 0))
    /\ tasks' = [tasks EXCEPT ![p] = Idle]
    /\ UNCHANGED <<world, reports>>

CancelLoad(p, i) ==
    /\ {"overlap", "plan"} \subseteq desk
    /\ tasks[p] = Idle
    /\ MayCancel(invoices[i], i)
    /\ tasks' = [tasks EXCEPT ![p] = Task("cancel", i, 0, NoKey)]
    /\ UNCHANGED <<world, account, reports>>

CancelCommit(p) ==
    /\ tasks[p].op = "cancel"
    /\ invoices' = [invoices EXCEPT ![tasks[p].invoice].status = "void"]
    /\ tasks' = [tasks EXCEPT ![p] = Idle]
    /\ UNCHANGED <<world, operator, sub, addons, payments, reports>>

\* A request that is refused at its commit, or killed.
Fail(p) ==
    /\ tasks[p] # Idle
    /\ tasks' = [tasks EXCEPT ![p] = Idle]
    /\ UNCHANGED <<world, account, reports>>
-----------------------------------------------------------------------------
(* Staff of Hub1z and the operator's status *)

Hold ==
    /\ "staff" \in desk /\ operator # "suspended"
    /\ operator' = "hold"
    /\ UNCHANGED <<world, billing, reports, tasks>>

ReleaseHold ==
    /\ "staff" \in desk /\ operator = "hold"
    /\ operator' = "active"
    /\ UNCHANGED <<world, billing, reports, tasks>>

Suspend ==
    /\ "staff" \in desk
    /\ operator' = "suspended"
    /\ UNCHANGED <<world, billing, reports, tasks>>

ActivateOperator ==
    /\ "staff" \in desk
    /\ operator' = "active"
    /\ UNCHANGED <<world, billing, reports, tasks>>
-----------------------------------------------------------------------------
(* What the operator uses, within its quotas *)

\* While a plan waits for the renewal, usage must keep to its limits as well.
SeatLimit ==
    IF sub.scheduled # NoChange THEN Lower(PlanTerms.seats, sub.scheduled.terms.seats)
    ELSE IF PlanTerms.policy = "allow_and_charge" THEN NoLimit ELSE PlanTerms.seats

StorageLimit ==
    LET ofTerms == IF sub.scheduled # NoChange
                   THEN Lower(PlanTerms.storage, sub.scheduled.terms.storage)
                   ELSE PlanTerms.storage
    IN IF ofTerms = NoLimit THEN NoLimit
       ELSE ofTerms + (IF InForce(StorageAddon) THEN ExtraStorage(StorageAddon.quantity) ELSE 0)

SeatsGrow ==
    /\ "seats" \in desk
    /\ seats < MaxUsage /\ Within(seats + 1, SeatLimit)
    /\ seats' = seats + 1
    /\ UNCHANGED <<desk, today, usage, storage, account, reports, tasks>>

SeatsShrink ==
    /\ "seats" \in desk /\ seats > 0
    /\ seats' = seats - 1
    /\ UNCHANGED <<desk, today, usage, storage, account, reports, tasks>>

StorageGrows ==
    /\ "storage" \in desk
    /\ storage < MaxUsage /\ Within(storage + 1, StorageLimit)
    /\ storage' = storage + 1
    /\ UNCHANGED <<desk, today, usage, seats, account, reports, tasks>>

StorageShrinks ==
    /\ "storage" \in desk /\ storage > 0
    /\ storage' = storage - 1
    /\ UNCHANGED <<desk, today, usage, seats, account, reports, tasks>>

\* record_usage_snapshot: the high-water mark of the day.
NoRecord == -1
Recorded == [usage EXCEPT ![today] = Max({@, seats})]

\* Hub1z's billing page records usage as well.
RecordUsage ==
    /\ "seats" \in desk
    /\ usage' = Recorded
    /\ UNCHANGED <<desk, today, seats, storage, account, reports, tasks>>
-----------------------------------------------------------------------------
(* The daily job *)

\* The months of the paid period that are over.
UsageWindows ==
    LET from(m) == sub.start + m * DaysInMonth
        upto(m) == Min({from(m) + DaysInMonth - 1, sub.end})
    IN [m \in 1..Cardinality({k \in 0..LastDay : from(k) <= sub.end /\ upto(k) < today}) |->
            [start |-> from(m - 1), end |-> upto(m - 1)]]

\* Seats beyond those included, added up over the window's days when an average is charged.
ExtraSeats(terms, w) ==
    LET records    == {d \in w.start..w.end : d \in Days /\ usage[d] # NoRecord}
        seen(d)    == LET before == {e \in records : e <= d}
                      IN IF before = {} THEN 0 ELSE usage[Max(before)]
        length     == w.end - w.start + 1
        extra(n)   == Max({n - terms.seats, 0})
    IN IF records = {} THEN 0
       ELSE CASE terms.method = "average_daily" ->
                   Max({SumFunction([d \in w.start..w.end |-> seen(d)]) - length * terms.seats, 0})
              [] terms.method = "end_of_period" -> length * extra(usage[Max(records)])
              [] OTHER -> length * extra(Max({usage[d] : d \in records}))

\* _bill_usage: the extra seats of the windows that have no bill yet, the earliest first.
UsageBilled(books) ==
    LET windows == UsageWindows
        known(w) == \E i \in DOMAIN books.invoices :
            /\ books.invoices[i].kind = "usage"
            /\ books.invoices[i].start = w.start /\ books.invoices[i].end = w.end
        owed == {m \in DOMAIN windows :
                    ~known(windows[m]) /\ ExtraSeats(sub.terms, windows[m]) # 0}
        nth(n) == windows[CHOOSE m \in owed : Cardinality({k \in owed : k <= m}) = n]
        bill(w) == NewInvoice("usage", w.start, w.end, today,
                       Rounded(ExtraSeats(sub.terms, w) * sub.terms.rate, w.end - w.start + 1))
    IN IF sub.terms.policy = "allow_and_charge" /\ sub.terms.seats # NoLimit /\ sub.terms.rate > 0
       THEN [books EXCEPT !.invoices = @ \o [n \in 1..Cardinality(owed) |-> bill(nth(n))]]
       ELSE books

RenewalsFrom(books, start) ==
    {i \in DOMAIN books.invoices : books.invoices[i].kind = "renewal" /\ books.invoices[i].start = start}

\* The terms that renew: those that wait for the renewal, unless what is used does not fit
\* them, and else the present ones.
Renewing == IF sub.scheduled # NoChange /\ Fits(sub.scheduled.terms, TRUE)
            THEN sub.scheduled ELSE [terms |-> sub.terms, cycle |-> sub.cycle]

RenewalInvoice(books) ==
    LET start == sub.end + 1
        units == RenewalUnits(books)
    IN [NewInvoice("renewal", start, PeriodEnd(start, Renewing.cycle), start,
                   RenewalAmount(Renewing.terms, Renewing.cycle, units))
        EXCEPT !.terms = Renewing.terms, !.cycle = Renewing.cycle, !.units = units]

\* A mutation of Renewed: a paid renewal starts on its very day only.
RenewedOnItsDay(books) ==
    LET start == sub.end + 1
        paid == {i \in RenewalsFrom(books, start) : books.invoices[i].status = "paid"}
    IN IF paid # {} /\ start = today THEN Activated(books, books.invoices[Min(paid)])
       ELSE IF RenewalsFrom(books, start) # {} THEN books
       ELSE Issued(books, RenewalInvoice(books))

\* A renewal that was paid in advance starts; otherwise the next one is issued, once.  A
\* change that no longer fits is dropped.
Renewed(books) ==
    LET start == sub.end + 1
        paid == {i \in RenewalsFrom(books, start) : books.invoices[i].status = "paid"}
        kept == [books EXCEPT !.sub.scheduled = IF Fits(@.terms, TRUE) THEN @ ELSE NoChange]
        asked == IF sub.scheduled = NoChange THEN books ELSE kept
    IN IF today < sub.end - NoticeDays THEN books
       ELSE IF paid # {} /\ start <= today THEN Activated(books, books.invoices[Min(paid)])
       ELSE IF \/ RenewalsFrom(books, start) # {}
               \/ sub.scheduled = NoChange /\ ~Fits(sub.terms, FALSE)
       THEN asked ELSE Issued(asked, RenewalInvoice(asked))

BecomeOverdue(books) ==
    [books EXCEPT !.invoices = [i \in DOMAIN @ |->
        IF @[i].status = "issued" /\ @[i].due < today THEN [@[i] EXCEPT !.status = "overdue"]
        ELSE @[i]]]

RunJobs ==
    /\ usage' = IF Paid THEN Recorded ELSE usage
    /\ \E billed \in {IF Paid THEN UsageBilled(Books) ELSE Books} :
       \E renewed \in {IF Paid THEN Renewed(billed) ELSE billed} :
       \E books \in {BecomeOverdue(renewed)} : Become(books)
    /\ UNCHANGED <<desk, today, seats, storage, reports, tasks>>

AdvanceDay ==
    /\ today < Horizon(desk)
    /\ today' = today + 1
    /\ UNCHANGED <<desk, usage, seats, storage, account, reports, tasks>>
-----------------------------------------------------------------------------
(* The system *)

\* An operator begins on its trial, or with the plan of its case, invoiced and paid today.
FirstPlan(c) ==
    [NewInvoice("plan", 0, PeriodEnd(0, c.cycle), 0, BasePrice(c.terms, c.cycle) + c.terms.setup)
     EXCEPT !.status = "paid", !.terms = c.terms, !.cycle = c.cycle]

Init ==
    /\ today = 0
    /\ \E c \in Cases :
          /\ desk = c.desk /\ seats = c.seats
          /\ IF c.terms = NoTerms
             THEN /\ operator = "trial"
                  /\ sub = [status |-> "trial", start |-> NoDay, end |-> NoDay,
                            terms |-> NoTerms, cycle |-> "monthly", scheduled |-> NoChange]
                  /\ invoices = <<>> /\ payments = <<>>
             ELSE /\ operator = "active"
                  /\ sub = [status |-> "active", start |-> 0, end |-> PeriodEnd(0, c.cycle),
                            terms |-> c.terms, cycle |-> c.cycle, scheduled |-> NoChange]
                  /\ invoices = <<FirstPlan(c)>>
                  /\ payments = <<[invoice |-> 1, amount |-> FirstPlan(c).amount, key |-> 1,
                                   report |-> 0]>>
    /\ addons = [m \in Modules |-> NoAddon]
    /\ reports = <<>>
    /\ usage = [d \in Days |-> NoRecord]
    /\ storage = 0
    /\ tasks = [p \in Procs |-> Idle]

Sums(i) == Parts \union ({invoices[i].amount - PaidOn(Books, i)} \ {0})
Keys == {NextKey, Len(payments)} \ {NoKey}
OverlappingKeys == {NextKey, NextKey + 1}

OnInvoice(i) ==
    \/ CancelInvoice(i)
    \/ \E amount \in Sums(i) :
          \/ ReportPayment(i, amount)
          \/ \E key \in Keys : ConfirmPayment(i, amount, key)

Request(p) ==
    \/ \E i \in DOMAIN invoices :
          \/ CancelLoad(p, i)
          \/ \E amount \in Sums(i), key \in OverlappingKeys : ConfirmLoad(p, i, amount, key)
    \/ ConfirmCommit(p) \/ CancelCommit(p) \/ Fail(p)

Next ==
    \/ \E terms \in Plans, cycle \in Cycles : RequestPlan(terms, cycle)
    \/ \E terms \in Contracts, cycle \in Cycles : RequestContract(terms, cycle)
    \/ \E m \in Modules, quantity \in 1..MaxUnits : RequestAddon(m, quantity)
    \/ \E m \in Modules, units \in 0..MaxUnits \union {AsBefore} : ScheduleAddonRenewal(m, units)
    \/ \E i \in DOMAIN invoices : OnInvoice(i)
    \/ \E k \in DOMAIN reports : AcceptReport(k) \/ RejectReport(k)
    \/ \E amount \in Parts : ManualInvoice(amount)
    \/ \E p \in Procs : Request(p)
    \/ Hold \/ ReleaseHold \/ Suspend \/ ActivateOperator
    \/ SeatsGrow \/ SeatsShrink \/ StorageGrows \/ StorageShrinks \/ RecordUsage
    \/ RunJobs
    \/ AdvanceDay

Spec == Init /\ [][Next]_vars

\* Days pass, and run-scheduled-jobs runs now and then; it is only needed while a renewal that
\* was paid waits for its day.
RenewalWaits ==
    /\ Paid /\ sub.end < Horizon(desk)
    /\ \E i \in RenewalsFrom(Books, sub.end + 1) : invoices[i].status = "paid"

StartRenewal == RenewalWaits /\ sub.end < today /\ RunJobs
FairSpec == Spec /\ WF_vars(AdvanceDay) /\ WF_vars(StartRenewal)
-----------------------------------------------------------------------------
(* Properties *)

Invoice(inv) ==
    /\ inv.kind \in InvoiceKinds
    /\ {inv.start, inv.end, inv.due, inv.amount} \subseteq Nat
    /\ inv.status \in Open \union {"paid", "void"}
    /\ inv.terms = NoTerms \/ inv.terms \in Terms
    /\ inv.cycle \in Cycles /\ inv.units \in Units

\* Every variable keeps its shape.
TypeOK ==
    /\ desk \subseteq Operations /\ today \in Days
    /\ operator \in {"trial", "active", "hold", "suspended"}
    /\ Paid => sub.terms \in Terms /\ sub.cycle \in Cycles /\ {sub.start, sub.end} \subseteq Nat
    /\ \A m \in Modules : addons[m] \in Addon
    /\ \A i \in DOMAIN invoices : Invoice(invoices[i])
    /\ \A k \in DOMAIN payments : payments[k].invoice \in DOMAIN invoices
    /\ seats \in 0..MaxUsage /\ storage \in 0..MaxUsage
    /\ usage \in [Days -> 0..MaxUsage \union {NoRecord}]

PaidFor == {inv \in Range(invoices) : inv.status = "paid"}

\* "The payment exceeds the invoice's outstanding amount.": what is confirmed on an invoice is
\* never more than its amount (confirm_payment).
NeverOverpaid == \A i \in DOMAIN invoices : PaidOn(Books, i) <= invoices[i].amount

\* While a payment is confirmed, no other request changes what an invoice asks for.
AmountsStay == "overlap" \in desk => {"addon", "renewal_units"} \intersect desk = {}

\* "Full payment": what is confirmed on an invoice, by staff, from reports and by requests
\* that overlap, is never more than its amount, and all of it once the invoice is paid;
\* neither a form that is sent again nor a report counts twice.
MoneyCountsOnce ==
    /\ AmountsStay =>
          /\ NeverOverpaid
          /\ \A i \in DOMAIN invoices :
                invoices[i].status = "paid" => PaidOn(Books, i) = invoices[i].amount
    /\ \A j, k \in DOMAIN payments :
          payments[j].key = payments[k].key /\ payments[j].key # NoKey => j = k
    /\ \A r \in DOMAIN reports :
          Cardinality({k \in DOMAIN payments : payments[k].report = r})
              = IF reports[r].status = "accepted" THEN 1 ELSE 0

\* "Features activate only after full payment": an operator works on a plan whose invoice,
\* for the very period and terms, is paid, and not before that period starts.
PlanIsPaidFor ==
    Paid => /\ sub.start <= today
            /\ \E inv \in PaidFor : /\ inv.start = sub.start /\ inv.end = sub.end
                                    /\ inv.terms = sub.terms /\ inv.cycle = sub.cycle

\* The units of an add-on that is in force are the units of a paid invoice that reaches to
\* the same day, after purchases, reductions, cancellations and renewals.
AddonUnitsPaidFor ==
    \A m \in Modules :
        InForce(addons[m]) =>
            \E inv \in PaidFor : inv.units[m] = addons[m].quantity /\ inv.end = addons[m].through

\* Whatever an operator works with is on a paid invoice, its plan and every unit of an add-on;
\* requests on one invoice that overlap may cancel what the other has paid.
WhatRunsIsPaidFor == "overlap" \notin desk => PlanIsPaidFor /\ AddonUnitsPaidFor

\* The operator has changed its plan at renewals only, and never let it lapse: a plan that is
\* bought while a renewal is open, or an upgrade that is paid after its period, moves the period
\* back, and the units bought since are lost.
KeepsItsPlan ==
    /\ "overlap" \notin desk
    /\ \A inv, other \in {i \in DOMAIN invoices : /\ invoices[i].kind \in {"plan", "upgrade"}
                                                  /\ invoices[i].status = "paid"} : inv = other

\* "An unpaid renewal invoice is repriced immediately, and a change is refused once the next
\* renewal is paid or part-paid": what an untouched renewal asks for is the price of its
\* plan and of the units that are to renew by now.
RenewalFollowsAddons ==
    KeepsItsPlan =>
        \A i \in UpcomingRenewals(Books) :
            invoices[i].status \in Open /\ Untouched(Books, i) =>
                /\ invoices[i].units = RenewalUnits(Books)
                /\ invoices[i].amount =
                     RenewalAmount(invoices[i].terms, invoices[i].cycle, RenewalUnits(Books))

\* "Monthly overage invoices in arrears": no day's extra seats are charged twice, across
\* upgrades, renewals and repeated runs, for an operator that never let its plan lapse;
\* requests that overlap may cancel a plan that is paid.
ExtraSeatsBilledOnce ==
    LET bills == {i \in DOMAIN invoices : invoices[i].kind = "usage"}
        begun == {inv \in PaidFor : inv.kind = "plan"}
    IN "overlap" \notin desk /\ Cardinality(begun) <= 1 =>
           \A i, j \in bills : i # j => \/ invoices[i].end < invoices[j].start
                                        \/ invoices[j].end < invoices[i].start

\* A payment counts once and no day of an extra seat is billed twice (operator_billing:
\* confirm_payment, _bill_usage_period).
BilledOnce == TypeOK /\ MoneyCountsOnce /\ ExtraSeatsBilledOnce

\* A renewal that was paid in advance starts on its day, or when the job next runs.
PaidRenewalStarts == RenewalWaits ~> ~RenewalWaits

\* "Downgrades and cycle changes apply at renewal": a change that was accepted for the renewal
\* and still fits is what the renewal starts.
DowngradeAppliesAtRenewal ==
    [][(/\ sub.scheduled # NoChange /\ Fits(sub.scheduled.terms, TRUE)
        /\ sub'.start = sub.end + 1
        /\ \E i \in RenewalsFrom(Books, sub.end + 1) : invoices'[i].status = "paid")
           => sub'.terms = sub.scheduled.terms]_vars

=============================================================================
