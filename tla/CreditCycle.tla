---------------------------- MODULE CreditCycle ----------------------------
(***************************************************************************)
(* The credits an operator gives its companies and individuals month by    *)
(* month: app/services/credit_service.py (allocate, grants, run_cycle,     *)
(* spend and refund over several lots) and the routes of                   *)
(* app/blueprints/admin/credits_routes.py that call it.                    *)
(*                                                                         *)
(* A subject has at most one allocation, so many credits a month.  Each    *)
(* grant is a lot that expires with its month.  The daily job expires the  *)
(* lots of earlier months, rolls part of them over, starts the pending     *)
(* changes and grants the month's credits.  It and allocate are two steps  *)
(* each, what was read and the commit; the handlers whose races            *)
(* RoomBookings models (spend and refund) are one step here.               *)
(***************************************************************************)
EXTENDS Integers, SequencesExt

CONSTANTS
    Workers,        \* processes that serve requests
    Crons,          \* processes that run the daily job
    Overlapping,    \* whether handlers of two processes may overlap
    Subjects,       \* companies and individuals
    Charges,        \* room bookings that draw credits
    Amounts,        \* the credits an admin or a booking may name
    DaysInMonth,
    LastDay,        \* bound: the last day
    MaxLots,        \* bound: no admin starts a grant when there are as many lots
    Allocatable,    \* the pool less its reserve (pool_summary)
    PoolMode,       \* pool_mode
    RolloverCap     \* rollover_cap, or 0 when rollover is off

Procs == Workers \union Crons
Days  == 0..LastDay

MonthOf(day) == day \div DaysInMonth
Months == 0..(MonthOf(LastDay) + 1)

ASSUME MonthsHaveDays == DaysInMonth \in Nat \ {0} /\ LastDay \in Nat /\ MaxLots \in Nat
ASSUME CreditsAreCounted ==
    Amounts \subseteq Nat /\ Allocatable \in Nat /\ RolloverCap \in Nat
ASSUME Countable == IsFiniteSet(Subjects) /\ IsFiniteSet(Charges)
ASSUME Modes == PoolMode \in {"warn", "block"} /\ Overlapping \in BOOLEAN

VARIABLES
    today,      \* days since the first month began
    alloc,      \* credit_allocations, by subject
    lots,       \* credit_lots, in the order of their ids
    drawn,      \* credit_ledger: what a booking has drawn of each lot, refunds netted off
    task        \* what each process is doing, with its local variables

vars == <<today, alloc, lots, drawn, task>>
-----------------------------------------------------------------------------
(* Rows *)

Change   == [to: Nat, from: Months]     \* pending_monthly_credits, pending_from
NoChange == [to |-> 0, from |-> MonthOf(LastDay) + 2]

Allocation == [monthly: Nat, pending: Change \union {NoChange}]
NoAllocation == [none |-> TRUE]

Allocated == {s \in Subjects : alloc[s] # NoAllocation}

\* A lot expires where its month ends; expired sums its EXPIRE entries.
Lot == [subject: Subjects, source: {"monthly", "bonus", "rollover"}, month: Months,
        granted: Nat, remaining: Nat, expired: Nat]

NewLot(s, source, credits, month) ==
    [subject |-> s, source |-> source, month |-> month,
     granted |-> credits, remaining |-> credits, expired |-> 0]

LotIds == 1..Len(lots)

\* What booking b has drawn of lot l.
Draw(b, l) == IF l \in DOMAIN drawn[b] THEN drawn[b][l] ELSE 0

\* A mutation of MonthlyLotExists: a lot of no credits is taken for no lot.
MonthlyLotHasCredits(s, month) ==
    \E l \in LotIds : /\ lots[l].subject = s /\ lots[l].source = "monthly"
                      /\ lots[l].month = month /\ lots[l].granted > 0

\* _lot_exists for the monthly grant of a period.
MonthlyLotExists(s, month) ==
    \E l \in LotIds : /\ lots[l].subject = s /\ lots[l].source = "monthly"
                      /\ lots[l].month = month

\* The part of a month's credits that a grant in mid-month gets, rounded down.
Prorated(credits, day) == (credits * (DaysInMonth - (day % DaysInMonth))) \div DaysInMonth
-----------------------------------------------------------------------------
(* Tasks *)

Idle == [at |-> "idle"]

AllocateTask == [at: {"allocating"}, subject: Subjects, monthly: Nat, day: Days,
                 how: {"new", "restart", "change"}]
CycleTask == [at: {"cycling"}, day: Days, left: Seq(Nat),
              read: [Subjects -> Allocation \union {NoAllocation}],
              grantees: SUBSET Subjects]

Become(p, t) == task' = [task EXCEPT ![p] = t]
Done(p) == Become(p, Idle)

CanStart(p) ==
    /\ task[p] = Idle
    /\ Overlapping \/ \A q \in Procs : task[q] = Idle
-----------------------------------------------------------------------------
(* allocate *)

\* What a subject will have once its pending change has started.
PromisedTo(s) ==
    IF s \notin Allocated THEN 0
    ELSE IF alloc[s].pending = NoChange THEN alloc[s].monthly
    ELSE alloc[s].pending.to

\* committed_credits.
Committed == SumFunctionOnSet([s \in Subjects |-> PromisedTo(s)], Subjects)

\* The pool check: above what may be given away, block refuses and warn only warns.
PoolAllows(s, monthly) ==
    PoolMode = "block" => Committed - PromisedTo(s) + monthly <= Allocatable

\* A new allocation, and one of nothing whose month has no grant yet, start now; any
\* other change waits for the next month.
HowToAllocate(s) ==
    IF s \notin Allocated THEN "new"
    ELSE IF alloc[s].monthly = 0 /\ ~MonthlyLotExists(s, MonthOf(today)) THEN "restart"
    ELSE "change"

BeginAllocation(p, s, monthly) ==
    /\ Become(p, [at |-> "allocating", subject |-> s, monthly |-> monthly, day |-> today,
                  how |-> HowToAllocate(s)])
    /\ UNCHANGED <<today, alloc, lots, drawn>>

\* An admin names the monthly credits of a subject.
AllocateLoad(p, s, monthly) ==
    /\ CanStart(p)
    /\ HowToAllocate(s) = "change" \/ Len(lots) < MaxLots
    /\ PoolAllows(s, monthly)
    /\ BeginAllocation(p, s, monthly)

\* A company's first subscription suggests its allocation; when the pool refuses it the
\* company is allocated nothing for now.
AutoAllocateLoad(p, s, suggested) ==
    /\ CanStart(p) /\ Len(lots) < MaxLots
    /\ s \notin Allocated
    /\ ~PoolAllows(s, suggested) /\ PoolAllows(s, 0)
    /\ BeginAllocation(p, s, 0)

\* An allocation that starts now grants the rest of the month, as a lot of no credits if
\* that is what rounding leaves.  A second new allocation of a subject breaks the unique
\* constraint.
AllocateCommit(p) ==
    LET t == task[p]
        s == t.subject
        grant == NewLot(s, "monthly", Prorated(t.monthly, t.day), MonthOf(t.day))
        starting == [monthly |-> t.monthly, pending |-> NoChange]
    IN /\ t.at = "allocating"
       /\ \/ /\ t.how = "new" => s \notin Allocated
             /\ t.how # "change"
             /\ alloc' = [alloc EXCEPT ![s] = starting]
             /\ lots' = Append(lots, grant)
          \/ /\ t.how = "change"
             /\ alloc' = [alloc EXCEPT ![s].pending =
                            [to |-> t.monthly, from |-> MonthOf(t.day) + 1]]
             /\ UNCHANGED lots
       /\ Done(p)
       /\ UNCHANGED <<today, drawn>>

\* credits_bonus: a one-off grant for this month.
GrantBonus(p, s, credits) ==
    /\ CanStart(p) /\ Len(lots) < MaxLots
    /\ credits > 0
    /\ lots' = Append(lots, NewLot(s, "bonus", credits, MonthOf(today)))
    /\ UNCHANGED <<today, alloc, drawn, task>>
-----------------------------------------------------------------------------
(* spend and refund_booking, over several lots *)

Unexpired(lot) == lot.month >= MonthOf(today)

\* _valid_lots.
ValidLots(L, s) ==
    {l \in DOMAIN L : L[l].subject = s /\ L[l].remaining > 0 /\ Unexpired(L[l])}

Holding(L, ids) == SumFunctionOnSet([l \in ids |-> L[l].remaining], ids)

\* Bonus credits go first, then the older lot; valid lots all expire together.
DrawnBefore(L, k, l) ==
    IF (L[k].source = "bonus") # (L[l].source = "bonus")
    THEN L[k].source = "bonus" ELSE k < l

\* What spending credits takes from lot l.
Take(L, s, credits, l) ==
    LET valid  == ValidLots(L, s)
        wanted == credits - Holding(L, {k \in valid : DrawnBefore(L, k, l)})
    IN IF l \notin valid \/ wanted <= 0 THEN 0
       ELSE IF wanted < L[l].remaining THEN wanted ELSE L[l].remaining

CanSpend(L, s, credits) == credits <= Holding(L, ValidLots(L, s))

\* What a refund gives back to lot l: the booking's net draw, unless the lot has expired.
Returned(b, l) == IF Unexpired(lots[l]) THEN Draw(b, l) ELSE 0

RefundedLots(b) ==
    [l \in LotIds |-> [lots[l] EXCEPT !.remaining = @ + Returned(b, l)]]

SubjectsOf(b) == {lots[l].subject : l \in {k \in LotIds : Draw(b, k) > 0}}

\* The lots and the draws a booking leaves when it takes back what it drew and draws
\* credits anew.
Redraw(b, s, credits) ==
    LET L == RefundedLots(b)
    IN /\ CanSpend(L, s, credits)
       /\ lots' = [l \in LotIds |->
                     [L[l] EXCEPT !.remaining = @ - Take(L, s, credits, l)]]
       /\ drawn' = [drawn EXCEPT ![b] = [l \in LotIds |->
                     Draw(b, l) - Returned(b, l) + Take(L, s, credits, l)]]

\* A booking pays with credits.
Spend(p, b, s, credits) ==
    /\ CanStart(p)
    /\ credits > 0 /\ SubjectsOf(b) = {}
    /\ Redraw(b, s, credits)
    /\ UNCHANGED <<today, alloc, task>>

\* A booking is cancelled (for no credits) or moved to a time that costs so many.
RefundOrReprice(p, b, credits) ==
    /\ CanStart(p)
    /\ \E s \in SubjectsOf(b) : Redraw(b, s, credits)
    /\ UNCHANGED <<today, alloc, task>>
-----------------------------------------------------------------------------
(* run_cycle, a step of the daily job *)

\* A lot with credits left whose month is over.
Finished(lot, day) == lot.remaining > 0 /\ lot.month < MonthOf(day)

\* The pending change has come due.
Due(a, day) == a.pending.from <= MonthOf(day)

\* The row after its due change has started.
Started(a, day) ==
    IF Due(a, day) THEN [monthly |-> a.pending.to, pending |-> NoChange] ELSE a

\* The job reads the finished lots, the allocations, and who has no grant this month.
CycleLoad(p) ==
    /\ CanStart(p)
    /\ Become(p, [at |-> "cycling", day |-> today,
                  left |-> [l \in LotIds |->
                              IF Finished(lots[l], today) THEN lots[l].remaining ELSE 0],
                  read |-> alloc,
                  grantees |-> {s \in Allocated :
                                  /\ Started(alloc[s], today).monthly > 0
                                  /\ ~MonthlyLotExists(s, MonthOf(today))}])
    /\ UNCHANGED <<today, alloc, lots, drawn>>

\* Of a monthly lot the capped rest is carried into the next month, once.
Carry(lot, left) ==
    IF lot.source # "monthly" THEN 0
    ELSE IF left < RolloverCap THEN left ELSE RolloverCap

Expire(lot, left) ==
    IF left > 0 THEN [lot EXCEPT !.remaining = 0, !.expired = @ + left] ELSE lot

\* A column of an allocation is written only if the job left it with another value than
\* the one it had read.
StartedRow(stored, a, day) ==
    IF ~Due(a, day) THEN stored
    ELSE [monthly |-> IF a.pending.to = a.monthly THEN stored.monthly ELSE a.pending.to,
          pending |-> NoChange]

\* Everything is written with the values computed from what was read, in one commit.
CycleCommit(p) ==
    LET t == task[p]
        leftOf(l) == IF l \in DOMAIN t.left THEN t.left[l] ELSE 0
        carried == SetToSeq({l \in LotIds : leftOf(l) > 0 /\ Carry(lots[l], leftOf(l)) > 0})
        granted == SetToSeq(t.grantees)
    IN /\ t.at = "cycling"
       /\ lots' =
            [l \in LotIds |-> Expire(lots[l], leftOf(l))]
            \o [i \in DOMAIN carried |->
                  NewLot(lots[carried[i]].subject, "rollover",
                         Carry(lots[carried[i]], leftOf(carried[i])), MonthOf(t.day))]
            \o [i \in DOMAIN granted |->
                  NewLot(granted[i], "monthly",
                         Started(t.read[granted[i]], t.day).monthly, MonthOf(t.day))]
       /\ alloc' = [s \in Subjects |->
                      IF t.read[s] # NoAllocation THEN StartedRow(alloc[s], t.read[s], t.day)
                      ELSE alloc[s]]
       /\ Done(p)
       /\ UNCHANGED <<today, drawn>>
-----------------------------------------------------------------------------
Tick ==
    /\ today < LastDay
    /\ today' = today + 1
    /\ UNCHANGED <<alloc, lots, drawn, task>>

\* A constraint refuses the rows, or the process dies: nothing of the transaction stays.
Fail(p) ==
    /\ task[p] # Idle
    /\ Done(p)
    /\ UNCHANGED <<today, alloc, lots, drawn>>

Request(p) ==
    \/ \E s \in Subjects, c \in Amounts : AllocateLoad(p, s, c)
    \/ \E s \in Subjects, c \in Amounts : AutoAllocateLoad(p, s, c)
    \/ AllocateCommit(p)
    \/ \E s \in Subjects, c \in Amounts : GrantBonus(p, s, c)
    \/ \E b \in Charges, s \in Subjects, c \in Amounts : Spend(p, b, s, c)
    \/ \E b \in Charges, c \in Amounts : RefundOrReprice(p, b, c)

Job(p) == CycleLoad(p) \/ CycleCommit(p)

Init ==
    /\ today = 0
    /\ alloc = [s \in Subjects |-> NoAllocation]
    /\ lots = <<>>
    /\ drawn = [b \in Charges |-> <<>>]
    /\ task = [p \in Procs |-> Idle]

Next ==
    \/ Tick
    \/ \E p \in Workers : Request(p)
    \/ \E p \in Crons : Job(p)
    \/ \E p \in Procs : Fail(p)

Spec == Init /\ [][Next]_vars
-----------------------------------------------------------------------------
(* Properties *)

\* Every variable keeps its shape; in particular spending never takes more from a lot
\* than it holds (the check constraint on credit_lots.remaining).
TypeOK ==
    /\ today \in Days
    /\ alloc \in [Subjects -> Allocation \union {NoAllocation}]
    /\ lots \in Seq(Lot)
    /\ drawn \in [Charges -> Seq(Nat)]
    /\ task \in [Procs -> {Idle} \union AllocateTask \union CycleTask]

\* "Idempotent per month" (grant_monthly) and "safe to re-run" (run_cycle): a subject gets
\* one monthly grant for a month, whether a new allocation, a restarted one or the daily
\* job makes it, and however often the job runs.
OneMonthlyLot ==
    \A k, l \in LotIds :
        /\ lots[k].source = "monthly" /\ lots[l].source = "monthly"
        /\ lots[k].subject = lots[l].subject /\ lots[k].month = lots[l].month
        => k = l

\* "Every change is a ledger entry" (models/credits.py), over several lots: whatever a
\* booking drew from which lots, took back and drew anew, each lot holds its grant less
\* what its entries say.
LedgerExplainsLots ==
    \A l \in LotIds :
        lots[l].remaining =
            lots[l].granted - lots[l].expired
            - SumFunctionOnSet([b \in Charges |-> Draw(b, l)], Charges)

\* Rollover keeps "max credits carried one month" (rollover_cap): what a subject has
\* carried into a month is within the cap, and credits carried once are not carried again.
RolloverWithinCap ==
    \A s \in Subjects, m \in Months :
        LET rolled == {l \in LotIds : /\ lots[l].subject = s /\ lots[l].source = "rollover"
                                      /\ lots[l].month = m}
        IN SumFunctionOnSet([l \in rolled |-> lots[l].granted], rolled) <= RolloverCap

\* In block mode the allocations that will be in force never exceed what may be given away,
\* through any sequence of increases, decreases and months.
PoolNeverOverAllocated == PoolMode = "block" => Committed <= Allocatable

=============================================================================
