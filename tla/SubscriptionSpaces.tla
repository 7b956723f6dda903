-------------------------- MODULE SubscriptionSpaces --------------------------
(***************************************************************************)
(* The spaces and the people of subscriptions: which offices and desks a   *)
(* customer holds, who is named to a place in them, and the extra people   *)
(* that the invoices of a month count (services/subscription_spaces.py,    *)
(* the subscription routes of blueprints/admin, the seats of               *)
(* blueprints/company/routes.py and _generate of billing_service.py).      *)
(*                                                                         *)
(* Requests run one after another.  Only the invoices of the current month *)
(* are kept, with what later requests look at: the days they are for and   *)
(* how many people they count.  Their voids, and the notice before a       *)
(* subscription ends, are those of AgreementBilling.                       *)
(***************************************************************************)
EXTENDS Integers, SequencesExt

CONSTANTS
    Companies,
    EmployeesOf,    \* the people a company may name to a place
    Individuals,    \* members on their own
    Seats,          \* offices and desks,
    FirstSeats,     \*   those that exist at the start
    Plans,          \* pricing_plans: the seats they sell, the people one seats, the extra people
    Cases,          \* which operations are used together, on which plans, within which bounds
    MaxSubs,        \* bounds: subscriptions ever made,
    MaxQuantity,    \*   spaces one has,
    MaxExtra        \*   and extra people on it, and billed by themselves in a month

Holders == Companies \union Individuals
Nobody == "nobody"
Employees == UNION {EmployeesOf[c] : c \in Companies}

PlanTerms == [seats: SUBSET Seats, people: Nat \ {0}, extras: BOOLEAN, most: Nat, priced: BOOLEAN]

Operations == {"extra", "bill", "request", "give", "name"}

ASSUME Uses == Cases \subseteq [desk: SUBSET Operations, plans: SUBSET Plans, subs: 1..MaxSubs,
                               quantity: 1..MaxQuantity, extra: 0..MaxExtra]
ASSUME HoldersDiffer == Companies \intersect Individuals = {}
ASSUME SeatsExist == FirstSeats \subseteq Seats /\ IsFiniteSet(Seats)
ASSUME TermsOfPlans == Plans \subseteq PlanTerms
ASSUME Limits == {MaxSubs, MaxQuantity, MaxExtra} \subseteq Nat \ {0}

VARIABLES
    case,       \* which of the cases this is
    firstDay,   \* whether today is the first of the month
    built,      \* seats
    subs,       \* subscriptions; history: the `spaces' that were attached to one
    places,     \* seat_allocations that are active, in the order of their ids
    requests,   \* subscription_change_requests that wait for review
    bills,      \* the invoices a subscription has for this month
    agreed      \* history: the extra people this month is to be billed for, and what changed in it

vars == <<case, firstDay, built, subs, places, requests, bills, agreed>>

Ids == 1..MaxSubs
NoSub == 0
Absent == [status |-> "none"]
Exists(s) == subs[s].status # "none"
Active(s) == subs[s].status = "active"

Place(seat, holder, s, user) == [seat |-> seat, holder |-> holder, sub |-> s, user |-> user]
Rows(s) == {k \in DOMAIN places : places[k].sub = s}
Unnamed(p) == p.user = Nobody

\* What is left of the places when those with the indices `K' are, in their order.
Kept(K) ==
    LET before(k) == Cardinality({j \in K : j < k})
    IN [i \in 1..Cardinality(K) |-> places[CHOOSE k \in K : before(k) = i - 1]]

Taken(seat) == \E k \in DOMAIN places : places[k].seat = seat

\* A mutation of Free: what is held without a subscription does not count.
FreeOfSubs(plan) ==
    {seat \in plan.seats \intersect built :
        \A k \in DOMAIN places : places[k].seat = seat => places[k].sub = NoSub}

\* _free_query and free_seats
Free(plan) == {seat \in plan.seats \intersect built : ~Taken(seat)}

\* `planned': the month's regular invoice is among them, with `counted' extra people.
\* `onFirst', `whole': one is for days from the first, or from the first to the last.
\* `added': the extra people of the invoices for the rest of the month.
\* `ran' is history: whether the monthly run went over it.
NoBills == [planned |-> FALSE, onFirst |-> FALSE, whole |-> FALSE, counted |-> 0, added |-> 0,
            ran |-> FALSE]
AsAgreed(n) == [people |-> n, mixed |-> FALSE, reduced |-> FALSE]

\* extra_people_for, for the month that runs: a deferred count is for the next one.
BilledNow(s) == IF subs[s].deferred THEN subs[s].before ELSE subs[s].extra

Capacity(c) ==
    LET of(s) == subs[s].quantity * subs[s].people + subs[s].extra
    IN MapThenSumSet(of, {s \in Ids : Active(s) /\ subs[s].holder = c})

\* Where nothing is billed, it is one later day throughout.
DaysMatter == IF "bill" \in case.desk THEN BOOLEAN ELSE {FALSE}

Init ==
    /\ case \in Cases
    /\ firstDay \in DaysMatter
    /\ built = FirstSeats
    /\ subs = [s \in Ids |-> Absent]
    /\ places = <<>>
    /\ requests = {}
    /\ bills = [s \in Ids |-> NoBills]
    /\ agreed = [s \in Ids |-> AsAgreed(0)]
-----------------------------------------------------------------------------
(* A new subscription *)

ExtrasAllowed(plan, n) ==
    n > 0 => plan.extras /\ (plan.most > 0 => n <= plan.most)

\* The places spaces have, `n' in each: a member on his own holds one himself.
SpacePlaces(seats, holder, s, n) ==
    LET rows == IF holder \in Individuals THEN 1 ELSE n
        user == IF holder \in Individuals THEN holder ELSE Nobody
    IN [k \in 1..(Len(seats) * rows) |-> Place(seats[((k - 1) \div rows) + 1], holder, s, user)]

\* attach_spaces: the extra people sit in the first space.
Attached(seats, holder, s, people, extra) ==
    SpacePlaces(seats, holder, s, people)
    \o IF seats # <<>> /\ extra > 0 /\ holder \in Companies
       THEN SpacePlaces(<<seats[1]>>, holder, s, extra) ELSE <<>>

NewSub(s, holder, plan, quantity, people, extra, priced, spaces, bill) ==
    /\ s <= case.subs /\ ~Exists(s) /\ \A r \in Ids : r < s => Exists(r)
    /\ subs' = [subs EXCEPT ![s] =
            [status |-> "active", holder |-> holder, plan |-> plan, quantity |-> quantity,
             people |-> people, extra |-> extra, before |-> 0, deferred |-> FALSE, priced |-> priced,
             spaces |-> spaces]]
    /\ bills' = [bills EXCEPT ![s] = bill]
    /\ agreed' = [agreed EXCEPT ![s] = AsAgreed(extra)]

\* A deposit's invoice is for the day the subscription starts.
DepositBill(startsOnFirst, deposit) == [NoBills EXCEPT !.onFirst = startsOnFirst /\ deposit]

Offered(plan, chosen) == chosen \subseteq Free(plan)

\* _read_spaces and _subscribe: `new' is the space made for it, if any.
Subscribe(s, holder, plan) ==
    \E quantity \in 1..case.quantity, extra \in 0..case.extra, startsOnFirst, deposit \in DaysMatter,
       chosen \in SUBSET built, new \in SUBSET (Seats \ built) :
        /\ plan \in case.plans /\ ExtrasAllowed(plan, extra)
        /\ Offered(plan, chosen) /\ Cardinality(new) <= 1 /\ new \subseteq plan.seats
        /\ Cardinality(chosen) + Cardinality(new) <= quantity
        /\ \E order \in SetToSeqs(chosen), last \in SetToSeqs(new) :
            places' = places \o Attached(order \o last, holder, s, plan.people, extra)
        /\ NewSub(s, holder, plan, quantity, plan.people, extra, plan.priced,
                  Cardinality(chosen \union new), DepositBill(startsOnFirst, deposit))
        /\ built' = built \union new
        /\ UNCHANGED <<case, firstDay, requests>>

Without(s) == Kept(DOMAIN places \ Rows(s))

\* Cancelled by the operator, or its notice ran out: its places are released.
EndSub(s) ==
    /\ \/ Exists(s) /\ subs' = [subs EXCEPT ![s].status = "cancelled"]
       \/ Active(s) /\ subs' = [subs EXCEPT ![s].status = "expired"]
    /\ places' = Without(s)
    /\ UNCHANGED <<case, firstDay, built, requests, bills, agreed>>
-----------------------------------------------------------------------------
(* Extra people on a running subscription *)

\* A mutation of Replaced: it remembers the count that is replaced, not the one billed now.
ReplacedUnbilled(s, count, thisMonth) ==
    [subs[s] EXCEPT !.before = subs[s].extra, !.extra = count, !.deferred = ~thisMonth]

Replaced(s, count, thisMonth) ==
    [subs[s] EXCEPT !.before = BilledNow(s), !.extra = count, !.deferred = ~thisMonth]

UnnamedRows(s) == {k \in Rows(s) : Unnamed(places[k])}

\* The first `n' places of `s' that nobody is named to are deleted.
Vacated(s, n) ==
    Kept({k \in DOMAIN places :
            k \in UnnamedRows(s) => Cardinality({j \in UnnamedRows(s) : j < k}) >= n})

\* change_extra_people.  On the first, an increase goes on the month's invoice unless there
\* is one already; later, one for the rest of the month is raised for it.
ChangeExtraPeople(s) ==
    \E count \in 0..case.extra, prorate \in DaysMatter :
        LET old == subs[s].extra
            rise == count > old
            billedNow == rise /\ prorate /\ subs[s].priced
            thisMonth == billedNow /\ firstDay /\ ~bills[s].onFirst
            held == Rows(s)
        IN  /\ "extra" \in case.desk /\ Active(s) /\ count # old
            /\ ExtrasAllowed(subs[s].plan, count)
            /\ ~rise /\ held # {} => Cardinality(UnnamedRows(s)) >= old - count
            /\ subs' = [subs EXCEPT ![s] = Replaced(s, count, thisMonth)]
            /\ bills' = IF billedNow /\ ~thisMonth
                        THEN [bills EXCEPT ![s] = [bills[s] EXCEPT !.onFirst = @ \/ firstDay,
                                                                   !.whole = @ \/ firstDay,
                                                                   !.added = @ + (count - old)]]
                        ELSE bills
            /\ bills'[s].added <= case.extra
            /\ places' = IF held = {} \/ subs[s].holder \in Individuals THEN places
                         ELSE IF rise
                         THEN places \o SpacePlaces(<<places[Min(held)].seat>>, subs[s].holder, s, count - old)
                         ELSE Vacated(s, old - count)
            /\ agreed' = [agreed EXCEPT ![s] =
                            [people |-> IF thisMonth THEN count ELSE @.people,
                             mixed |-> @.mixed \/ (thisMonth /\ subs[s].deferred),
                             reduced |-> @.reduced \/ ~rise]]
            /\ UNCHANGED <<case, firstDay, built, requests>>
-----------------------------------------------------------------------------
(* Requests of a company for another plan or quantity *)

RequestChange(c) ==
    "request" \in case.desk /\ \E plan \in case.plans, quantity \in 1..case.quantity :
        LET active == {s \in Ids : Active(s) /\ subs[s].holder = c}
        IN \E s \in (IF active = {} THEN {NoSub} ELSE active) :
            /\ \A r \in requests : r.company # c
            /\ requests' = requests \union {[company |-> c, sub |-> s, plan |-> plan, quantity |-> quantity]}
            /\ UNCHANGED <<case, firstDay, built, subs, places, bills, agreed>>

\* The subscription asked about is running again, whatever became of it; a new one has no
\* spaces, one person a unit and no price for more.
Approve(r) ==
    /\ IF r.sub # NoSub
       THEN /\ subs' = [subs EXCEPT ![r.sub] = [@ EXCEPT !.plan = r.plan, !.quantity = r.quantity,
                                                         !.status = "active"]]
            /\ UNCHANGED <<bills, agreed>>
       ELSE \E s \in Ids, deposit \in DaysMatter :
                NewSub(s, r.company, r.plan, r.quantity, 1, 0, FALSE, 0, DepositBill(firstDay, deposit))
    /\ requests' = requests \ {r}
    /\ UNCHANGED <<case, firstDay, built, places>>

Deny(r) ==
    /\ requests' = requests \ {r}
    /\ UNCHANGED <<case, firstDay, built, subs, places, bills, agreed>>
-----------------------------------------------------------------------------
(* Places *)

\* The operator gives a space away without a subscription, and takes it back.
Allocate(seat, holder) ==
    /\ "give" \in case.desk /\ seat \in built /\ ~Taken(seat)
    /\ places' = places \o SpacePlaces(<<seat>>, holder, NoSub, 1)
    /\ UNCHANGED <<case, firstDay, built, subs, requests, bills, agreed>>

\* allocation_end: its page offers places without a subscription, and it ends any.
EndAllocation(k) ==
    /\ places' = Kept(DOMAIN places \ {k})
    /\ UNCHANGED <<case, firstDay, built, subs, requests, bills, agreed>>

Named(c) == {k \in DOMAIN places : places[k].holder = c /\ ~Unnamed(places[k])}

\* allocation_assign
Assign(k, e) ==
    LET c == places[k].holder
    IN  /\ "name" \in case.desk /\ c \in Companies /\ e \in EmployeesOf[c] /\ Unnamed(places[k])
        /\ Cardinality(Named(c)) < Capacity(c)
        /\ places' = [places EXCEPT ![k].user = e]
        /\ UNCHANGED <<case, firstDay, built, subs, requests, bills, agreed>>

\* employee_new and employee_edit: the place that was theirs, if any, is swapped for another
\* one or none; how many are named is not counted here.
EditPlace(c, e) ==
    LET theirs == {k \in DOMAIN places : places[k].user = e}
        free == {k \in DOMAIN places : places[k].holder = c /\ Unnamed(places[k])}
    IN "name" \in case.desk /\ \E from, to \in SUBSET DOMAIN places :
            /\ from \subseteq theirs /\ Cardinality(from) = (IF theirs = {} THEN 0 ELSE 1)
            /\ to \subseteq free /\ Cardinality(to) <= 1
            /\ places' = [k \in DOMAIN places |->
                            IF k \in to THEN [places[k] EXCEPT !.user = e]
                            ELSE IF k \in from THEN [places[k] EXCEPT !.user = Nobody]
                            ELSE places[k]]
            /\ UNCHANGED <<case, firstDay, built, subs, requests, bills, agreed>>

\* allocation_release
Release(k) ==
    /\ places[k].holder \in Companies
    /\ places' = [places EXCEPT ![k].user = Nobody]
    /\ UNCHANGED <<case, firstDay, built, subs, requests, bills, agreed>>

\* employee_deactivate
ReleaseAll(e) ==
    /\ places' = [k \in DOMAIN places |->
                    IF places[k].user = e THEN [places[k] EXCEPT !.user = Nobody] ELSE places[k]]
    /\ UNCHANGED <<case, firstDay, built, subs, requests, bills, agreed>>
-----------------------------------------------------------------------------
(* The month *)

RegularBill(s) ==
    [bills[s] EXCEPT !.planned = TRUE, !.onFirst = TRUE, !.whole = TRUE,
                     !.counted = IF subs[s].priced THEN BilledNow(s) ELSE 0]

\* run_monthly_billing and _generate: not where an invoice for the month's days exists.
MonthlyBilling ==
    /\ "bill" \in case.desk
    /\ bills' = [s \in Ids |->
                    IF Active(s)
                    THEN [(IF bills[s].whole THEN bills[s] ELSE RegularBill(s)) EXCEPT !.ran = TRUE]
                    ELSE bills[s]]
    /\ UNCHANGED <<case, firstDay, built, subs, places, requests, agreed>>

\* The days go by; in a new month the counts that were left for it hold.
NextDay ==
    /\ "bill" \in case.desk
    /\ firstDay' = ~firstDay
    /\ IF firstDay THEN UNCHANGED <<subs, bills, agreed>>
       ELSE /\ subs' = [s \in Ids |-> IF Exists(s) THEN [subs[s] EXCEPT !.deferred = FALSE] ELSE Absent]
            /\ bills' = [s \in Ids |-> NoBills]
            /\ agreed' = [s \in Ids |-> AsAgreed(IF Exists(s) THEN subs[s].extra ELSE 0)]
    /\ UNCHANGED <<case, built, places, requests>>
-----------------------------------------------------------------------------
Next ==
    \/ \E s \in Ids : \/ \E holder \in Holders, plan \in Plans : Subscribe(s, holder, plan)
                      \/ EndSub(s)
                      \/ ChangeExtraPeople(s)
    \/ \E c \in Companies : RequestChange(c)
    \/ \E r \in requests : Approve(r) \/ Deny(r)
    \/ \E seat \in Seats, holder \in Holders : Allocate(seat, holder)
    \/ \E k \in DOMAIN places : \/ EndAllocation(k)
                                \/ Release(k)
                                \/ \E e \in Employees : Assign(k, e)
    \/ \E c \in Companies : \E e \in EmployeesOf[c] : EditPlace(c, e)
    \/ \E e \in Employees : ReleaseAll(e)
    \/ MonthlyBilling
    \/ NextDay

Spec == Init /\ [][Next]_vars
-----------------------------------------------------------------------------
Subscription == [status: {"active", "cancelled", "expired"}, holder: Holders, plan: Plans,
                 quantity: 1..MaxQuantity, people: Nat \ {0}, extra: 0..MaxExtra,
                 before: 0..MaxExtra, deferred: BOOLEAN, priced: BOOLEAN, spaces: 0..MaxQuantity]

TypeOK ==
    /\ case \in Cases
    /\ firstDay \in BOOLEAN /\ built \subseteq Seats
    /\ subs \in [Ids -> Subscription \union {Absent}]
    /\ places \in Seq([seat: built, holder: Holders, sub: Ids \union {NoSub},
                       user: Employees \union Individuals \union {Nobody}])
    /\ requests \subseteq [company: Companies, sub: Ids \union {NoSub}, plan: Plans,
                           quantity: 1..MaxQuantity]
    /\ bills \in [Ids -> [planned: BOOLEAN, onFirst: BOOLEAN, whole: BOOLEAN,
                          counted: 0..MaxExtra, added: 0..MaxExtra, ran: BOOLEAN]]
    /\ agreed \in [Ids -> [people: 0..MaxExtra, mixed: BOOLEAN, reduced: BOOLEAN]]

\* A desk or an office is held by one customer at a time, under one agreement, through all
\* that gives spaces away, takes them back, or gives an ended agreement a second life.
SpaceHeldOnce ==
    \A j, k \in DOMAIN places :
        places[j].seat = places[k].seat =>
            places[j].holder = places[k].holder /\ places[j].sub = places[k].sub

\* The month's regular invoice counts the extra people that were agreed when the month
\* began, and those put on it since: neither a reduction made this month nor an increase
\* billed from the next one, or by itself, changes it.  Not claimed when an increase is
\* put on it after a change for the next month: it then takes that change in.
RegularBillsPeople ==
    [][\A s \in Ids :
        ~bills[s].planned /\ bills'[s].planned /\ subs[s].priced /\ ~agreed[s].mixed =>
            bills'[s].counted = agreed[s].people]_vars

\* The invoices of a month never count more extra people than there are, however many
\* increases are billed at once or for the next month.  Not claimed when the people were
\* reduced in the month: they are billed for the rest of it, and so is who comes instead.
NobodyBilledTwice ==
    \A s \in Ids :
        Exists(s) /\ ~agreed[s].reduced => bills[s].counted + bills[s].added <= subs[s].extra

\* What the monthly run promises: it leaves no running subscription without an invoice
\* for the plan, for the month that runs.
MonthIsBilled ==
    \A s \in Ids : bills[s].ran => bills[s].planned
=============================================================================
