---------------------------- MODULE RoomBookings ----------------------------
(***************************************************************************)
(* Meeting-room bookings under concurrent requests: the room half of       *)
(* app/services/booking_service.py, the blocks of                          *)
(* app/blueprints/booking/routes.py, and the credits a booking draws       *)
(* (spend, refund, forfeit and expiry of app/services/credit_service.py).  *)
(*                                                                         *)
(* Requests run in separate gunicorn workers and scheduled jobs in         *)
(* separate processes, each in its own READ COMMITTED transaction.  A      *)
(* handler is one step per group of database reads, and one step for its   *)
(* last flush with the commit: until the commit the other transactions     *)
(* read the old rows, and whoever wants to write a flushed row waits for   *)
(* it.  What a handler read stays in its task until it is used, however    *)
(* stale.  An UPDATE writes only the columns the handler assigned, with    *)
(* the values it computed from what it had read.                           *)
(***************************************************************************)
EXTENDS Integers, FiniteSets, Functions

CONSTANTS
    Workers,        \* processes that serve requests
    Crons,          \* processes that run the scheduled commands
    MaxBookings,    \* room_bookings rows have the ids 1..MaxBookings
    Rooms,
    Users,
    Admins,         \* users with is_admin
    CompanyAdmins,  \* users with role COMPANY_ADMIN
    Payers,         \* companies and individuals: whose credits a booking draws
    PayerOf,        \* the company of an employee, the individual itself
    Companies,      \* the payers that are companies
    MayBook,        \* users their company's booking_mode lets book
    Cap,            \* per_employee_monthly_cap
    Granted,        \* credits of the payer's lot when it was granted
    Expiry,         \* expires_at of the payer's lot
    CreditsPerSlot, \* of each room
    PayPerUse,      \* pay_per_use_enabled of the operator
    MinAdvance,     \* BOOKING_MIN_ADVANCE_MINUTES
    CancelWindow,   \* BOOKING_CANCEL_WINDOW_MINUTES
    CheckInOpens,   \* CHECK_IN_OPENS
    NoShowWait,     \* no_show_minutes of the operator
    Horizon,        \* the last instant, in steps of 30 minutes
    MaxBlocks       \* bound: no block is started when there are as many

Bookings == 1..MaxBookings
Times    == 0..Horizon
Procs    == Workers \union Crons

ASSUME SizesAreNaturals ==
    /\ MaxBookings \in Nat /\ Horizon \in Nat /\ MaxBlocks \in Nat /\ Cap \in Nat
    /\ MinAdvance \in Nat /\ CancelWindow \in Nat
    /\ CheckInOpens \in Nat /\ NoShowWait \in Nat
ASSUME UsersHavePayers ==
    /\ PayerOf \in [Users -> Payers]
    /\ Companies \subseteq Payers
    /\ Admins \subseteq Users /\ CompanyAdmins \subseteq Users
ASSUME LotsAreCounted ==
    /\ Granted \in [Payers -> Nat] /\ Expiry \in [Payers -> Nat]
    /\ CreditsPerSlot \in [Rooms -> Nat \ {0}]
    /\ PayPerUse \in BOOLEAN

VARIABLES
    now,        \* the clock
    bookings,   \* room_bookings: the row of each id, or NoBooking
    blocks,     \* room_blocks
    remaining,  \* credit_lots.remaining of each payer's lot
    net,        \* credit_ledger: USE + REFUND amounts of each booking
    expired,    \* credit_ledger: EXPIRE amounts of each lot, as a positive sum
    forfeited,  \* credit_ledger: the bookings with a FORFEIT entry
    task        \* what each process is doing, with its local variables

vars == <<now, bookings, blocks, remaining, net, expired, forfeited, task>>
ledger == <<net, expired, forfeited>>
-----------------------------------------------------------------------------
(* Rows *)

LiveStatuses     == {"confirmed", "checked_in"}
TerminalStatuses == {"completed", "cancelled", "no_show"}

NoBooking == [status |-> "none"]

Booking == [status: LiveStatuses \union TerminalStatuses,
            room: Rooms, user: Users, from: Times, to: Times,
            used: Nat,      \* credits_used
            cash: Nat]      \* total_amount, in credits' worth of the room's rate

Stretch == [room: Rooms, from: Times, to: Times]

\* The stretches requests name: any other is refused before it is looked at.
Windows == {s \in Stretch : s.from < s.to}

Live(b) == bookings[b].status \in LiveStatuses

Overlap(x, y) == x.room = y.room /\ x.from < y.to /\ y.from < x.to

\* check_room_conflict: a live booking other than b overlaps the stretch.
Conflict(s, b) == \E c \in Bookings \ {b} : Live(c) /\ Overlap(bookings[c], s)

\* room_blocked.
Blocked(s) == \E k \in blocks : Overlap(k, s)

\* A mutation of ConstraintAllows: the migration's constraint is missing, and only the
\* conflict check under the room lock protects the room.
ConstraintMissing(b, s) == TRUE

\* The exclusion constraint ex_room_booking_no_overlap lets row b be written with
\* stretch s and a live status: the range s is well formed, and no live row's range
\* meets it (an empty range meets none).
RangesMeet(x, y) == x.from < x.to /\ y.from < y.to /\ Overlap(x, y)
ConstraintAllows(b, s) ==
    /\ s.from <= s.to
    /\ \A c \in Bookings \ {b} : Live(c) => ~RangesMeet(bookings[c], s)

\* The id the next INSERT takes.
NextId(b) == /\ bookings[b] = NoBooking
             /\ \A c \in 1..(b - 1) : bookings[c] # NoBooking
-----------------------------------------------------------------------------
(* Tasks: what the process of a request or a job keeps between its steps.  *)

Idle == [at |-> "idle"]

CreateTask == [at: {"create_locked"}, actor: Users, who: Users, waive: BOOLEAN,
               room: Rooms, from: Times, to: Times]
PricedTask == [at: {"create_priced"}, actor: Users, who: Users,
               room: Rooms, from: Times, to: Times, used: Nat, cash: Nat]
CancelTask == [at: {"cancel_loaded"}, bk: Bookings, used: Nat]
RefundTask == [at: {"cancel_refunding"}, bk: Bookings, back: Nat, left: Nat]
UpdateTask == [at: {"update_loaded", "update_locked"}, actor: Users, bk: Bookings,
               room: Rooms, from: Times, to: Times, was: Booking]
RepriceTask == [at: {"update_checked"}, actor: Users, bk: Bookings,
                room: Rooms, from: Times, to: Times, was: Booking,
                back: Nat, left: Nat]
CheckInTask == [at: {"checkin_loaded"}, bk: Bookings]
ReleaseTask == [at: {"release_loaded"},
                noShows: SUBSET Bookings, finished: SUBSET Bookings,
                charged: SUBSET Bookings]
ExpireTask == [at: {"expire_loaded"}, left: [Payers -> Nat]]
BlockTask == [at: {"block_checked"}, room: Rooms, from: Times, to: Times]

Task == {Idle} \union CreateTask \union PricedTask \union CancelTask
        \union RefundTask \union UpdateTask \union RepriceTask
        \union CheckInTask \union ReleaseTask \union ExpireTask \union BlockTask

Become(p, t) == task' = [task EXCEPT ![p] = t]
Done(p) == Become(p, Idle)

\* The stages of a handler between SELECT ... FOR UPDATE on its room and its commit.
LockedStages == {"create_locked", "create_priced", "update_locked", "update_checked"}

\* A mutation of RoomIsLocked: an edit holds no row lock of its room.
OnlyCreatesLock(r) ==
    \E p \in Procs : task[p].at \in {"create_locked", "create_priced"} /\ task[p].room = r

RoomIsLocked(r) ==
    \E p \in Procs : task[p].at \in LockedStages /\ task[p].room = r

\* A handler raises: the session rolls back, and the room lock goes with it.
Abandon(p) ==
    /\ Done(p)
    /\ UNCHANGED <<now, bookings, blocks, remaining, ledger>>
-----------------------------------------------------------------------------
(* Rules and prices *)

\* can_manage_booking, and the same test in cancel_booking and room_check_in.
MayManage(actor, b) ==
    \/ bookings[b].user = actor
    \/ actor \in Admins
    \/ /\ actor \in CompanyAdmins
       /\ PayerOf[bookings[b].user] = PayerOf[actor]

\* _validate_window and the 30-minute steps of slots_between.
WindowIsValid(from, to) == from < to /\ from >= now + MinAdvance

LotIsValid(y) == Expiry[y] > now

\* balance: what spend could draw now.
Balance(left, y) == IF LotIsValid(y) THEN left ELSE 0

Needed(s) == (s.to - s.from) * CreditsPerSlot[s.room]

\* quote_room: credits cover what they can, the rest is cash.
QuoteUsed(s, available) == IF Needed(s) <= available THEN Needed(s) ELSE available
QuoteIsAllowed(s, available) == Needed(s) <= available \/ PayPerUse
QuoteCash(s, available) == Needed(s) - QuoteUsed(s, available)

\* usage_by_employee: what a user's bookings have drawn, refunds netted off.
UsedBy(u, ledgerNet) ==
    -SumFunctionOnSet(ledgerNet,
                      {b \in Bookings : bookings[b] # NoBooking /\ bookings[b].user = u})

\* A mutation of CompanyAllows: the cap is compared with what was used before.
CompanyAllowsBeforeUse(u, credits, ledgerNet) ==
    \/ PayerOf[u] \notin Companies
    \/ u \in CompanyAdmins
    \/ u \in MayBook /\ (credits = 0 \/ UsedBy(u, ledgerNet) < Cap)

\* check_company_rules.
CompanyAllows(u, credits, ledgerNet) ==
    \/ PayerOf[u] \notin Companies
    \/ u \in CompanyAdmins
    \/ /\ u \in MayBook
       /\ credits = 0 \/ UsedBy(u, ledgerNet) + credits <= Cap
-----------------------------------------------------------------------------
(* create_room_booking *)

\* A booking request has reached the room's row lock.
CreateLock(p, actor, who, waive, s) ==
    /\ task[p] = Idle
    /\ actor \in Admins \/ (who = actor /\ ~waive)
    /\ ~RoomIsLocked(s.room)
    /\ Become(p, [at |-> "create_locked", actor |-> actor, who |-> who, waive |-> waive,
                  room |-> s.room, from |-> s.from, to |-> s.to])
    /\ UNCHANGED <<now, bookings, blocks, remaining, ledger>>

\* _prepare_room_booking finds the request acceptable and prices it.
CreatePrepare(p) ==
    LET t == task[p]
        available == Balance(remaining[PayerOf[t.who]], PayerOf[t.who])
        used == IF t.waive THEN 0 ELSE QuoteUsed(t, available)
    IN /\ t.at = "create_locked"
       /\ WindowIsValid(t.from, t.to)
       /\ ~Blocked(t)
       /\ ~Conflict(t, 0)
       /\ \/ t.waive
          \/ /\ QuoteIsAllowed(t, available)
             /\ t.actor \in Admins \/ CompanyAllows(t.who, used, net)
       /\ Become(p, [at |-> "create_priced", actor |-> t.actor, who |-> t.who,
                     room |-> t.room, from |-> t.from, to |-> t.to, used |-> used,
                     cash |-> IF t.waive THEN 0 ELSE QuoteCash(t, available)])
       /\ UNCHANGED <<now, bookings, blocks, remaining, ledger>>

\* A mutation of CanSpend: the quote is trusted, the lots are not read again.
TrustTheQuote(credits, left, y) == TRUE

\* spend locks the payer's lots and finds them still good for the credits.
CanSpend(credits, left, y) == credits = 0 \/ credits <= Balance(left, y)

\* The INSERT passes the exclusion constraint, spend succeeds, and both commit.
CreateCommit(p) ==
    LET t == task[p]
        y == PayerOf[t.who]
    IN /\ t.at = "create_priced"
       /\ \E b \in Bookings :
            /\ NextId(b)
            /\ ConstraintAllows(b, t)
            /\ CanSpend(t.used, remaining[y], y)
            /\ bookings' = [bookings EXCEPT ![b] =
                 [status |-> "confirmed", room |-> t.room, user |-> t.who,
                  from |-> t.from, to |-> t.to, used |-> t.used, cash |-> t.cash]]
            /\ net' = [net EXCEPT ![b] = -t.used]
       /\ remaining' = [remaining EXCEPT ![y] = @ - t.used]
       /\ Done(p)
       /\ UNCHANGED <<now, blocks, expired, forfeited>>
-----------------------------------------------------------------------------
(* cancel_booking *)

\* The row is read and every check passes, on that row.
CancelLoad(p, actor, b) ==
    /\ task[p] = Idle
    /\ Live(b)
    /\ MayManage(actor, b)
    /\ actor \in Admins \/ bookings[b].from - now >= CancelWindow
    /\ Become(p, [at |-> "cancel_loaded", bk |-> b, used |-> bookings[b].used])
    /\ UNCHANGED <<now, bookings, blocks, remaining, ledger>>

\* What refund_booking will give back: the net of the booking's entries, unless the
\* lot they name has expired.
RefundOf(b) ==
    IF net[b] < 0 /\ LotIsValid(PayerOf[bookings[b].user]) THEN -net[b] ELSE 0

\* A mutation of CancelRefund: the refund is left out.
CancelRefundsNothing(p) ==
    LET t == task[p]
    IN /\ t.at = "cancel_loaded"
       /\ Become(p, [at |-> "cancel_refunding", bk |-> t.bk, back |-> 0,
                     left |-> remaining[PayerOf[bookings[t.bk].user]]])
       /\ UNCHANGED <<now, bookings, blocks, remaining, ledger>>

\* refund_booking reads the ledger and the lot, and assigns lot.remaining in memory.
CancelRefund(p) ==
    LET t == task[p]
        back == IF t.used = 0 THEN 0 ELSE RefundOf(t.bk)
    IN /\ t.at = "cancel_loaded"
       /\ Become(p, [at |-> "cancel_refunding", bk |-> t.bk, back |-> back,
                     left |-> remaining[PayerOf[bookings[t.bk].user]] + back])
       /\ UNCHANGED <<now, bookings, blocks, remaining, ledger>>

\* The commit writes the status, and lot.remaining only when the refund assigned it.
CancelCommit(p) ==
    LET t == task[p]
        y == PayerOf[bookings[t.bk].user]
    IN /\ t.at = "cancel_refunding"
       /\ bookings' = [bookings EXCEPT ![t.bk].status = "cancelled"]
       /\ remaining' = [remaining EXCEPT ![y] = IF t.back > 0 THEN t.left ELSE @]
       /\ net' = [net EXCEPT ![t.bk] = @ + t.back]
       /\ Done(p)
       /\ UNCHANGED <<now, blocks, expired, forfeited>>
-----------------------------------------------------------------------------
(* update_room_booking with a new time *)

\* The row is read; status, permission and window are checked on that row.
UpdateLoad(p, actor, b, s) ==
    LET row == bookings[b]
    IN /\ task[p] = Idle
       /\ row.status = "confirmed"
       /\ MayManage(actor, b)
       /\ row.from > now
       /\ actor \in Admins \/ row.from - now >= CancelWindow
       /\ s.room = row.room /\ <<s.from, s.to>> # <<row.from, row.to>>
       /\ Become(p, [at |-> "update_loaded", actor |-> actor, bk |-> b, room |-> row.room,
                     from |-> s.from, to |-> s.to, was |-> row])
       /\ UNCHANGED <<now, bookings, blocks, remaining, ledger>>

UpdateLock(p) ==
    /\ task[p].at = "update_loaded"
    /\ ~RoomIsLocked(task[p].room)
    /\ Become(p, [task[p] EXCEPT !.at = "update_locked"])
    /\ UNCHANGED <<now, bookings, blocks, remaining, ledger>>

\* Waived or free: it stays free, whatever its new time.
IsFree(row) == row.used = 0 /\ row.cash = 0

\* The new time is acceptable; a booking that cost something has its refund read.
UpdateCheck(p) ==
    LET t == task[p]
        back == IF IsFree(t.was) THEN 0 ELSE RefundOf(t.bk)
    IN /\ t.at = "update_locked"
       /\ WindowIsValid(t.from, t.to)
       /\ ~Blocked(t)
       /\ ~Conflict(t, t.bk)
       /\ Become(p, [at |-> "update_checked", actor |-> t.actor, bk |-> t.bk,
                     room |-> t.room, from |-> t.from, to |-> t.to, was |-> t.was,
                     back |-> back,
                     left |-> remaining[PayerOf[bookings[t.bk].user]] + back])
       /\ UNCHANGED <<now, bookings, blocks, remaining, ledger>>

\* The ORM writes a column only when the handler left it with another value than the
\* one it had loaded; otherwise the column keeps what the database holds by now.
Written(was, new, stored) == IF new = was THEN stored ELSE new

\* The row an UPDATE leaves: the new time and, unless the booking is free, its price.
Rewritten(t, row, used, cash) ==
    [row EXCEPT !.from = Written(t.was.from, t.from, @),
                !.to   = Written(t.was.to, t.to, @),
                !.used = Written(t.was.used, used, @),
                !.cash = Written(t.was.cash, cash, @)]

\* _reprice_room_booking gives the old credits back and charges the new time, and the
\* row takes the new time; its status is not written.
UpdateCommit(p) ==
    LET t == task[p]
        row == bookings[t.bk]
        y == PayerOf[row.user]
        lot == IF t.back > 0 THEN t.left ELSE remaining[y]
        refunded == [net EXCEPT ![t.bk] = @ + t.back]
        available == Balance(lot, y)
        used == IF IsFree(t.was) THEN 0 ELSE QuoteUsed(t, available)
        cash == IF IsFree(t.was) THEN 0 ELSE QuoteCash(t, available)
        new == Rewritten(t, row, used, cash)
    IN /\ t.at = "update_checked"
       /\ \/ IsFree(t.was)
          \/ /\ QuoteIsAllowed(t, available)
             /\ t.actor \in Admins \/ CompanyAllows(row.user, used, refunded)
       /\ Live(t.bk) => ConstraintAllows(t.bk, new)
       /\ bookings' = [bookings EXCEPT ![t.bk] = new]
       /\ remaining' = [remaining EXCEPT ![y] = lot - used]
       /\ net' = [refunded EXCEPT ![t.bk] = @ - used]
       /\ Done(p)
       /\ UNCHANGED <<now, blocks, expired, forfeited>>
-----------------------------------------------------------------------------
(* check_in *)

CheckInLoad(p, actor, b) ==
    /\ task[p] = Idle
    /\ bookings[b].status = "confirmed"
    /\ MayManage(actor, b)
    /\ now >= bookings[b].from - CheckInOpens
    /\ now < bookings[b].to
    /\ Become(p, [at |-> "checkin_loaded", bk |-> b])
    /\ UNCHANGED <<now, bookings, blocks, remaining, ledger>>

\* The commit writes the status of a row that another transaction may have changed; the
\* exclusion constraint refuses it when the room is taken meanwhile.
CheckInCommit(p) ==
    LET b == task[p].bk
    IN /\ task[p].at = "checkin_loaded"
       /\ ConstraintAllows(b, bookings[b])
       /\ bookings' = [bookings EXCEPT ![b].status = "checked_in"]
       /\ Done(p)
       /\ UNCHANGED <<now, blocks, remaining, ledger>>
-----------------------------------------------------------------------------
(* release_no_shows, the scheduled job.  It goes over the operators that are ACTIVE or TRIAL, and *)
(* this operator is one.                                                                          *)

\* A mutation of NoShowDue: a run of the job sees the meetings whose wait ends that very
\* instant, and never those an earlier run missed.
NoShowDueExactly(b) == bookings[b].status = "confirmed" /\ bookings[b].from = now - NoShowWait

NoShowDue(b)   == bookings[b].status = "confirmed" /\ bookings[b].from <= now - NoShowWait
FinishedDue(b) == bookings[b].status = "checked_in" /\ bookings[b].to <= now

ReleaseLoad(p) ==
    /\ task[p] = Idle
    /\ \E b \in Bookings : NoShowDue(b) \/ FinishedDue(b)
    /\ Become(p, [at |-> "release_loaded",
                  noShows |-> {b \in Bookings : NoShowDue(b)},
                  finished |-> {b \in Bookings : FinishedDue(b)},
                  charged |-> {b \in Bookings : NoShowDue(b) /\ bookings[b].used > 0}])
    /\ UNCHANGED <<now, bookings, blocks, remaining, ledger>>

\* Every loaded row gets its status; a no-show that used credits gets a FORFEIT entry.
ReleaseCommit(p) ==
    LET t == task[p]
    IN /\ t.at = "release_loaded"
       /\ bookings' = [b \in Bookings |->
            IF b \in t.noShows THEN [bookings[b] EXCEPT !.status = "no_show"]
            ELSE IF b \in t.finished THEN [bookings[b] EXCEPT !.status = "completed"]
            ELSE bookings[b]]
       /\ forfeited' = forfeited \union t.charged
       /\ Done(p)
       /\ UNCHANGED <<now, blocks, remaining, net, expired>>
-----------------------------------------------------------------------------
(* expire_lots, a step of the scheduled credit cycle, which goes over the same operators *)

Expirable(y) == remaining[y] > 0 /\ Expiry[y] <= now

ExpireLoad(p) ==
    /\ task[p] = Idle
    /\ \E y \in Payers : Expirable(y)
    /\ Become(p, [at |-> "expire_loaded",
                  left |-> [y \in Payers |-> IF Expirable(y) THEN remaining[y] ELSE 0]])
    /\ UNCHANGED <<now, bookings, blocks, remaining, ledger>>

ExpireCommit(p) ==
    LET t == task[p]
    IN /\ t.at = "expire_loaded"
       /\ remaining' = [y \in Payers |-> IF t.left[y] > 0 THEN 0 ELSE remaining[y]]
       /\ expired' = [y \in Payers |-> expired[y] + t.left[y]]
       /\ Done(p)
       /\ UNCHANGED <<now, bookings, blocks, net, forfeited>>
-----------------------------------------------------------------------------
(* calendar_block and calendar_block_delete *)

\* Only an admin may block a room.  The clash check comes before the room lock.
BlockCheck(p, s) ==
    /\ task[p] = Idle
    /\ Admins # {}
    /\ Cardinality(blocks) < MaxBlocks
    /\ s.from < s.to
    /\ ~Conflict(s, 0)
    /\ Become(p, [at |-> "block_checked", room |-> s.room, from |-> s.from, to |-> s.to])
    /\ UNCHANGED <<now, bookings, blocks, remaining, ledger>>

\* The lock is taken, and the block inserted and committed, with no second check.
BlockCommit(p) ==
    LET t == task[p]
    IN /\ t.at = "block_checked"
       /\ ~RoomIsLocked(t.room)
       /\ blocks' = blocks \union {[room |-> t.room, from |-> t.from, to |-> t.to]}
       /\ Done(p)
       /\ UNCHANGED <<now, bookings, remaining, ledger>>

BlockDelete(p, k) ==
    /\ task[p] = Idle
    /\ blocks' = blocks \ {k}
    /\ UNCHANGED <<now, bookings, remaining, ledger, task>>
-----------------------------------------------------------------------------
Tick ==
    /\ now < Horizon
    /\ now' = now + 1
    /\ UNCHANGED <<bookings, blocks, remaining, ledger, task>>

\* A check fails, the constraint or the credits refuse, or the process dies: nothing
\* of the transaction stays.
Fail(p) == task[p] # Idle /\ Abandon(p)

Request(p) ==
    \/ \E actor, who \in Users, waive \in BOOLEAN, s \in Windows :
          CreateLock(p, actor, who, waive, s)
    \/ CreatePrepare(p)
    \/ CreateCommit(p)
    \/ \E actor \in Users, b \in Bookings : CancelLoad(p, actor, b)
    \/ CancelRefund(p)
    \/ CancelCommit(p)
    \/ \E actor \in Users, b \in Bookings, s \in Windows :
          UpdateLoad(p, actor, b, s)
    \/ UpdateLock(p)
    \/ UpdateCheck(p)
    \/ UpdateCommit(p)
    \/ \E actor \in Users, b \in Bookings : CheckInLoad(p, actor, b)
    \/ CheckInCommit(p)
    \/ \E s \in Windows : BlockCheck(p, s)
    \/ BlockCommit(p)
    \/ \E k \in blocks : BlockDelete(p, k)

Job(p) == ReleaseLoad(p) \/ ReleaseCommit(p) \/ ExpireLoad(p) \/ ExpireCommit(p)

Init ==
    /\ now = 0
    /\ bookings = [b \in Bookings |-> NoBooking]
    /\ blocks = {}
    /\ remaining = Granted
    /\ net = [b \in Bookings |-> 0]
    /\ expired = [y \in Payers |-> 0]
    /\ forfeited = {}
    /\ task = [p \in Procs |-> Idle]

Next ==
    \/ Tick
    \/ \E p \in Workers : Request(p)
    \/ \E p \in Crons : Job(p)
    \/ \E p \in Procs : Fail(p)

Spec == Init /\ [][Next]_vars

\* Time passes.  Cron starts the release job again and again, and not every run of it is
\* killed half way; nothing is assumed of the requests.
FairSpec ==
    /\ Spec
    /\ WF_vars(Tick)
    /\ \A p \in Crons : /\ SF_vars(ReleaseLoad(p)) /\ SF_vars(ReleaseCommit(p))
                         /\ WF_vars(ExpireCommit(p))

\* The behaviours in which no two processes ever overlap.
OneAtATime == \A p, q \in Procs : p = q \/ task[p] = Idle \/ task[q] = Idle
SerialSpec == Init /\ [][Next /\ OneAtATime']_vars
-----------------------------------------------------------------------------
(* Properties of every interleaving *)

\* Every variable keeps its shape: in particular a lot never goes below zero and a
\* credit is never charged that quote_room did not see.
TypeOK ==
    /\ now \in Times
    /\ bookings \in [Bookings -> Booking \union {NoBooking}]
    /\ blocks \subseteq Stretch
    /\ remaining \in [Payers -> Nat]
    /\ net \in [Bookings -> Int]
    /\ expired \in [Payers -> Nat]
    /\ forfeited \subseteq Bookings
    /\ task \in [Procs -> Task]

\* "A room can never be double booked, even by two people booking at the same instant"
\* (the migration of room_bookings): the live rows are the claims of a calendar in which
\* no two overlap, whatever requests and jobs interleave, a check-in of a row another
\* request has just cancelled and one that re-times a row twice included.
Held == {[who |-> b, room |-> bookings[b].room, from |-> bookings[b].from, to |-> bookings[b].to] :
            b \in {c \in Bookings : Live(c) /\ bookings[c].from < bookings[c].to}}

Calendar == INSTANCE RoomCalendar WITH Occupants <- Bookings, held <- Held

RoomsNeverDoubleBooked == Calendar!Spec

\* Between its conflict check and its commit a handler owns the room: no confirmed
\* booking appears in, or moves into, the stretch it was promised ("bookings of one room
\* queue up on its row lock").
PromisedStretchKept ==
    \A p \in Procs : \A b \in Bookings :
        /\ bookings[b].status = "confirmed"
        /\ \/ task[p].at = "create_priced"
           \/ task[p].at = "update_checked" /\ task[p].bk # b
        => ~Overlap(bookings[b], task[p])

\* Every meeting is closed in the end: nobody can leave a room occupied for good, not by
\* failing to show up nor by a check-in that lands after the release.
EveryMeetingCloses == \A b \in Bookings : Live(b) ~> ~Live(b)
-----------------------------------------------------------------------------
(* Properties of the ledger and the rules.  They hold when requests do not overlap
   (SerialSpec): an overlapping refund or expiry writes an old balance back, for one. *)

Spent(y) == SumFunctionOnSet(net,
              {b \in Bookings : bookings[b] # NoBooking /\ PayerOf[bookings[b].user] = y})

\* "Every change is a ledger entry" (models/credits.py): what a lot holds is what it was
\* granted, plus the sum of its entries.
LedgerExplainsBalance ==
    \A y \in Payers : remaining[y] = Granted[y] + Spent(y) - expired[y]

\* "A no-show keeps its credits spent" (forfeit_booking): a booking whose history says
\* its credits were forfeited has not been given them back.
NoShowKeepsCreditsSpent ==
    \A b \in forfeited : net[b] < 0

\* A cancelled booking holds no credits of a lot that has not expired: refund_booking
\* gives "a cancelled booking's credits back to the lots they came from (if still valid)".
CancelledIsRefunded ==
    \A b \in Bookings :
        bookings[b].status = "cancelled" =>
            net[b] = 0 \/ ~LotIsValid(PayerOf[bookings[b].user])

\* What a live booking says it costs is what its time costs, and what the ledger took
\* from its payer: re-timing never leaves a price of an older time behind.
PriceMatchesTime ==
    \A b \in Bookings :
        LET row == bookings[b]
        IN Live(b) =>
            /\ row.from < row.to
            /\ IsFree(row) \/ row.used + row.cash = Needed(row)
            /\ net[b] = -row.used \/ ~LotIsValid(PayerOf[row.user])

\* The credits follow the meeting to its end, through every sequence of moves, a late or an
\* early cancellation, a check-in or none: they are those of its time while it stands, gone
\* if nobody came, and back with their owner if it was cancelled.
CreditsFollowTheMeeting == PriceMatchesTime /\ NoShowKeepsCreditsSpent /\ CancelledIsRefunded

\* Credits are accounted for (credit_service: spend, refund_booking, forfeit_booking, expire_lots):
\* every balance is what its ledger adds up to, and what a booking cost is kept, returned or lost
\* as its end has it.
CreditsAccounted == LedgerExplainsBalance /\ CreditsFollowTheMeeting

BookedFor(t) == IF t.at = "create_priced" THEN t.who ELSE bookings[t.bk].user

\* The company's cap: a booking or a move made by someone other than an operator admin
\* never takes an employee over per_employee_monthly_cap (check_company_rules).
StaysUnderCap ==
    \A p \in Procs, u \in Users :
        /\ task[p].at \in {"create_priced", "update_checked"}
        /\ task[p].actor \notin Admins
        /\ task'[p] = Idle /\ bookings' # bookings
        /\ u = BookedFor(task[p])
        /\ PayerOf[u] \in Companies /\ u \notin CompanyAdmins
        => UsedBy(u, net)' <= Cap \/ UsedBy(u, net)' <= UsedBy(u, net)

CapRespected == [][StaysUnderCap]_vars

=============================================================================
