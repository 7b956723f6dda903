---------------------------- MODULE Marketplace ----------------------------
(***************************************************************************)
(* Bookings of one room by outsiders: app/services/marketplace.py, as the  *)
(* customers' and the operator's routes and the release job call it, next  *)
(* to the members' bookings of the same room.                              *)
(*                                                                         *)
(* A request becomes, at once or by the operator's approval, a hold that   *)
(* waits for payment or a confirmed booking; from then on a block in the   *)
(* room's calendar keeps its slot.  A handler is two steps: the load of    *)
(* the booking with the checks made on it, and the last flush with the     *)
(* commit.  What takes a slot is checked in that second step, which stands *)
(* for the stretch from the room's row lock to the commit: whoever else    *)
(* adds to the calendar waits for the same lock.  Ledger sums are read in  *)
(* the second step too, after the flush has locked the booking's row.      *)
(***************************************************************************)
EXTENDS Integers, FiniteSets, Functions

CONSTANTS
    Procs,          \* processes that serve requests
    Crons,          \* processes that run the release job
    Bookings,       \* idempotency keys, one marketplace_bookings row each
    Meetings,       \* room_bookings of members
    Offered,        \* stretches within the listing's windows: <<from, to>>
    Horizon,        \* bound: the last instant
    Approvals,      \* approval modes the listing may have: "instant", "request"
    IdRequired,     \* the bookings for which it asks for a photo ID
    Switches,       \* statuses other than "unlisted" the listing is put in
    DayCap,         \* daily_cap_hours_pct of the open hours, in instants
    MinLead,        \* min_lead_hours
    RequestWindow,  \* REQUEST_WINDOW
    InstantHold,    \* INSTANT_HOLD
    PayWindow,      \* APPROVED_PAY_WINDOW
    FreeBefore,     \* free_hours of the cancellation preset
    LateRefund,     \* late_refund_pct
    VenueRefunds,   \* refunds an operator may give at the door, in percent
    Commission,     \* commission_pct of the subtotal
    MaxOpenHolds,   \* MAX_OPEN_HOLDS; all bookings are one customer's
    Contended       \* bound: the bookings of a behaviour whose handlers overlap

Times   == 0..Horizon
Ends    == UNION {{s[1], s[2]} : s \in Offered}
Workers == Procs \union Crons

\* expires_at IS NULL, or an instant the model does not reach.
Never == Horizon + RequestWindow + InstantHold + PayWindow + 1
Dues  == 0..Never

ASSUME WindowsAreNaturals ==
    /\ Horizon \in Nat /\ MinLead \in Nat /\ RequestWindow \in Nat /\ InstantHold \in Nat
    /\ PayWindow \in Nat /\ FreeBefore \in Nat /\ DayCap \in Nat /\ Commission \in Nat
ASSUME SlotsAreStretches ==
    Offered \subseteq {s \in Nat \X Nat : s[1] < s[2]}
ASSUME Percentages == LateRefund \in 0..100 /\ VenueRefunds \subseteq 0..100
ASSUME RowsAndStatuses ==
    Meetings \intersect Bookings = {} /\ Switches \subseteq {"live", "paused"}

VARIABLES
    now,
    apart,      \* whether no two handlers overlap, chosen once for a behaviour
    listing,    \* status of the listing
    rows,       \* marketplace_bookings, or NoRow
    blocks,     \* room_blocks of marketplace bookings
    lifted,     \* bookings whose block an operator deleted from the calendar
    meetings,   \* the stretch of each live member's booking, or NoMeeting
    ledger,     \* commission_ledger: accruals less reversals, and whether any accrued
    task        \* what each process is doing, with the rows it has loaded

vars == <<now, apart, listing, rows, blocks, lifted, meetings, ledger, task>>
-----------------------------------------------------------------------------
(* Rows *)

Occupying == {"held", "confirmed", "checked_in"}
Active    == {"requested"} \union Occupying
Ended     == {"completed", "no_show", "declined", "expired",
              "cancelled_customer", "cancelled_operator"}

Paid      == {"paid", "part_refunded", "refunded"}

\* A block is named by the booking it is for and the process that inserted it: a booking
\* is requested once, so one process holds its slot once.
Block   == Bookings \X Workers
NoBlock == <<>>

NoRow == [status |-> "none"]

Row == [status: Active \union Ended,
        slot: Offered,
        method: {"venue", "upi"},       \* pay_at_venue, or one paid in advance
        pay: {"unpaid", "pending_verification"} \union Paid,
        due: Dues,                      \* expires_at
        id: {"not_required", "pending_upload", "pending_review", "approved", "rejected"},
        image: BOOLEAN,                 \* id_document_key
        withdrawn: BOOLEAN,             \* history: whether unlisting declined it
        block: Block \union {NoBlock}]  \* room_block_id

Exists(b) == rows[b] # NoRow

NoMeeting == <<>>
Meets(s, t) == s[1] < t[2] /\ t[1] < s[2]
Length(s) == s[2] - s[1]

\* _check_capacity for booking b: the day's marketplace hours, the members' bookings, and
\* the blocks but the one the stored row names.
HoursUsed(others) ==
    FoldFunctionOnSet(+, 0, [c \in others |-> Length(rows[c].slot)], others)

\* Other bookings that use up the day's hours.
UsingHours(b) == {c \in Bookings \ {b} : Exists(c) /\ rows[c].status \in Occupying}

FitsTheDay(b, s) == HoursUsed(UsingHours(b)) + Length(s) <= DayCap

\* A mutation of RoomIsFree: only the calendar's blocks are looked at.
RoomIsUnblocked(s, but) == \A k \in blocks \ {but} : ~Meets(rows[k[1]].slot, s)

RoomIsFree(s, but) ==
    /\ \A m \in Meetings : meetings[m] # NoMeeting => ~Meets(meetings[m], s)
    /\ \A k \in blocks \ {but} : ~Meets(rows[k[1]].slot, s)

HasCapacity(b, s) ==
    FitsTheDay(b, s) /\ RoomIsFree(s, IF Exists(b) THEN rows[b].block ELSE NoBlock)

\* access_revealed, of a row.
Revealed(r) ==
    /\ r.status \in {"confirmed", "checked_in", "completed"}
    /\ r.pay = "paid" \/ r.method = "venue"
    /\ r.id \in {"not_required", "approved"}

Net(b) == ledger[b].net
-----------------------------------------------------------------------------
(* Tasks *)

Idle == [at |-> "idle"]

Busy == {"create", "approve", "decline", "submit", "confirm", "cancel", "check_in",
         "no_show", "complete", "upload", "review", "turn_away", "expire", "unlist"}

\* Handlers of a behaviour that keeps them apart wait for one another.
Alone == apart => \A q \in Workers : task[q] = Idle

\* was holds the rows as the handler loaded them (of a booking to be made, NoRow), now the
\* instant it took for its own, the rest what it was asked to do.
Start(p, op, was, how, pct, slot) ==
    /\ task[p] = Idle /\ Alone
    /\ task' = [task EXCEPT ![p] =
                  [at |-> op, was |-> was, now |-> now, how |-> how, pct |-> pct, slot |-> slot]]
    /\ UNCHANGED <<now, apart, listing, rows, blocks, lifted, meetings, ledger>>

Load(p, op, ids, how) == Start(p, op, [b \in ids |-> rows[b]], how, 0, NoMeeting)

Done(p) == task' = [task EXCEPT ![p] = Idle]

Loaded(p) == DOMAIN task[p].was
Was(p, b) == task[p].was[b]

\* An UPDATE writes the columns whose value the handler changed.
Merged(stored, was, new) ==
    IF stored = NoRow THEN new
    ELSE [c \in DOMAIN stored |-> IF new[c] = was[c] THEN stored[c] ELSE new[c]]

Store(p, new) ==
    rows' = [b \in Bookings |->
               IF b \in Loaded(p) THEN Merged(rows[b], Was(p, b), new[b]) ELSE rows[b]]

\* A mutation of Release: the rows no longer name their blocks, but those stay.
ReleaseNothing(p) == blocks' = blocks

\* The blocks the loaded rows name are deleted.
Release(p) == blocks' = blocks \ {Was(p, b).block : b \in Loaded(p)}

\* unlist has updated the listing's row, which create and approve must lock.
ListingIsFree == \A q \in Workers : task[q].at # "unlist"
-----------------------------------------------------------------------------
(* create_booking, approve *)

Requested(b, slot, method, at) ==
    [status |-> "requested", slot |-> slot, method |-> method, pay |-> "unpaid",
     due |-> at + RequestWindow,
     id |-> IF b \in IdRequired THEN "pending_upload" ELSE "not_required",
     image |-> FALSE, withdrawn |-> FALSE, block |-> NoBlock]

\* _advance_after_approval: pay at the venue is confirmed, others are held for payment.
Advanced(r, block, mode, at) ==
    [r EXCEPT !.block  = block,
              !.status = IF r.method = "venue" THEN "confirmed" ELSE "held",
              !.due    = IF r.method = "venue" THEN Never
                         ELSE at + (IF mode = "instant" THEN InstantHold ELSE PayWindow)]

\* _confirm enters an accrual unless the booking has one.
Accrued(b) ==
    IF ledger[b].accrued THEN ledger
    ELSE [ledger EXCEPT ![b] = [accrued |-> TRUE, net |-> @.net + Commission]]

AccruedIf(b, r) == IF r.status = "confirmed" THEN Accrued(b) ELSE ledger

OpenHolds == {b \in Bookings : Exists(b) /\ rows[b].status \in {"requested", "held"}}

\* validate_request, of a slot in the listing's windows.
ValidRequest(slot) == listing = "live" /\ slot[1] >= now + MinLead

CreateLoad(p, b, slot, method) ==
    /\ ~Exists(b)
    /\ apart \/ b \in Contended
    /\ ValidRequest(slot)
    /\ Cardinality(OpenHolds) < MaxOpenHolds
    /\ Start(p, "create", [c \in {b} |-> NoRow], method, 0, slot)

\* The unique constraint on the idempotency key refuses a second row.
CreateCommit(p) ==
    LET t == task[p] IN
    /\ t.at = "create" /\ ListingIsFree
    /\ \E b \in Loaded(p), mode \in Approvals :
         LET r == Requested(b, t.slot, t.how, t.now)
             new == IF mode = "instant" THEN Advanced(r, <<b, p>>, mode, t.now) ELSE r
         IN /\ ~Exists(b) /\ HasCapacity(b, t.slot)
            /\ Store(p, [c \in {b} |-> new])
            /\ blocks' = IF mode = "instant" THEN blocks \union {<<b, p>>} ELSE blocks
            /\ ledger' = AccruedIf(b, new)
    /\ Done(p)
    /\ UNCHANGED <<now, apart, listing, lifted, meetings>>

ApproveLoad(p, b) ==
    /\ Exists(b) /\ rows[b].status = "requested"
    /\ Load(p, "approve", {b}, "")

ApproveCommit(p) ==
    LET t == task[p] IN
    /\ t.at = "approve" /\ ListingIsFree
    /\ \E b \in Loaded(p), mode \in Approvals :
         LET new == Advanced(Was(p, b), <<b, p>>, mode, t.now)
         IN /\ HasCapacity(b, new.slot)
            /\ Store(p, [c \in {b} |-> new])
            /\ blocks' = blocks \union {<<b, p>>}
            /\ ledger' = AccruedIf(b, new)
    /\ Done(p)
    /\ UNCHANGED <<now, apart, listing, lifted, meetings>>
-----------------------------------------------------------------------------
(* What changes no slot and no commission: decline, submit_payment, check_in, mark_no_show,
   complete, upload_id, review_id *)

Purged(r) == [r EXCEPT !.image = FALSE]

DeclineLoad(p, b) ==
    /\ Exists(b) /\ rows[b].status = "requested"
    /\ Load(p, "decline", {b}, "")

SubmitLoad(p, b) ==
    /\ Exists(b) /\ rows[b].status = "held" /\ rows[b].pay = "unpaid"
    /\ Load(p, "submit", {b}, "")

CheckInLoad(p, b) ==
    /\ Exists(b) /\ rows[b].status = "confirmed" /\ Revealed(rows[b])
    /\ Load(p, "check_in", {b}, "")

NoShowLoad(p, b) ==
    /\ Exists(b) /\ rows[b].status = "confirmed" /\ rows[b].slot[1] <= now
    /\ Load(p, "no_show", {b}, "")

CompleteLoad(p, b) ==
    /\ Exists(b) /\ rows[b].status \in {"confirmed", "checked_in"}
    /\ Load(p, "complete", {b}, "")

UploadLoad(p, b) ==
    /\ Exists(b) /\ rows[b].id \notin {"not_required", "approved"}
    /\ rows[b].status \in {"requested", "held", "confirmed"}
    /\ Load(p, "upload", {b}, "")

ReviewLoad(p, b, verdict) ==
    /\ Exists(b) /\ rows[b].id = "pending_review"
    /\ Load(p, "review", {b}, verdict)

\* A mutation of Declined: the ID stays.
DeclinedKeepingId(r) == [r EXCEPT !.status = "declined", !.due = Never]

Declined(r) == Purged([r EXCEPT !.status = "declined", !.due = Never])

\* The row as each of these handlers leaves it.
Changed(op, how, r) ==
    CASE op = "decline"  -> Declined(r)
      [] op = "submit"   -> [r EXCEPT !.pay = "pending_verification"]
      [] op = "check_in" -> [r EXCEPT !.status = "checked_in"]
      [] op = "no_show"  -> Purged([r EXCEPT !.status = "no_show"])
      [] op = "complete" -> Purged([r EXCEPT !.status = "completed"])
      [] op = "upload"   -> [r EXCEPT !.image = TRUE, !.id = "pending_review"]
      [] op = "review"   -> [r EXCEPT !.id = how]

ChangeCommit(p) ==
    LET t == task[p] IN
    /\ t.at \in {"decline", "submit", "check_in", "no_show", "complete", "upload", "review"}
    /\ Store(p, [b \in Loaded(p) |-> Changed(t.at, t.how, Was(p, b))])
    /\ Done(p)
    /\ UNCHANGED <<now, apart, listing, blocks, lifted, meetings, ledger>>
-----------------------------------------------------------------------------
(* confirm_payment, cancel, reject_id_at_venue, release_expired *)

ConfirmLoad(p, b) ==
    /\ Exists(b) /\ rows[b].status = "held" /\ rows[b].pay # "paid"
    /\ Load(p, "confirm", {b}, "")

ConfirmCommit(p) ==
    /\ task[p].at = "confirm"
    /\ \E b \in Loaded(p) :
         /\ Store(p, [c \in {b} |-> [Was(p, c) EXCEPT !.status = "confirmed", !.pay = "paid",
                                                      !.due = Never]])
         /\ ledger' = Accrued(b)
    /\ Done(p)
    /\ UNCHANGED <<now, apart, listing, blocks, lifted, meetings>>

\* refund_pct: what the customer gets back, in percent.
RefundPct(r, by, at) ==
    IF r.status # "confirmed" \/ by = "operator" THEN 100
    ELSE IF r.slot[1] - at >= FreeBefore THEN 100 ELSE LateRefund

CancelLoad(p, b, by) ==
    /\ Exists(b) /\ rows[b].status \in Active \ {"checked_in"}
    /\ Start(p, "cancel", [c \in {b} |-> rows[b]], by, RefundPct(rows[b], by, now), NoMeeting)

TurnAwayLoad(p, b, pct) ==
    /\ Exists(b) /\ rows[b].status = "confirmed" /\ rows[b].id # "not_required"
    /\ Start(p, "turn_away", [c \in {b} |-> rows[b]], "operator", pct, NoMeeting)

Refunded(r, pct) ==
    IF r.pay = "paid" THEN IF pct = 100 THEN "refunded" ELSE "part_refunded"
    ELSE IF r.pay = "pending_verification" THEN "unpaid" ELSE r.pay

Cancelled(r, t) ==
    Purged([r EXCEPT !.status = IF t.how = "customer" THEN "cancelled_customer"
                                ELSE "cancelled_operator",
                     !.pay = Refunded(r, t.pct), !.due = Never, !.block = NoBlock,
                     !.id = IF t.at = "turn_away" THEN "rejected" ELSE r.id])

\* A mutation of Reversed: the whole commission goes back whatever is refunded.
ReversedInFull(b, pct) == [ledger EXCEPT ![b].net = 0]

\* money(), of n hundredths: halves are rounded up.
Rounded(n) == (2 * n + 100) \div 200

\* The commission reverses in proportion to the refund.
Reversed(b, pct) == [ledger EXCEPT ![b].net = @ - Rounded(@ * pct)]

CancelCommit(p) ==
    LET t == task[p] IN
    /\ t.at \in {"cancel", "turn_away"}
    /\ \E b \in Loaded(p) :
         /\ Store(p, [c \in {b} |-> Cancelled(Was(p, b), t)])
         /\ ledger' = Reversed(b, t.pct)
    /\ Release(p)
    /\ Done(p)
    /\ UNCHANGED <<now, apart, listing, lifted, meetings>>

Overdue(b) == b \in OpenHolds /\ rows[b].due <= now

\* The job loads every overdue row, and commits once.
ExpireLoad(p) ==
    LET ids == {b \in Bookings : Overdue(b)} IN
    /\ ids # {}
    /\ Load(p, "expire", ids, "")

ExpireCommit(p) ==
    /\ task[p].at = "expire"
    /\ Store(p, [b \in Loaded(p) |->
                   Purged([Was(p, b) EXCEPT !.status = "expired", !.due = Never,
                                            !.block = NoBlock])])
    /\ Release(p)
    /\ Done(p)
    /\ UNCHANGED <<now, apart, listing, lifted, meetings, ledger>>
-----------------------------------------------------------------------------
(* The listing, the room's calendar, the clock *)

SetListing(status) ==
    /\ Alone /\ ListingIsFree
    /\ listing # status
    /\ listing' = status
    /\ UNCHANGED <<now, apart, rows, blocks, lifted, meetings, ledger, task>>

\* Unlisting also declines the requests it finds.
UnlistLoad(p) ==
    /\ listing # "unlisted" /\ ListingIsFree
    /\ Load(p, "unlist", {b \in Bookings : Exists(b) /\ rows[b].status = "requested"}, "")

UnlistCommit(p) ==
    /\ task[p].at = "unlist"
    /\ listing' = "unlisted"
    /\ Store(p, [b \in Loaded(p) |-> [Was(p, b) EXCEPT !.status = "declined", !.withdrawn = TRUE]])
    /\ Done(p)
    /\ UNCHANGED <<now, apart, blocks, lifted, meetings, ledger>>

\* create_room_booking, whose steps RoomBookings has.
BookMeeting(m, s) ==
    /\ Alone
    /\ meetings[m] = NoMeeting /\ s[1] >= now
    /\ RoomIsFree(s, NoBlock)
    /\ meetings' = [meetings EXCEPT ![m] = s]
    /\ UNCHANGED <<now, apart, listing, rows, blocks, lifted, ledger, task>>

\* cancel_booking.
CancelMeeting(m) ==
    /\ Alone
    /\ meetings[m] # NoMeeting
    /\ meetings' = [meetings EXCEPT ![m] = NoMeeting]
    /\ UNCHANGED <<now, apart, listing, rows, blocks, lifted, ledger, task>>

\* calendar_block_delete, of a marketplace booking's block: the foreign key of the row that
\* names it becomes null.
LiftBlock(k) ==
    /\ Alone
    /\ k \in blocks
    /\ blocks' = blocks \ {k}
    /\ lifted' = lifted \union {k[1]}
    /\ rows' = [b \in Bookings |->
                  IF Exists(b) /\ rows[b].block = k THEN [rows[b] EXCEPT !.block = NoBlock]
                  ELSE rows[b]]
    /\ UNCHANGED <<now, apart, listing, meetings, ledger, task>>

Tick ==
    /\ now < Horizon
    /\ now' = now + 1
    /\ UNCHANGED <<apart, listing, rows, blocks, lifted, meetings, ledger, task>>

\* A rule or a constraint refuses, or the process dies: nothing of the transaction stays.
Fail(p) ==
    /\ task[p] # Idle
    /\ Done(p)
    /\ UNCHANGED <<now, apart, listing, rows, blocks, lifted, meetings, ledger>>

Customer(p) ==
    \/ \E b \in Bookings, s \in Offered, m \in {"venue", "upi"} : CreateLoad(p, b, s, m)
    \/ \E b \in Bookings : SubmitLoad(p, b)
    \/ \E b \in Bookings : UploadLoad(p, b)
    \/ \E b \in Bookings : CancelLoad(p, b, "customer")

Operator(p) ==
    \/ \E b \in Bookings : ApproveLoad(p, b)
    \/ \E b \in Bookings : DeclineLoad(p, b)
    \/ \E b \in Bookings : ConfirmLoad(p, b)
    \/ \E b \in Bookings : CheckInLoad(p, b)
    \/ \E b \in Bookings : NoShowLoad(p, b)
    \/ \E b \in Bookings : CompleteLoad(p, b)
    \/ \E b \in Bookings, v \in {"approved", "rejected"} : ReviewLoad(p, b, v)
    \/ \E b \in Bookings, pct \in VenueRefunds : TurnAwayLoad(p, b, pct)
    \/ \E b \in Bookings : CancelLoad(p, b, "operator")
    \/ UnlistLoad(p)

Commit(p) ==
    \/ CreateCommit(p)
    \/ ApproveCommit(p)
    \/ ChangeCommit(p)
    \/ ConfirmCommit(p)
    \/ CancelCommit(p)
    \/ UnlistCommit(p)

Job(p) == ExpireLoad(p) \/ ExpireCommit(p)

Calendar ==
    \/ \E m \in Meetings, s \in Offered : BookMeeting(m, s)
    \/ \E m \in Meetings : CancelMeeting(m)
    \/ \E k \in Block : LiftBlock(k)
    \/ \E status \in Switches : SetListing(status)

Init ==
    /\ now = 0
    /\ apart \in BOOLEAN
    /\ listing = "live"
    /\ rows = [b \in Bookings |-> NoRow]
    /\ blocks = {} /\ lifted = {}
    /\ meetings = [m \in Meetings |-> NoMeeting]
    /\ ledger = [b \in Bookings |-> [accrued |-> FALSE, net |-> 0]]
    /\ task = [p \in Workers |-> Idle]

Next ==
    \/ Tick
    \/ Calendar
    \/ \E p \in Procs : Customer(p) \/ Operator(p)
    \/ \E p \in Procs : Commit(p)
    \/ \E p \in Crons : Job(p)
    \/ \E p \in Workers : Fail(p)

Spec == Init /\ [][Next]_vars
-----------------------------------------------------------------------------
(* Properties *)

\* Every variable keeps its shape.
TypeOK ==
    /\ now \in Times /\ apart \in BOOLEAN
    /\ listing \in {"live", "paused", "unlisted"}
    /\ rows \in [Bookings -> Row \union {NoRow}]
    /\ blocks \subseteq Block /\ lifted \subseteq Bookings
    /\ meetings \in [Meetings -> Offered \union {NoMeeting}]
    /\ ledger \in [Bookings -> [accrued: BOOLEAN, net: Nat]]
    /\ \A p \in Workers : task[p] = Idle \/
         /\ DOMAIN task[p] = {"at", "was", "now", "how", "pct", "slot"}
         /\ task[p].at \in Busy /\ task[p].now \in Times /\ task[p].pct \in 0..100
         /\ Loaded(p) \subseteq Bookings
         /\ \A b \in Loaded(p) : Was(p, b) \in Row \union {NoRow}

RoomOccupants ==
    {[who |-> m, room |-> "room", from |-> meetings[m][1], to |-> meetings[m][2]] :
        m \in {k \in Meetings : meetings[k] # NoMeeting}}
    \union
    {[who |-> k[1], room |-> "room", from |-> rows[k[1]].slot[1], to |-> rows[k[1]].slot[2]] :
        k \in blocks}

Calendars == INSTANCE RoomCalendar
    WITH Occupants <- Meetings \union Bookings, Rooms <- {"room"}, Times <- Ends,
         held <- RoomOccupants

\* "Every write takes the same row lock the member booking flow takes ..., so the two can
\* never double-book": whatever handlers overlap, members' meetings and the blocks of
\* marketplace bookings are the claims of one room calendar.
NeverDoubleBooked == Calendars!Spec

\* "A slot is blocked for members only once a marketplace booking is confirmed or held":
\* a booking has a block from its hold or confirmation until it is cancelled or expires,
\* and no other block, unless an operator took the block off the calendar.
BlockWhileOccupying ==
    apart => \A b \in Bookings :
        LET mine == {k \in blocks : k[1] = b} IN
        IF Exists(b) /\ rows[b].status \in Occupying
        THEN IF b \in lifted THEN mine = {} ELSE mine = {rows[b].block}
        ELSE (Exists(b) /\ rows[b].status \in {"completed", "no_show"}) \/ mine = {}

\* A booking that occupies its room has its block there, and no block is left behind (marketplace:
\* create_booking, _confirm, _release_slot).
RoomKept == TypeOK /\ BlockWhileOccupying

\* What a cancellation may refund: the customer's, by the preset; the operator's, at the door.
RefundsAt(status) ==
    {100} \union (IF status = "cancelled_customer" THEN {LateRefund} ELSE VenueRefunds)

\* The share of the commission that is left, as near as whole paise come to it; a half goes back.
IsShareLeft(net, pct) ==
    LET over == 100 * net - Commission * (100 - pct) IN -50 <= over /\ over < 50

\* Commission is owed on what the operator keeps: in full on a booking that is confirmed
\* or was used, nothing before one is confirmed, and of a cancelled one the share that was not
\* refunded, to the nearest paisa: of a small commission a part refund may leave nothing.
CommissionFollowsMoney ==
    apart => \A b \in Bookings : Exists(b) =>
        /\ rows[b].status \in {"requested", "held", "declined", "expired"} => Net(b) = 0
        /\ rows[b].status \in {"confirmed", "checked_in", "completed", "no_show"} =>
              Net(b) = Commission /\ (rows[b].pay = "paid" \/ rows[b].method = "venue")
        /\ rows[b].pay = "refunded" => Net(b) = 0
        /\ rows[b].status \in {"cancelled_customer", "cancelled_operator"} =>
              /\ rows[b].pay # "paid"
              /\ ledger[b].accrued =>
                    \E pct \in RefundsAt(rows[b].status) :
                        /\ IsShareLeft(Net(b), pct)
                        /\ rows[b].pay = "part_refunded" => pct # 100
              /\ ~ledger[b].accrued => Net(b) = 0

\* A photo ID that a customer uploaded is kept while the booking is live and purged at its end,
\* however it ends (_purge_id); but for requests that unlisting declined, where the code keeps it.
ImagePurgedAtEnd ==
    apart => \A b \in Bookings :
        Exists(b) /\ rows[b].image => rows[b].status \in Active \/ rows[b].withdrawn

=============================================================================
