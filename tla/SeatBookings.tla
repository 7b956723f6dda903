----------------------------- MODULE SeatBookings -----------------------------
(***************************************************************************)
(* Hot desks: the seats of a location, the bookings members make of them   *)
(* and the allocations that keep one for somebody (the seat part of        *)
(* services/booking_service.py, blueprints/booking/routes.py and           *)
(* blueprints/admin/routes.py, models/space.py).                           *)
(*                                                                         *)
(* Requests overlap: booking a seat, allocating and deleting one look      *)
(* first and write later.  Every window is one that _validate_window and   *)
(* the location's hours accept, see RoomBookings.                          *)
(***************************************************************************)
EXTENDS Integers, FiniteSets

CONSTANTS
    Requests,       \* those that are served at a time
    Members,
    CompanyOf,      \* users.company_id of each, or nobody
    Holders,        \* the companies and the members that seats are kept for
    DaySlots,       \* slots in a day, to which allocations are rounded
    Terms,          \* the stretches allocations are for
    LastSlot,       \* bounds: slots are 0..LastSlot,
    MaxSeats,       \*   the seats ever made
    MaxBookings     \*   and the bookings of one member at a time

VARIABLES
    seats,          \* seats by id
    seatBookings,   \* seat_bookings that are confirmed,
    allocations,    \* seat_allocations that are active,
    history,        \* and the seats that have rows of either, of whatever status
    desk            \* what every request has read

vars == <<seats, seatBookings, allocations, history, desk>>

Ids == 1..MaxSeats
Windows == {w \in [from: 0..LastSlot, to: 1..LastSlot + 1] : w.from < w.to}
Free == [phase |-> "free"]

Exists(s) == seats[s] \in {"active", "inactive"}

Init ==
    /\ seats = [s \in Ids |-> IF s = 1 THEN "active" ELSE "none"]
    /\ seatBookings = {}
    /\ allocations = {}
    /\ history = {}
    /\ desk = [r \in Requests |-> Free]
-----------------------------------------------------------------------------
(* The seats of a location *)

\* A code in use refuses all of them.
AddSeats(new) ==
    /\ \A s \in new : seats[s] = "none" /\ \A t \in Ids \ new : t < s => seats[t] # "none"
    /\ \E status \in {"active", "inactive"} :
        seats' = [s \in Ids |-> IF s \in new THEN status ELSE seats[s]]
    /\ UNCHANGED <<seatBookings, allocations, history, desk>>

SeatsBulkAdd(new) == AddSeats(new)

\* The plan's limit may refuse it, too.
SeatNew(s) == AddSeats({s})

\* A mutation of Locked: nothing is locked.
NeverLocked(s) == FALSE

\* The row is locked by a booking that is being made: what writes to the row, or refers to it,
\* waits.
Locked(s) == \E r \in Requests : desk[r].phase = "checked" /\ desk[r].seat = s

SetActive(ids, status) ==
    /\ \A s \in ids : Exists(s) /\ ~Locked(s)
    /\ seats' = [s \in Ids |-> IF s \in ids THEN status ELSE seats[s]]
    /\ UNCHANGED <<seatBookings, allocations, history, desk>>

SeatsBulkEdit(ids, status) == SetActive(ids, status)
SeatEdit(s, status) == SetActive({s}, status)

\* seat_delete: refused with any booking or allocation, of whatever status.
DeleteCheck(r, s) ==
    /\ desk[r] = Free
    /\ Exists(s) /\ s \notin history
    /\ desk' = [desk EXCEPT ![r] = [phase |-> "delete", seat |-> s]]
    /\ UNCHANGED <<seats, seatBookings, allocations, history>>

\* What came in between goes with the seat, by the cascade.
DeleteCommit(r) ==
    /\ desk[r].phase = "delete" /\ ~Locked(desk[r].seat)
    /\ LET s == desk[r].seat
       IN /\ seats' = [seats EXCEPT ![s] = "deleted"]
          /\ seatBookings' = {b \in seatBookings : b.seat # s}
          /\ allocations' = {a \in allocations : a.seat # s}
          /\ history' = history \ {s}
    /\ desk' = [desk EXCEPT ![r] = Free]
-----------------------------------------------------------------------------
(* Bookings *)

Overlap(w, v) == w.from < v.to /\ v.from < w.to

\* An allocation is for whole days.
OnItsDays(a, w) ==
    a.term.from \div DaySlots <= w.to \div DaySlots /\ a.term.to \div DaySlots >= w.from \div DaySlots

\* _seat_allocation_conflict: one of the allocations being the booker's is enough.
KeptForOthers(s, member, w) ==
    LET there == {a \in allocations : a.seat = s /\ OnItsDays(a, w)}
    IN there # {} /\ \A a \in there : a.holder \notin {member, CompanyOf[member]}

\* check_seat_conflict
Conflict(s, member, w) ==
    \/ \E b \in seatBookings : b.seat = s /\ Overlap(b.window, w)
    \/ KeptForOthers(s, member, w)

\* create_seat_booking looks at the seat it was given,
BookLoad(r, member, s, w) ==
    /\ desk[r] = Free /\ seats[s] = "active"
    /\ Cardinality({b \in seatBookings : b.member = member}) < MaxBookings
    /\ desk' = [desk EXCEPT ![r] = [phase |-> "loaded", seat |-> s, member |-> member, window |-> w]]
    /\ UNCHANGED <<seats, seatBookings, allocations, history>>

\* locks its row, and looks for conflicts.
BookCheck(r) ==
    /\ desk[r].phase = "loaded" /\ ~Locked(desk[r].seat)
    /\ desk' = [desk EXCEPT ![r] =
            IF Conflict(desk[r].seat, desk[r].member, desk[r].window) THEN Free
            ELSE [desk[r] EXCEPT !.phase = "checked"]]
    /\ UNCHANGED <<seats, seatBookings, allocations, history>>

\* A seat that was deleted is missed by the foreign key.
BookCommit(r) ==
    /\ desk[r].phase = "checked"
    /\ IF Exists(desk[r].seat)
       THEN /\ seatBookings' = seatBookings \union
                   {[seat |-> desk[r].seat, member |-> desk[r].member, window |-> desk[r].window,
                     by |-> r]}
            /\ history' = history \union {desk[r].seat}
       ELSE UNCHANGED <<seatBookings, history>>
    /\ desk' = [desk EXCEPT ![r] = Free]
    /\ UNCHANGED <<seats, allocations>>

\* cancel_seat_booking, in time or by the operator's team.
Cancel(b) ==
    /\ seatBookings' = seatBookings \ {b}
    /\ UNCHANGED <<seats, allocations, history, desk>>
-----------------------------------------------------------------------------
(* Allocations *)

\* allocations: neither bookings nor other days are looked at.
AllocateCheck(r, s) ==
    /\ desk[r] = Free /\ seats[s] = "active"
    /\ \A a \in allocations : a.seat # s
    /\ desk' = [desk EXCEPT ![r] = [phase |-> "allocate", seat |-> s]]
    /\ UNCHANGED <<seats, seatBookings, allocations, history>>

AllocateCommit(r, holder, term) ==
    /\ desk[r].phase = "allocate" /\ ~Locked(desk[r].seat)
    /\ IF Exists(desk[r].seat)
       THEN /\ allocations' = allocations \union
                   {[seat |-> desk[r].seat, holder |-> holder, term |-> term]}
            /\ history' = history \union {desk[r].seat}
       ELSE UNCHANGED <<allocations, history>>
    /\ desk' = [desk EXCEPT ![r] = Free]
    /\ UNCHANGED <<seats, seatBookings>>

EndAllocation(a) ==
    /\ allocations' = allocations \ {a}
    /\ UNCHANGED <<seats, seatBookings, history, desk>>

\* A request dies.
Die(r) ==
    /\ desk[r] # Free
    /\ desk' = [desk EXCEPT ![r] = Free]
    /\ UNCHANGED <<seats, seatBookings, allocations, history>>

Next ==
    \/ \E ids \in (SUBSET Ids) \ {{}} :
        SeatsBulkAdd(ids) \/ \E status \in {"active", "inactive"} : SeatsBulkEdit(ids, status)
    \/ \E s \in Ids :
        SeatNew(s) \/ \E status \in {"active", "inactive"} : SeatEdit(s, status)
    \/ \E r \in Requests :
        \/ DeleteCommit(r) \/ BookCheck(r) \/ BookCommit(r) \/ Die(r)
        \/ \E s \in Ids :
            \/ DeleteCheck(r, s) \/ AllocateCheck(r, s)
            \/ \E member \in Members, w \in Windows : BookLoad(r, member, s, w)
        \/ \E holder \in Holders, term \in Terms : AllocateCommit(r, holder, term)
    \/ \E b \in seatBookings : Cancel(b)
    \/ \E a \in allocations : EndAllocation(a)
-----------------------------------------------------------------------------
TypeOK ==
    /\ seats \in [Ids -> {"none", "active", "inactive", "deleted"}]
    /\ seatBookings \subseteq [seat: Ids, member: Members, window: Windows, by: Requests]
    /\ allocations \subseteq [seat: Ids, holder: Holders, term: Terms]
    /\ history \subseteq Ids
    /\ \A r \in Requests : desk[r].phase \in {"free", "loaded", "checked", "delete", "allocate"}

\* A seat is booked once at a time, however requests that book, cancel, edit and delete seats
\* overlap (create_seat_booking takes the seat's row lock before it looks).
SeatBookedOnce ==
    \A b, c \in seatBookings :
        b # c /\ b.seat = c.seat => ~Overlap(b.window, c.window)
=============================================================================
