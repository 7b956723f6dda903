------------------------------ MODULE FrontDesk ------------------------------
(***************************************************************************)
(* What reception keeps: parcels, visitors, lockers, day and guest passes, *)
(* and members' profiles and referrals (blueprints/community/routes.py,    *)
(* blueprints/admin/parcel_routes.py, services/parcels.py, the reception   *)
(* and day-pass handlers).                                                 *)
(*                                                                         *)
(* Each handler reads one row, looks at it, and writes it in the same      *)
(* transaction; nothing is locked, so two clerks may hold the row at once. *)
(* No handler reads or writes the row of another, so there is one row, of  *)
(* any kind.                                                               *)
(***************************************************************************)
EXTENDS Naturals, FiniteSets

CONSTANTS
    Clerks,     \* requests served at a time
    People,     \* who a locker may be given to
    LastDate    \* a bound: the days are 0..LastDate

VARIABLES
    row,        \* the row, when there is one
    date,
    clerks,     \* the row each request has read, and what it made of it
    gone,       \* history: whether the parcel has left,
    crossed     \*   and whether two requests had the row at a time

vars == <<row, date, clerks, gone, crossed>>

Dates == 0..LastDate
Nobody == "nobody"
NoRow == [kind |-> "none"]
Idle == [busy |-> FALSE]

Parcel(told) == [kind |-> "parcel", status |-> "waiting", told |-> told, by |-> {}]
Visitor == [kind |-> "visitor", status |-> "pending", arrived |-> FALSE, left |-> FALSE]
Locker == [kind |-> "locker", status |-> "available", user |-> Nobody, since |-> {}]
DayPass(day) == [kind |-> "day pass", status |-> "issued", for |-> day]
GuestPass(day) == [kind |-> "guest pass", status |-> "issued", for |-> day]
Referral == [kind |-> "referral", status |-> "pending"]
PrintingEntry == [kind |-> "printing"]
Profile == [kind |-> "profile", public |-> FALSE]

Init ==
    /\ row = NoRow
    /\ date = 0
    /\ clerks = [c \in Clerks |-> Idle]
    /\ gone = FALSE
    /\ crossed = FALSE
-----------------------------------------------------------------------------
(* A new row *)

Add(new) ==
    /\ row = NoRow
    /\ row' = new
    /\ UNCHANGED <<date, clerks, gone, crossed>>

\* notify: there may be no address, and the mail may fail.
Mailed == BOOLEAN

\* parcel_new: the recipient is mailed before the commit.
ParcelArrives == \E told \in Mailed : Add(Parcel(told))

\* visitors, lockers, referrals, printing_adjust
RegisterVisitor == Add(Visitor)
AddLocker == Add(Locker)
Refer == Add(Referral)
AdjustPrinting == Add(PrintingEntry)

\* day_pass_new, which takes today for a date it cannot read, and guest_passes
IssueDayPass == \E day \in Dates : Add(DayPass(day))
IssueGuestPass == \E day \in Dates : Add(GuestPass(day))

\* edit_profile makes the row when the page is first opened.
OpenProfile == Add(Profile)
-----------------------------------------------------------------------------
(* Handlers on the row *)

\* A handler has read the row, and its transaction is to leave `new'.
Handle(c, new) ==
    /\ ~clerks[c].busy
    /\ clerks' = [clerks EXCEPT ![c] = [busy |-> TRUE, read |-> row, new |-> new]]
    /\ crossed' = (crossed \/ \E d \in Clerks : clerks[d].busy)
    /\ UNCHANGED <<row, date, gone>>

\* parcel_collect, with the pickup code or without one, and parcel_return
HandOver(c) ==
    \E status \in {"collected", "returned"} :
        /\ row.kind = "parcel" /\ row.status = "waiting"
        /\ Handle(c, [row EXCEPT !.status = status, !.by = {c}])

\* parcel_remind, when the mail goes out
Remind(c) ==
    /\ row.kind = "parcel" /\ row.status = "waiting"
    /\ Handle(c, [row EXCEPT !.told = TRUE])

\* visitor_check_in and visitor_check_out, in any order and as often as they are pressed
VisitorCheckIn(c) ==
    row.kind = "visitor" /\ Handle(c, [row EXCEPT !.status = "checked_in", !.arrived = TRUE])
VisitorCheckOut(c) ==
    row.kind = "visitor" /\ Handle(c, [row EXCEPT !.status = "checked_out", !.left = TRUE])

\* locker_assign, whoever has it, and locker_release
AssignLocker(c, person) ==
    /\ row.kind = "locker"
    /\ Handle(c, [row EXCEPT !.status = "assigned", !.user = person, !.since = {date}])
ReleaseLocker(c) == row.kind = "locker" /\ Handle(c, Locker)

\* reception
Admit(c) ==
    /\ row.kind = "day pass" /\ row.status = "issued" /\ row.for = date
    /\ Handle(c, [row EXCEPT !.status = "checked_in"])

EditProfile(c, public) == row.kind = "profile" /\ Handle(c, [row EXCEPT !.public = public])

\* A mutation of Flushed: the whole row is written.
WholeRow(now, read, new) == new

\* A transaction writes the columns that it changed, over whatever the row is by then.
Flushed(now, read, new) ==
    [col \in DOMAIN now |-> IF new[col] = read[col] THEN now[col] ELSE new[col]]

Commit(c) ==
    /\ clerks[c].busy
    /\ row' = Flushed(row, clerks[c].read, clerks[c].new)
    /\ gone' = (gone \/ (row.kind = "parcel" /\ row'.status # "waiting"))
    /\ clerks' = [clerks EXCEPT ![c] = Idle]
    /\ UNCHANGED <<date, crossed>>

Fail(c) ==
    /\ clerks[c].busy
    /\ clerks' = [clerks EXCEPT ![c] = Idle]
    /\ UNCHANGED <<row, date, gone, crossed>>

Midnight ==
    /\ date < LastDate
    /\ date' = date + 1
    /\ UNCHANGED <<row, clerks, gone, crossed>>

Next ==
    \/ ParcelArrives \/ RegisterVisitor \/ AddLocker \/ Refer \/ AdjustPrinting
    \/ IssueDayPass \/ IssueGuestPass \/ OpenProfile \/ Midnight
    \/ \E c \in Clerks :
        \/ HandOver(c) \/ Remind(c) \/ VisitorCheckIn(c) \/ VisitorCheckOut(c)
        \/ ReleaseLocker(c) \/ Admit(c) \/ Commit(c) \/ Fail(c)
        \/ \E person \in People : AssignLocker(c, person)
        \/ \E public \in BOOLEAN : EditProfile(c, public)
-----------------------------------------------------------------------------
Statuses == {"waiting", "collected", "returned", "pending", "checked_in", "checked_out",
             "available", "assigned", "issued"}

TypeOK ==
    /\ row.kind \in {"none", "parcel", "visitor", "locker", "day pass", "guest pass", "referral",
                     "printing", "profile"}
    /\ row.kind \notin {"none", "printing", "profile"} => row.status \in Statuses
    /\ date \in Dates
    /\ \A c \in Clerks : clerks[c].busy =>
            clerks[c].read.kind = row.kind /\ clerks[c].new.kind = row.kind
    /\ gone \in BOOLEAN /\ crossed \in BOOLEAN

\* A parcel that was handed over or sent back does not come back to the shelf, whatever the other
\* clerk had in hand, a reminder of it, say; and a locker that one clerk at a time has dealt with
\* is assigned just when somebody has it (parcel_routes.py, locker_assign and locker_release).
DeskIsRight ==
    /\ gone => row.status \in {"collected", "returned"}
    /\ row.kind = "locker" /\ ~crossed => (row.status = "assigned" <=> row.user # Nobody)
=============================================================================
