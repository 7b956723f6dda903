------------------------------ MODULE RoomSeries ------------------------------
(***************************************************************************)
(* A recurring meeting: the job that makes its meetings of today and       *)
(* tomorrow, and the people who move, cut short or stop the series or one  *)
(* meeting of it (the series part of services/booking_service.py and of    *)
(* blueprints/booking/routes.py, the cancellation of                       *)
(* blueprints/member/routes.py).                                           *)
(*                                                                         *)
(* There is one series in one room.  A meeting takes one slot.  The other  *)
(* bookings of the room, blocks and the rules on credits may refuse any    *)
(* meeting: they are those of RoomBookings and a free choice here.  The    *)
(* job reads the series and then makes one meeting per transaction;        *)
(* requests come in between.                                               *)
(***************************************************************************)
EXTENDS Integers, FiniteSets

CONSTANTS
    SlotsADay,
    Week,           \* days
    MinAdvance,     \* BOOKING_MIN_ADVANCE_MINUTES and
    CancelWindow,   \*   BOOKING_CANCEL_WINDOW_MINUTES, in slots
    LastDay         \* a bound: the days are 0..LastDay

VARIABLES
    now,        \* in slots
    series,     \* recurring_room_bookings: the one row
    meetings,   \* its room_bookings
    job,        \* materialize_recurring_room_bookings: what a running one has read
    excused     \* history: the days on which something happened that may leave two meetings

vars == <<now, series, meetings, job, excused>>

Days == 0..LastDay
TimesOfDay == 0..SlotsADay - 1
Slots == 0..(LastDay + 1) * SlotsADay - 1
DayOf(t) == t \div SlotsADay
At(day, time) == day * SlotsADay + time
Today == DayOf(now)

NoSeries == [status |-> "none", pattern |-> "daily", time |-> 0, from |-> 0, until |-> 0]
NoJob == [busy |-> FALSE, day |-> 0, last |-> 0, time |-> 0]

Meeting(t) == [start |-> t, status |-> "confirmed"]
Cancelled(m) == [m EXCEPT !.status = "cancelled"]
Live == {m \in meetings : m.status = "confirmed"}
StartsLive == {m.start : m \in Live}

Init ==
    /\ now = 0
    /\ series = NoSeries
    /\ meetings = {}
    /\ job = NoJob
    /\ excused = {}
-----------------------------------------------------------------------------
(* One meeting *)

\* _validate_window and, among the series' own meetings, check_room_conflict.
Fits(t) == t >= now + MinAdvance /\ t \notin StartsLive

\* The cancel window, which does not bind the operator's team.
InTime(m, admin) == admin \/ m.start - now >= CancelWindow

\* cancel_booking
MayCancel(m, admin) == m.status = "confirmed" /\ InTime(m, admin)

\* The rules of update_room_booking before it looks at the new time.
MayChange(m, admin) == m.status = "confirmed" /\ m.start > now /\ InTime(m, admin)

CancelOne(m, admin) ==
    /\ MayCancel(m, admin)
    /\ meetings' = (meetings \ {m}) \union {Cancelled(m)}
    /\ UNCHANGED <<now, series, job, excused>>

\* room_booking_edit, scope `one'.  Moved by hand, a meeting is not where the job looks for it.
MoveOne(m, t, admin) ==
    /\ MayChange(m, admin) /\ Fits(t)
    /\ meetings' = (meetings \ {m}) \union {Meeting(t)}
    /\ excused' = excused \union {DayOf(m.start), DayOf(t)}
    /\ UNCHANGED <<now, series, job>>
-----------------------------------------------------------------------------
(* The series *)

Row(pattern, time, from, until) ==
    [status |-> "active", pattern |-> pattern, time |-> time, from |-> from, until |-> until]

\* location_calendar_quick_book with a repeat: the series is rolled back with a first meeting
\* that cannot be booked.
QuickBook(pattern, t, until) ==
    /\ series.status = "none"
    /\ until >= DayOf(t) /\ Fits(t)
    /\ series' = Row(pattern, t % SlotsADay, DayOf(t), until)
    /\ meetings' = meetings \union {Meeting(t)}
    /\ UNCHANGED <<now, job, excused>>

\* room_recurring_create: the series alone, with any dates.
CreateSeries(pattern, time, from, until) ==
    /\ series.status = "none"
    /\ series' = Row(pattern, time, from, until)
    /\ UNCHANGED <<now, meetings, job, excused>>

\* A mutation of FutureInstances: the meetings of the next day are left out.
FutureOfToday == {m \in Live : m.start > now /\ DayOf(m.start) = Today}

\* _future_instances
FutureInstances == {m \in Live : m.start > now}

\* The request goes over the meetings in the order of their starts and commits each; it may die
\* before the one at `upto'.
Reached(upto) == {m \in FutureInstances : m.start < upto}
Ends == Slots \union {(LastDay + 1) * SlotsADay}

CancelSeries(admin, upto) ==
    /\ series.status # "none"
    /\ series' = [series EXCEPT !.status = "stopped"]
    /\ LET gone == {m \in Reached(upto) : MayCancel(m, admin)}
       IN meetings' = (meetings \ gone) \union {Cancelled(m) : m \in gone}
    /\ UNCHANGED <<now, job, excused>>

Target(m, time) == At(DayOf(m.start), time)

\* Meetings of one day have one target, which only one of them can get.
OnePerDay(ms) == \A m, n \in ms : DayOf(m.start) = DayOf(n.start) => m = n

\* update_series: every upcoming meeting is moved to the new time of its day, or cancelled when it
\* is after the new end; `moved' are those that nothing refuses.  `failed' is what the request
\* reports.
UpdateSeries(admin, time, until, upto) ==
    /\ series.status # "none" /\ until >= series.from
    /\ series' = [series EXCEPT !.time = time, !.until = until]
    /\ \E moved \in SUBSET {m \in Reached(upto) : /\ DayOf(m.start) <= until
                                                  /\ MayChange(m, admin)
                                                  /\ Fits(Target(m, time))} :
        LET late == {m \in Reached(upto) : DayOf(m.start) > until}
            gone == {m \in late : MayCancel(m, admin)}
            same == {m \in Reached(upto) : MayChange(m, admin) /\ m.start = Target(m, time)}
            failed == Reached(upto) \ (moved \union gone \union same)
            died == FutureInstances \ Reached(upto)
            begun == {m \in Live : m.start <= now /\ DayOf(m.start) = Today}
            overtaken == IF job.busy THEN job.day..job.last ELSE {}
        IN /\ OnePerDay(moved)
           /\ meetings' = (meetings \ (moved \union gone))
                          \union {Meeting(Target(m, time)) : m \in moved}
                          \union {Cancelled(m) : m \in gone}
           /\ excused' = excused \union {DayOf(m.start) : m \in failed \union died \union begun}
                         \union overtaken
    /\ UNCHANGED <<now, job>>
-----------------------------------------------------------------------------
(* The job *)

Later(a, b) == IF a > b THEN a ELSE b
Sooner(a, b) == IF a < b THEN a ELSE b

\* The series is among those that are active, and its dates and time are read.
JobReads ==
    /\ ~job.busy /\ series.status = "active"
    /\ LET first == Later(series.from, Today)
           last == Sooner(series.until, Today + 1)
       IN /\ first <= last
          /\ job' = [busy |-> TRUE, day |-> first, last |-> last, time |-> series.time]
    /\ UNCHANGED <<now, series, meetings, excused>>

OnPattern(day) == series.pattern = "daily" \/ day % Week = series.from % Week

\* No meeting of the series starts at this time, whatever became of it.
Due(day, t) == OnPattern(day) /\ \A m \in meetings : m.start # t

\* With the commit of a meeting the series is read again, its status is not looked at.
NextDay(time) ==
    IF job.day = job.last THEN NoJob ELSE [job EXCEPT !.day = job.day + 1, !.time = time]

JobMakes ==
    LET t == At(job.day, job.time)
    IN /\ job.busy /\ Due(job.day, t) /\ Fits(t)
       /\ meetings' = meetings \union {Meeting(t)}
       /\ job' = NextDay(series.time)
       /\ UNCHANGED <<now, series, excused>>

\* It exists, is not due on that day, or is refused.
JobPasses ==
    /\ job.busy
    /\ job' = NextDay(job.time)
    /\ UNCHANGED <<now, series, meetings, excused>>

JobDies ==
    /\ job.busy
    /\ job' = NoJob
    /\ UNCHANGED <<now, series, meetings, excused>>
Tick ==
    /\ now + 1 \in Slots
    /\ now' = now + 1
    /\ UNCHANGED <<series, meetings, job, excused>>

Next ==
    \/ JobReads \/ JobMakes \/ JobPasses \/ JobDies \/ Tick
    \/ \E pattern \in {"daily", "weekly"}, until \in Days :
        \/ \E t \in Slots : QuickBook(pattern, t, until)
        \/ \E time \in TimesOfDay, from \in Days : CreateSeries(pattern, time, from, until)
    \/ \E admin \in BOOLEAN :
        \/ \E m \in meetings : CancelOne(m, admin) \/ \E t \in Slots : MoveOne(m, t, admin)
        \/ \E upto \in Ends :
            \/ CancelSeries(admin, upto)
            \/ \E time \in TimesOfDay, until \in Days : UpdateSeries(admin, time, until, upto)
-----------------------------------------------------------------------------
TypeOK ==
    /\ now \in Slots
    /\ series \in [status: {"none", "active", "stopped"}, pattern: {"daily", "weekly"},
                   time: TimesOfDay, from: Days, until: Days]
    /\ meetings \subseteq [start: Slots, status: {"confirmed", "cancelled"}]
    /\ job \in [busy: BOOLEAN, day: Days, last: 0..LastDay + 1, time: TimesOfDay]
    /\ excused \subseteq 0..LastDay + 1

\* A series has one meeting a day: the job makes none beside the one it made before, and moving the
\* series takes all that is to come along.  Left out are the days where the code knows it cannot
\* (it reports them), where the request died, where the day's meeting had begun, where a meeting
\* was moved by hand, and where the job had read the series before it was moved
\* (materialize_recurring_room_bookings and update_series).
OneMeetingADay ==
    \A m, n \in Live : m # n /\ DayOf(m.start) = DayOf(n.start) => DayOf(m.start) \in excused
=============================================================================
