------------------------------- MODULE Premises -------------------------------
(***************************************************************************)
(* What happens at a location: the spaces of the subscriptions, a series   *)
(* of meetings, seats that members book, who is in, and the front desk.    *)
(* They share no state: a behaviour is of one of them, and the others stay *)
(* as they are.                                                            *)
(***************************************************************************)
EXTENDS SubscriptionSpaces

CONSTANTS
    Parts,                                                              \* which of them behaviours are of
    SlotsADay, Week, MinAdvance, CancelWindow, LastDay,                 \* RoomSeries
    Requests, Members, CompanyOf, SeatHolders, DaySlots, Terms, LastSlot, MaxSeats, MaxBookings,
                                                                        \* SeatBookings
    People, Desks, StaleAfter, LastHour, MaxKeys, MaxStays,             \* Attendance
    Clerks, LockerUsers, LastDate                                       \* FrontDesk

ASSUME SeriesBounds == SlotsADay \in Nat \ {0} /\ MinAdvance \in Nat /\ LastDay \in Nat
ASSUME AttendanceBounds ==
    LastHour \in Nat /\ MaxKeys \in Nat \ {0} /\ StaleAfter \in Nat
ASSUME DatesGoOn == LastDate \in Nat
ASSUME UsersAreSomebody == "nobody" \notin LockerUsers

VARIABLES
    part,
    now, series, meetings, job, excused,                \* RoomSeries
    seats, seatBookings, allocations, history, desk,    \* SeatBookings
    hour, stays, key, posters, scans, hurried,          \* Attendance
    row, date, clerks, gone, crossed                    \* FrontDesk

seriesVars == <<now, series, meetings, job, excused>>
seatVars == <<seats, seatBookings, allocations, history, desk>>
presenceVars == <<hour, stays, key, posters, scans, hurried>>
frontVars == <<row, date, clerks, gone, crossed>>

Series == INSTANCE RoomSeries
HotDesks == INSTANCE SeatBookings WITH Holders <- SeatHolders
Presence == INSTANCE Attendance
Reception == INSTANCE FrontDesk WITH People <- LockerUsers

PremisesInit ==
    /\ part \in Parts
    /\ Init /\ (part # "spaces" => case.desk = {"give"} /\ ~firstDay)
    /\ Series!Init /\ HotDesks!Init /\ Presence!Init /\ Reception!Init

PremisesNext ==
    /\ UNCHANGED part
    /\ \/ part = "spaces" /\ Next /\ UNCHANGED <<seriesVars, seatVars, presenceVars, frontVars>>
       \/ part = "series" /\ Series!Next /\ UNCHANGED <<vars, seatVars, presenceVars, frontVars>>
       \/ part = "seats" /\ HotDesks!Next /\ UNCHANGED <<vars, seriesVars, presenceVars, frontVars>>
       \/ part = "presence" /\ Presence!Next /\ UNCHANGED <<vars, seriesVars, seatVars, frontVars>>
       \/ part = "front" /\ Reception!Next /\ UNCHANGED <<vars, seriesVars, seatVars, presenceVars>>

premisesVars == <<part, vars, seriesVars, seatVars, presenceVars, frontVars>>

PremisesSpec == PremisesInit /\ [][PremisesNext]_premisesVars
-----------------------------------------------------------------------------
\* A space is one subscription's, and a person in it is billed once (attach_spaces, end_places,
\* change_extra_people and the allocation handlers).
SpacesSound == TypeOK /\ SpaceHeldOnce /\ NobodyBilledTwice

\* A series has one meeting a day (RoomSeries: materialize_recurring_room_bookings, update_series).
OneMeetingADay == Series!TypeOK /\ Series!OneMeetingADay

\* A seat is booked once at a time (SeatBookings: create_seat_booking).
SeatBookedOnce == HotDesks!TypeOK /\ HotDesks!SeatBookedOnce

\* Nobody is in twice (Attendance: open_record, toggle).
PresentOnce == Presence!TypeOK /\ Presence!PresentOnce

\* What one clerk has done, another does not undo (FrontDesk: parcels and lockers).
DeskIsRight == Reception!TypeOK /\ Reception!DeskIsRight
=============================================================================
