---------------------------- MODULE RoomCalendar ----------------------------
(***************************************************************************)
(* What a meeting room's calendar promises, with no word about requests,   *)
(* row locks or database constraints: a set of claims, each one occupant   *)
(* holding one room for one stretch of time, of which no two overlap.      *)
(* RoomBookings implements it with the live rows of room_bookings.         *)
(***************************************************************************)
EXTENDS Integers

CONSTANTS Occupants, Rooms, Times

VARIABLE held

Claim == [who: Occupants, room: Rooms, from: Times, to: Times]

\* Two stretches of one room that share an instant (a meeting may start the
\* moment another ends).
Overlaps(c, d) == c.room = d.room /\ c.from < d.to /\ d.from < c.to

\* An occupant holds one claim at most, and no two claims overlap.
Exclusive(claims) ==
    \A c, d \in claims : c.who = d.who \/ Overlaps(c, d) => c = d

Init == held = {}

\* An occupant takes a stretch that nobody holds.
Take(c) ==
    /\ \A d \in held : d.who # c.who /\ ~Overlaps(c, d)
    /\ held' = held \union {c}

\* An occupant exchanges its stretch for one that nobody else holds.
Move(old, new) ==
    /\ new.who = old.who
    /\ \A d \in held \ {old} : ~Overlaps(new, d)
    /\ held' = (held \ {old}) \union {new}

\* Some occupants give their stretches back.
GiveBack(claims) == held' = held \ claims

Next ==
    \/ \E c \in Claim : Take(c)
    \/ \E old \in held, new \in Claim : Move(old, new)
    \/ \E claims \in SUBSET held : GiveBack(claims)

Spec == Init /\ [][Next]_held

=============================================================================
