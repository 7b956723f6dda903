------------------------------ MODULE Attendance ------------------------------
(***************************************************************************)
(* Who is in: people scan the code of the location, reception scans theirs *)
(* or marks them by hand, and each time they are checked in, or out when   *)
(* they are in (services/attendance.py, blueprints/checkin.py,             *)
(* blueprints/admin/attendance_routes.py).                                 *)
(*                                                                         *)
(* A request looks for the person's open stay and writes later; nothing    *)
(* locks it, so requests of one person may overlap.                        *)
(***************************************************************************)
EXTENDS Integers, FiniteSets

CONSTANTS
    People,
    Desks,          \* requests served at a time
    StaleAfter,     \* STALE_AFTER: a stay that is open for longer has no check-out
    LastHour,       \* bounds: the hours are 0..LastHour,
    MaxKeys,        \*   the codes a location has had
    MaxStays        \*   and the stays of one person

VARIABLES
    hour,
    stays,      \* attendance_records
    key,        \* locations.checkin_key, numbered; 0 before there is one
    posters,    \* the keys in the codes that hang or were shown somewhere
    scans,      \* what the requests in hand have found
    hurried     \* history: the people of whom two requests overlapped

vars == <<hour, stays, key, posters, scans, hurried>>

Open == -1
NoScan == [busy |-> FALSE]

Init ==
    /\ hour = 0
    /\ stays = {}
    /\ key = 0
    /\ posters = {}
    /\ scans = [d \in Desks |-> NoScan]
    /\ hurried = {}
-----------------------------------------------------------------------------
(* The codes *)

\* ensure_key and location_token: a code for the location, printed or on a screen.
ShowCode ==
    /\ key' = IF key = 0 THEN 1 ELSE key
    /\ posters' = posters \union {key'}
    /\ UNCHANGED <<hour, stays, scans, hurried>>

\* regenerate_key: what hangs is of no use any more.
RegenerateKey ==
    /\ key < MaxKeys
    /\ key' = key + 1
    /\ UNCHANGED <<hour, stays, posters, scans, hurried>>

\* location_from_token
CodeIsCurrent(poster) == key # 0 /\ poster = key
-----------------------------------------------------------------------------
(* In and out *)

\* A mutation of Fresh: the last hour does not count.
FreshBefore(s) == s.in > hour - StaleAfter

Fresh(s) == s.in >= hour - StaleAfter

OpenStays(person) == {s \in stays : s.person = person /\ s.out = Open /\ Fresh(s)}

\* open_record: the latest.
OpenRecord(person) == {s \in OpenStays(person) : \A t \in OpenStays(person) : t.in <= s.in}

InHand(person) == \E d \in Desks : scans[d].busy /\ scans[d].person = person

Begin(d, person, found) ==
    /\ ~scans[d].busy
    /\ scans' = [scans EXCEPT ![d] = [busy |-> TRUE, person |-> person, found |-> found, at |-> hour]]
    /\ hurried' = IF InHand(person) THEN hurried \union {person} ELSE hurried
    /\ UNCHANGED <<hour, stays, key, posters>>

\* toggle, with the person's open stay or none.
Toggle(d, person) ==
    IF OpenRecord(person) = {} THEN Begin(d, person, {})
    ELSE \E s \in OpenRecord(person) : Begin(d, person, {s})

\* attendance_manual, attendance_scan_post, member_scan and, for the platform's team,
\* attendance_toggle.
MarkByHand(d, person) == Toggle(d, person)
ReceptionScans(d, person) == Toggle(d, person)
MemberScan(d, person) == Toggle(d, person)
TeamToggles(d, person) == Toggle(d, person)

\* scan, by the person with the code of the location.
SelfScan(d, person) == /\ \E poster \in posters : CodeIsCurrent(poster)
                       /\ Toggle(d, person)

\* attendance_checkout: any stay that is open, however old.
CheckOut(d, s) == s.out = Open /\ Begin(d, s.person, {s})

\* The row that was found is written, whatever it is by now.
Commit(d) ==
    /\ scans[d].busy
    /\ LET found == scans[d].found
           closed == {s \in stays : \E f \in found : s.person = f.person /\ s.in = f.in /\ s.by = f.by}
       IN IF found = {}
          THEN /\ Cardinality({s \in stays : s.person = scans[d].person}) < MaxStays
               /\ stays' = stays \union {[person |-> scans[d].person, in |-> scans[d].at, out |-> Open,
                                          by |-> d]}
          ELSE stays' = (stays \ closed) \union {[s EXCEPT !.out = scans[d].at] : s \in closed}
    /\ scans' = [scans EXCEPT ![d] = NoScan]
    /\ UNCHANGED <<hour, key, posters, hurried>>

Fail(d) ==
    /\ scans[d].busy
    /\ scans' = [scans EXCEPT ![d] = NoScan]
    /\ UNCHANGED <<hour, stays, key, posters, hurried>>

Tick ==
    /\ hour < LastHour
    /\ hour' = hour + 1
    /\ UNCHANGED <<stays, key, posters, scans, hurried>>

Next ==
    \/ ShowCode \/ RegenerateKey \/ Tick
    \/ \E d \in Desks :
        \/ Commit(d) \/ Fail(d)
        \/ \E person \in People :
            \/ MarkByHand(d, person) \/ ReceptionScans(d, person) \/ MemberScan(d, person)
            \/ TeamToggles(d, person) \/ SelfScan(d, person)
        \/ \E s \in stays : CheckOut(d, s)
-----------------------------------------------------------------------------
TypeOK ==
    /\ hour \in 0..LastHour
    /\ stays \subseteq [person: People, in: 0..LastHour, out: Open..LastHour, by: Desks]
    /\ key \in 0..MaxKeys
    /\ posters \subseteq 1..MaxKeys
    /\ \A d \in Desks : scans[d].busy => scans[d].person \in People /\ scans[d].found \subseteq stays \union
                            [person: People, in: 0..LastHour, out: {Open}, by: Desks]
    /\ hurried \subseteq People

\* in_now of summary: who is in, as the attendance page shows it.
InNow == {s \in stays : s.out = Open /\ s.in >= hour - StaleAfter}

\* Nobody is in twice: with scans by the person and by reception, stays that are closed by hand and
\* stays that were never closed, the list of who is in has one stay of a person.  Left out are the
\* people of whom two requests overlapped, which nothing keeps apart (toggle).
PresentOnce == \A s, t \in InNow : s # t /\ s.person = t.person => s.person \in hurried
=============================================================================
