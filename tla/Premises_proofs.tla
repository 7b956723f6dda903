--------------------------- MODULE Premises_proofs ---------------------------
(***************************************************************************)
(* Proofs about the parts of Premises, for any number of requests, seats,  *)
(* people, desks and clerks, and every bound.                              *)
(***************************************************************************)
EXTENDS Premises, FiniteSetTheorems, TLAPS

(* Seats.  The inductive invariant: one request at a time has looked at a seat under its  *)
(* row lock, and what it found is still so.                                               *)

SeatTasks ==
    {HotDesks!Free}
    \union [phase: {"delete", "allocate"}, seat: HotDesks!Ids]
    \union [phase: {"loaded", "checked"}, seat: HotDesks!Ids, member: Members,
            window: HotDesks!Windows]

Looked(r) == desk[r].phase = "checked"

LockHeldOnce ==
    \A r, q \in Requests : r # q /\ Looked(r) /\ Looked(q) => desk[r].seat # desk[q].seat

StillFree ==
    \A r \in Requests : Looked(r) =>
        \A b \in seatBookings :
            b.seat = desk[r].seat => ~HotDesks!Overlap(b.window, desk[r].window)

SeatsInv ==
    /\ HotDesks!TypeOK
    /\ desk \in [Requests -> SeatTasks]
    /\ LockHeldOnce
    /\ StillFree
    /\ HotDesks!SeatBookedOnce

LEMMA SeatsInit == HotDesks!Init => SeatsInv
  <1> SUFFICES ASSUME HotDesks!Init PROVE SeatsInv
    OBVIOUS
  <1> USE DEF HotDesks!Init, HotDesks!Free, HotDesks!Ids
  <1>1. HotDesks!TypeOK
    BY DEF HotDesks!TypeOK
  <1>2. desk \in [Requests -> SeatTasks]
    BY DEF SeatTasks
  <1>3. LockHeldOnce /\ StillFree /\ HotDesks!SeatBookedOnce
    BY DEF LockHeldOnce, StillFree, Looked, HotDesks!SeatBookedOnce
  <1> QED
    BY <1>1, <1>2, <1>3 DEF SeatsInv

\* What a request has in hand when it leaves its first step.
LEMMA SeatTaskFields ==
    ASSUME SeatsInv, NEW r \in Requests
    PROVE  /\ desk[r].phase \in {"loaded", "checked"} =>
                 desk[r] \in [phase: {"loaded", "checked"}, seat: HotDesks!Ids, member: Members,
                              window: HotDesks!Windows]
           /\ desk[r].phase \in {"delete", "allocate"} =>
                 desk[r] \in [phase: {"delete", "allocate"}, seat: HotDesks!Ids]
  BY DEF SeatsInv, SeatTasks, HotDesks!Free

\* A step that leaves the rows of bookings, or takes some away, and starts or ends no more than
\* one request that has not looked.
LEMMA FewerBookings ==
    ASSUME SeatsInv, HotDesks!TypeOK', desk' \in [Requests -> SeatTasks],
           seatBookings' \subseteq seatBookings,
           \A q \in Requests : Looked(q)' => desk'[q] = desk[q]
    PROVE  SeatsInv'
  <1>1. LockHeldOnce'
    BY DEF SeatsInv, LockHeldOnce, Looked
  <1>2. StillFree'
    BY DEF SeatsInv, StillFree, Looked
  <1>3. HotDesks!SeatBookedOnce'
    BY DEF SeatsInv, HotDesks!SeatBookedOnce
  <1> QED
    BY <1>1, <1>2, <1>3 DEF SeatsInv

\* A request goes to another step, or is done, and has not looked at a seat.
LEMMA SeatTurn ==
    ASSUME SeatsInv, NEW r \in Requests, NEW t \in SeatTasks,
           t.phase # "checked",
           desk' = [desk EXCEPT ![r] = t],
           seatBookings' \subseteq seatBookings,
           seats' \in [HotDesks!Ids -> {"none", "active", "inactive", "deleted"}],
           allocations' \subseteq [seat: HotDesks!Ids, holder: SeatHolders, term: Terms],
           history' \subseteq HotDesks!Ids
    PROVE  SeatsInv'
  <1>1. desk' \in [Requests -> SeatTasks]
    BY DEF SeatsInv
  <1>2. \A q \in Requests : desk'[q].phase \in {"free", "loaded", "checked", "delete", "allocate"}
    BY <1>1 DEF SeatTasks, HotDesks!Free
  <1>3. HotDesks!TypeOK'
    BY <1>2 DEF SeatsInv, HotDesks!TypeOK
  <1>4. \A q \in Requests : Looked(q)' => desk'[q] = desk[q]
    BY DEF SeatsInv, Looked
  <1> QED
    BY <1>1, <1>3, <1>4, FewerBookings

\* The seats themselves are edited, and seats that were booked or given to somebody come and go.
LEMMA SeatEdits ==
    ASSUME SeatsInv,
           \/ \E ids \in (SUBSET HotDesks!Ids) \ {{}} :
                \/ HotDesks!SeatsBulkAdd(ids)
                \/ \E status \in {"active", "inactive"} : HotDesks!SeatsBulkEdit(ids, status)
           \/ \E s \in HotDesks!Ids :
                \/ HotDesks!SeatNew(s)
                \/ \E status \in {"active", "inactive"} : HotDesks!SeatEdit(s, status)
           \/ \E b \in seatBookings : HotDesks!Cancel(b)
           \/ \E a \in allocations : HotDesks!EndAllocation(a)
    PROVE  SeatsInv'
  <1>1. HotDesks!TypeOK'
    BY DEF SeatsInv, HotDesks!TypeOK, HotDesks!SeatsBulkAdd, HotDesks!SeatNew, HotDesks!AddSeats,
           HotDesks!SeatsBulkEdit, HotDesks!SeatEdit, HotDesks!SetActive, HotDesks!Cancel,
           HotDesks!EndAllocation
  <1>2. desk' = desk /\ seatBookings' \subseteq seatBookings
    BY DEF HotDesks!SeatsBulkAdd, HotDesks!SeatNew, HotDesks!AddSeats, HotDesks!SeatsBulkEdit,
           HotDesks!SeatEdit, HotDesks!SetActive, HotDesks!Cancel, HotDesks!EndAllocation
  <1> QED
    BY <1>1, <1>2, FewerBookings DEF SeatsInv

\* A request begins, fails, or deletes or allocates a seat.
LEMMA SeatRequests ==
    ASSUME SeatsInv, NEW r \in Requests,
           \/ HotDesks!DeleteCommit(r) \/ HotDesks!Die(r)
           \/ \E s \in HotDesks!Ids :
                \/ HotDesks!DeleteCheck(r, s) \/ HotDesks!AllocateCheck(r, s)
                \/ \E member \in Members, w \in HotDesks!Windows : HotDesks!BookLoad(r, member, s, w)
           \/ \E holder \in SeatHolders, term \in Terms : HotDesks!AllocateCommit(r, holder, term)
    PROVE  SeatsInv'
  <1> DEFINE Turns(t) == desk' = [desk EXCEPT ![r] = t]
             Fewer == /\ seatBookings' \subseteq seatBookings
                      /\ seats' \in [HotDesks!Ids -> {"none", "active", "inactive", "deleted"}]
                      /\ allocations' \subseteq [seat: HotDesks!Ids, holder: SeatHolders, term: Terms]
                      /\ history' \subseteq HotDesks!Ids
  <1>1. CASE HotDesks!DeleteCommit(r)
    <2>1. desk[r].seat \in HotDesks!Ids
      BY <1>1, SeatTaskFields DEF HotDesks!DeleteCommit
    <2>2. Fewer
      BY <1>1, <2>1 DEF SeatsInv, HotDesks!TypeOK, HotDesks!DeleteCommit
    <2> QED
      BY <1>1, <2>2, SeatTurn DEF HotDesks!DeleteCommit, HotDesks!Free, SeatTasks
  <1>2. CASE HotDesks!Die(r)
    BY <1>2, SeatTurn DEF SeatsInv, HotDesks!TypeOK, HotDesks!Die, HotDesks!Free, SeatTasks
  <1>3. ASSUME NEW s \in HotDesks!Ids, HotDesks!DeleteCheck(r, s) \/ HotDesks!AllocateCheck(r, s)
        PROVE  SeatsInv'
    <2>1. \E phase \in {"delete", "allocate"} : Turns([phase |-> phase, seat |-> s])
      BY <1>3 DEF HotDesks!DeleteCheck, HotDesks!AllocateCheck
    <2>2. Fewer
      BY <1>3 DEF SeatsInv, HotDesks!TypeOK, HotDesks!DeleteCheck, HotDesks!AllocateCheck
    <2>3. \A phase \in {"delete", "allocate"} : [phase |-> phase, seat |-> s] \in SeatTasks
      BY DEF SeatTasks
    <2> QED
      BY <2>1, <2>2, <2>3, SeatTurn
  <1>4. ASSUME NEW s \in HotDesks!Ids, NEW member \in Members, NEW w \in HotDesks!Windows,
               HotDesks!BookLoad(r, member, s, w)
        PROVE  SeatsInv'
    <2>1. Turns([phase |-> "loaded", seat |-> s, member |-> member, window |-> w])
      BY <1>4 DEF HotDesks!BookLoad
    <2>2. Fewer
      BY <1>4 DEF SeatsInv, HotDesks!TypeOK, HotDesks!BookLoad
    <2>3. [phase |-> "loaded", seat |-> s, member |-> member, window |-> w] \in SeatTasks
      BY DEF SeatTasks
    <2> QED
      BY <2>1, <2>2, <2>3, SeatTurn
  <1>5. ASSUME NEW holder \in SeatHolders, NEW term \in Terms,
               HotDesks!AllocateCommit(r, holder, term)
        PROVE  SeatsInv'
    <2>1. desk[r].seat \in HotDesks!Ids
      BY <1>5, SeatTaskFields DEF HotDesks!AllocateCommit
    <2>2. Fewer
      BY <1>5, <2>1 DEF SeatsInv, HotDesks!TypeOK, HotDesks!AllocateCommit
    <2> QED
      BY <1>5, <2>2, SeatTurn DEF HotDesks!AllocateCommit, HotDesks!Free, SeatTasks
  <1> QED
    BY <1>1, <1>2, <1>3, <1>4, <1>5

\* create_seat_booking looks under the row lock: nobody else has looked at the seat and is not done.
LEMMA SeatLook ==
    ASSUME SeatsInv, NEW r \in Requests, HotDesks!BookCheck(r)
    PROVE  SeatsInv'
  <1>1. /\ desk[r] \in [phase: {"loaded", "checked"}, seat: HotDesks!Ids, member: Members,
                        window: HotDesks!Windows]
        /\ desk \in [Requests -> SeatTasks]
    BY SeatTaskFields DEF HotDesks!BookCheck, SeatsInv
  <1>2. desk' \in [Requests -> SeatTasks]
    BY <1>1 DEF HotDesks!BookCheck, SeatTasks, HotDesks!Free
  <1>3. HotDesks!TypeOK'
    BY <1>1 DEF SeatsInv, HotDesks!TypeOK, HotDesks!BookCheck, HotDesks!Free
  <1>4. CASE HotDesks!Conflict(desk[r].seat, desk[r].member, desk[r].window)
    <2>1. \A q \in Requests : Looked(q)' => desk'[q] = desk[q]
      BY <1>1, <1>4 DEF HotDesks!BookCheck, Looked, HotDesks!Free
    <2>2. seatBookings' \subseteq seatBookings
      BY DEF HotDesks!BookCheck
    <2> QED
      BY <1>2, <1>3, <2>1, <2>2, FewerBookings
  <1>5. CASE ~HotDesks!Conflict(desk[r].seat, desk[r].member, desk[r].window)
    <2>1. /\ desk' = [desk EXCEPT ![r] = [desk[r] EXCEPT !.phase = "checked"]]
          /\ desk'[r].seat = desk[r].seat /\ desk'[r].window = desk[r].window
          /\ \A q \in Requests : q # r => desk'[q] = desk[q]
          /\ seatBookings' = seatBookings
      BY <1>1, <1>5 DEF HotDesks!BookCheck
    <2>2. \A q \in Requests : q # r /\ Looked(q) => desk[q].seat # desk[r].seat
      BY DEF HotDesks!BookCheck, HotDesks!Locked, Looked
    <2>3. LockHeldOnce'
      BY <2>1, <2>2 DEF SeatsInv, LockHeldOnce, Looked
    <2>4. \A b \in seatBookings :
              b.seat = desk[r].seat => ~HotDesks!Overlap(b.window, desk[r].window)
      BY <1>5 DEF HotDesks!Conflict
    <2>5. StillFree'
      BY <2>1, <2>4 DEF SeatsInv, StillFree, Looked
    <2>6. HotDesks!SeatBookedOnce'
      BY <2>1 DEF SeatsInv, HotDesks!SeatBookedOnce
    <2> QED
      BY <1>2, <1>3, <2>3, <2>5, <2>6 DEF SeatsInv
  <1> QED
    BY <1>4, <1>5

\* The booking that is committed overlaps none of its seat, and the requests that have looked did so
\* at other seats.
LEMMA SeatCommit ==
    ASSUME SeatsInv, NEW r \in Requests, HotDesks!BookCommit(r)
    PROVE  SeatsInv'
  <1> DEFINE new == [seat |-> desk[r].seat, member |-> desk[r].member, window |-> desk[r].window,
                     by |-> r]
  <1>1. /\ desk[r] \in [phase: {"loaded", "checked"}, seat: HotDesks!Ids, member: Members,
                        window: HotDesks!Windows]
        /\ desk \in [Requests -> SeatTasks]
        /\ Looked(r)
    BY SeatTaskFields DEF HotDesks!BookCommit, SeatsInv, Looked
  <1>2. /\ desk' \in [Requests -> SeatTasks]
        /\ desk'[r].phase = "free"
        /\ \A q \in Requests : q # r => desk'[q] = desk[q]
    BY <1>1 DEF HotDesks!BookCommit, SeatTasks, HotDesks!Free
  <1>3. HotDesks!TypeOK'
    BY <1>1, <1>2 DEF SeatsInv, HotDesks!TypeOK, HotDesks!BookCommit
  <1>4. seatBookings' \subseteq seatBookings \union {new}
    BY DEF HotDesks!BookCommit
  <1>5. LockHeldOnce'
    BY <1>2 DEF SeatsInv, LockHeldOnce, Looked
  <1>6. \A q \in Requests : q # r /\ Looked(q) => desk[q].seat # new.seat
    BY <1>1 DEF SeatsInv, LockHeldOnce
  <1>7. StillFree'
    BY <1>2, <1>4, <1>6 DEF SeatsInv, StillFree, Looked
  <1>8. \A b \in seatBookings : b.seat = new.seat =>
            ~HotDesks!Overlap(b.window, new.window) /\ ~HotDesks!Overlap(new.window, b.window)
    BY <1>1 DEF SeatsInv, StillFree, HotDesks!Overlap
  <1>9. HotDesks!SeatBookedOnce'
    BY <1>4, <1>8 DEF SeatsInv, HotDesks!SeatBookedOnce
  <1> QED
    BY <1>2, <1>3, <1>5, <1>7, <1>9 DEF SeatsInv

LEMMA SeatsStep == SeatsInv /\ [HotDesks!Next]_seatVars => SeatsInv'
  <1> SUFFICES ASSUME SeatsInv, [HotDesks!Next]_seatVars PROVE SeatsInv'
    OBVIOUS
  <1>1. CASE UNCHANGED seatVars
    BY <1>1 DEF seatVars, SeatsInv, HotDesks!TypeOK, LockHeldOnce, StillFree, Looked,
                HotDesks!SeatBookedOnce
  <1>2. CASE HotDesks!Next
    BY <1>2, SeatEdits, SeatRequests, SeatLook, SeatCommit DEF HotDesks!Next
  <1> QED
    BY <1>1, <1>2

\* However requests that book, cancel, edit, allocate and delete seats overlap, no seat is booked
\* twice at a time (create_seat_booking, under the seat's row lock).
THEOREM SeatsBookedOnce == PremisesSpec => []SeatBookedOnce
  <1>1. PremisesInit => SeatsInv
    BY SeatsInit DEF PremisesInit
  <1>2. [PremisesNext]_premisesVars => [HotDesks!Next]_seatVars
    BY DEF PremisesNext, premisesVars
  <1>3. SeatsInv => SeatBookedOnce
    BY DEF SeatsInv, SeatBookedOnce
  <1> QED
    BY <1>1, <1>2, <1>3, SeatsStep, PTL DEF PremisesSpec
-----------------------------------------------------------------------------
(* Attendance.  The inductive invariant: of a person whose requests did not overlap there *)
(* is one scan in hand at most, and one that found nobody in is still right.              *)

StayRows ==
    [person: People, in: 0..LastHour, out: Presence!Open..LastHour, by: Desks]
OpenRows == [person: People, in: 0..LastHour, out: {Presence!Open}, by: Desks]
Scans == [busy: {TRUE}, person: People, found: SUBSET OpenRows, at: 0..LastHour]

PresenceTypes ==
    /\ hour \in 0..LastHour
    /\ stays \subseteq StayRows
    /\ key \in 0..MaxKeys /\ posters \subseteq 1..MaxKeys
    /\ scans \in [Desks -> Scans \union {Presence!NoScan}]
    /\ hurried \subseteq People

Scanning(d, person) == scans[d].busy /\ scans[d].person = person

\* A scan is of one person, and two of a person are remembered.
OwnStays == \A d \in Desks : scans[d].busy => \A f \in scans[d].found : f.person = scans[d].person
OneScan ==
    \A d, e \in Desks, person \in People :
        d # e /\ Scanning(d, person) /\ Scanning(e, person) => person \in hurried

\* Who was not in when the scan looked has not come in since.
StillOut ==
    \A d \in Desks :
        scans[d].busy /\ scans[d].found = {} /\ scans[d].person \notin hurried =>
            Presence!OpenStays(scans[d].person) = {}

PresenceInv == PresenceTypes /\ OwnStays /\ OneScan /\ StillOut /\ Presence!PresentOnce

LEMMA NoScanIsIdle == ~Presence!NoScan.busy
  BY DEF Presence!NoScan

LEMMA BusyScan ==
    ASSUME NEW t \in Scans \union {Presence!NoScan}, t.busy
    PROVE  /\ t \in Scans /\ t.person \in People /\ t.found \subseteq OpenRows
           /\ t.at \in 0..LastHour
  <1>1. t # Presence!NoScan
    BY NoScanIsIdle
  <1>2. t \in Scans
    BY <1>1
  <1> QED
    BY <1>2 DEF Scans

LEMMA PresenceTyped == PresenceInv => Presence!TypeOK
  <1> SUFFICES ASSUME PresenceInv PROVE Presence!TypeOK
    OBVIOUS
  <1>1. \A d \in Desks : scans[d].busy =>
            scans[d].person \in People /\ scans[d].found \subseteq OpenRows
    BY BusyScan DEF PresenceInv, PresenceTypes
  <1> QED
    BY <1>1 DEF PresenceInv, PresenceTypes, OpenRows, StayRows, Presence!TypeOK

LEMMA PresenceInit == Presence!Init => PresenceInv
  <1> SUFFICES ASSUME Presence!Init PROVE PresenceInv
    OBVIOUS
  <1>1. PresenceTypes
    BY AttendanceBounds DEF Presence!Init, PresenceTypes, Presence!NoScan
  <1>2. OwnStays /\ OneScan /\ StillOut
    BY DEF Presence!Init, Presence!NoScan, OwnStays, OneScan, StillOut, Scanning
  <1>3. Presence!PresentOnce
    BY DEF Presence!Init, Presence!PresentOnce, Presence!InNow
  <1> QED
    BY <1>1, <1>2, <1>3 DEF PresenceInv

\* The list of who is in is made of the stays that a scan would find.
LEMMA InNowIsOpen ==
    ASSUME PresenceTypes
    PROVE  /\ \A s : s \in Presence!InNow <=> s \in stays /\ s \in Presence!OpenStays(s.person)
           /\ \A person : \A s \in Presence!OpenStays(person) :
                 s \in stays /\ s.person = person /\ s.out = Presence!Open /\ s \in OpenRows
  BY DEF Presence!InNow, Presence!OpenStays, Presence!Fresh, PresenceTypes, StayRows, OpenRows

\* Nothing that is open comes to be: stays are closed, they grow old, or nothing happens to them.
LEMMA FewerStays ==
    ASSUME PresenceInv, PresenceTypes', OwnStays', OneScan', hurried \subseteq hurried',
           \A s \in stays' : s.out = Presence!Open => s \in stays,
           hour' >= hour,
           \A d \in Desks : scans[d]'.busy =>
              \/ scans[d]' = scans[d]
              \/ scans[d]'.found = {} /\ scans[d]'.person \notin hurried =>
                     Presence!OpenStays(scans[d]'.person) = {}
    PROVE  PresenceInv'
  <1>1. \A person : Presence!OpenStays(person)' \subseteq Presence!OpenStays(person)
    BY AttendanceBounds
       DEF PresenceInv, PresenceTypes, StayRows, Presence!OpenStays, Presence!Fresh
  <1>2. StillOut'
    BY <1>1 DEF PresenceInv, StillOut
  <1>3. Presence!InNow' \subseteq Presence!InNow
    BY AttendanceBounds DEF PresenceInv, PresenceTypes, StayRows, Presence!InNow
  <1>4. Presence!PresentOnce'
    BY <1>3 DEF PresenceInv, Presence!PresentOnce
  <1> QED
    BY <1>2, <1>4 DEF PresenceInv

LEMMA ScanBegins ==
    ASSUME PresenceInv, NEW d \in Desks, NEW person \in People, NEW found \in SUBSET OpenRows,
           \A f \in found : f.person = person,
           found = {} /\ person \notin hurried => Presence!OpenStays(person) = {},
           Presence!Begin(d, person, found)
    PROVE  PresenceInv'
  <1>1. /\ scans' = [scans EXCEPT ![d] =
                      [busy |-> TRUE, person |-> person, found |-> found, at |-> hour]]
        /\ ~scans[d].busy
        /\ hour' = hour /\ stays' = stays /\ key' = key /\ posters' = posters
        /\ hurried \subseteq hurried' /\ hurried' \subseteq hurried \union {person}
        /\ Presence!InHand(person) => person \in hurried'
    BY DEF Presence!Begin
  <1>2. PresenceTypes'
    BY <1>1 DEF PresenceInv, PresenceTypes, Scans
  <1>3. /\ scans'[d] = [busy |-> TRUE, person |-> person, found |-> found, at |-> hour]
        /\ \A e \in Desks : e # d => scans'[e] = scans[e]
    BY <1>1 DEF PresenceInv, PresenceTypes
  <1>4. OwnStays'
    BY <1>3 DEF PresenceInv, OwnStays
  <1>5. OneScan'
    BY <1>1, <1>3 DEF PresenceInv, OneScan, Scanning, Presence!InHand
  <1>6. \A e \in Desks : scans'[e].busy =>
            \/ scans'[e] = scans[e]
            \/ scans'[e].found = {} /\ scans'[e].person \notin hurried =>
                   Presence!OpenStays(scans'[e].person) = {}
    BY <1>3
  <1> QED
    BY <1>1, <1>2, <1>4, <1>5, <1>6, FewerStays DEF PresenceInv, PresenceTypes

LEMMA Toggles ==
    ASSUME PresenceInv, NEW d \in Desks, NEW person \in People, Presence!Toggle(d, person)
    PROVE  PresenceInv'
  <1>1. CASE Presence!OpenRecord(person) = {}
    <2>1. person \notin hurried =>
              \A s, t \in Presence!OpenStays(person) : s = t
      BY InNowIsOpen DEF PresenceInv, Presence!PresentOnce
    <2>2. person \notin hurried => Presence!OpenStays(person) = {}
      <3> SUFFICES ASSUME person \notin hurried, NEW s \in Presence!OpenStays(person) PROVE FALSE
        OBVIOUS
      <3>1. s.in \in Int
        BY InNowIsOpen, AttendanceBounds DEF OpenRows, PresenceInv
      <3> QED
        BY <1>1, <2>1, <3>1 DEF Presence!OpenRecord
    <2> QED
      BY <1>1, <2>2, ScanBegins DEF Presence!Toggle
  <1>2. CASE Presence!OpenRecord(person) # {}
    <2>1. PICK s \in Presence!OpenRecord(person) : Presence!Begin(d, person, {s})
      BY <1>2 DEF Presence!Toggle
    <2>2. s.person = person /\ s \in OpenRows
      BY InNowIsOpen DEF Presence!OpenRecord, PresenceInv
    <2> QED
      BY <2>1, <2>2, ScanBegins
  <1> QED
    BY <1>1, <1>2

\* The handlers that look for an open stay, and the one that is given it.
LEMMA ScanStarts ==
    ASSUME PresenceInv, NEW d \in Desks,
           \/ \E person \in People :
                \/ Presence!MarkByHand(d, person) \/ Presence!ReceptionScans(d, person)
                \/ Presence!MemberScan(d, person) \/ Presence!TeamToggles(d, person)
                \/ Presence!SelfScan(d, person)
           \/ \E s \in stays : Presence!CheckOut(d, s)
    PROVE  PresenceInv'
  <1>1. ASSUME NEW s \in stays, Presence!CheckOut(d, s) PROVE PresenceInv'
    <2>1. s \in OpenRows
      BY <1>1 DEF PresenceInv, PresenceTypes, StayRows, OpenRows, Presence!CheckOut
    <2>2. s.person \in People /\ {s} \in SUBSET OpenRows /\ \A f \in {s} : f.person = s.person
      BY <2>1 DEF OpenRows
    <2> QED
      BY <1>1, <2>2, ScanBegins DEF Presence!CheckOut
  <1> QED
    BY <1>1, Toggles
       DEF Presence!MarkByHand, Presence!ReceptionScans, Presence!MemberScan, Presence!TeamToggles,
           Presence!SelfScan

\* A scan that found an open stay closes it.
LEMMA ScanCloses ==
    ASSUME PresenceInv, NEW d \in Desks, Presence!Commit(d), scans[d].found # {}
    PROVE  PresenceInv'
  <1>1. scans[d].at \in 0..LastHour /\ scans[d].at \in Nat
    BY BusyScan, AttendanceBounds DEF PresenceInv, PresenceTypes, Presence!Commit
  <1>2. /\ scans' = [scans EXCEPT ![d] = Presence!NoScan]
        /\ hour' = hour /\ key' = key /\ posters' = posters /\ hurried' = hurried
        /\ \A s \in stays' : s \in stays \/ \E t \in stays : s = [t EXCEPT !.out = scans[d].at]
    BY DEF Presence!Commit
  <1>3. \A t \in stays : /\ [t EXCEPT !.out = scans[d].at] \in StayRows
                         /\ [t EXCEPT !.out = scans[d].at].out # Presence!Open
    BY <1>1, AttendanceBounds DEF PresenceInv, PresenceTypes, StayRows, Presence!Open
  <1>4. PresenceTypes'
    BY <1>2, <1>3 DEF PresenceInv, PresenceTypes
  <1>5. /\ \A e \in Desks : scans'[e].busy => scans'[e] = scans[e]
        /\ \A s \in stays' : s.out = Presence!Open => s \in stays
    BY <1>2, <1>3 DEF PresenceInv, PresenceTypes, Presence!NoScan
  <1>6. OwnStays' /\ OneScan'
    BY <1>2, <1>5 DEF PresenceInv, OwnStays, OneScan, Scanning
  <1> QED
    BY <1>2, <1>4, <1>5, <1>6, FewerStays, AttendanceBounds DEF PresenceInv, PresenceTypes

\* A scan that found nobody in opens a stay: of a person whose requests did not overlap it is the
\* only one.
LEMMA ScanOpens ==
    ASSUME PresenceInv, NEW d \in Desks, Presence!Commit(d), scans[d].found = {}
    PROVE  PresenceInv'
  <1> DEFINE new == [person |-> scans[d].person, in |-> scans[d].at, out |-> Presence!Open,
                     by |-> d]
  <1>0. scans[d].busy /\ scans[d].person \in People /\ scans[d].at \in 0..LastHour
    BY BusyScan DEF PresenceInv, PresenceTypes, Presence!Commit
  <1>1. new \in StayRows
    BY <1>0, AttendanceBounds DEF StayRows, Presence!Open
  <1>2. /\ scans' = [scans EXCEPT ![d] = Presence!NoScan]
        /\ hour' = hour /\ key' = key /\ posters' = posters /\ hurried' = hurried
        /\ stays' = stays \union {new}
    BY DEF Presence!Commit
  <1>3. PresenceTypes'
    BY <1>1, <1>2 DEF PresenceInv, PresenceTypes
  <1>4. \A e \in Desks : scans'[e].busy => scans'[e] = scans[e] /\ e # d
    BY <1>2 DEF PresenceInv, PresenceTypes, Presence!NoScan
  <1>5. OwnStays' /\ OneScan'
    BY <1>2, <1>4 DEF PresenceInv, OwnStays, OneScan, Scanning
  <1>6. \A person \in People \ {scans[d].person} :
            Presence!OpenStays(person)' = Presence!OpenStays(person)
    BY <1>2 DEF Presence!OpenStays, Presence!Fresh
  <1>7. StillOut'
    <2> SUFFICES ASSUME NEW e \in Desks, scans[e]'.busy, scans[e]'.found = {},
                        scans[e]'.person \notin hurried
                 PROVE  Presence!OpenStays(scans[e].person)' = {}
      BY <1>2 DEF StillOut
    <2>1. scans[e]' = scans[e] /\ e # d /\ scans[e].person \in People
      BY <1>4, BusyScan DEF PresenceInv, PresenceTypes
    <2>2. scans[e].person # scans[d].person
      BY <1>0, <2>1 DEF PresenceInv, OneScan, Scanning
    <2> QED
      BY <1>6, <2>1, <2>2 DEF PresenceInv, StillOut
  <1>8. Presence!PresentOnce'
    <2> SUFFICES ASSUME NEW s \in Presence!InNow', NEW t \in Presence!InNow', s # t,
                        s.person = t.person, s.person \notin hurried
                 PROVE  FALSE
      BY <1>2 DEF Presence!PresentOnce
    <2>1. Presence!InNow' \subseteq Presence!InNow \union {new}
      BY <1>2 DEF Presence!InNow
    <2>2. scans[d].person \notin hurried => Presence!OpenStays(scans[d].person) = {}
      BY <1>0 DEF PresenceInv, StillOut
    <2>3. ~(s \in Presence!InNow /\ t \in Presence!InNow)
      BY DEF PresenceInv, Presence!PresentOnce
    <2>4. \A u \in Presence!InNow : u \in Presence!OpenStays(u.person)
      BY InNowIsOpen DEF PresenceInv
    <2> QED
      BY <2>1, <2>2, <2>3, <2>4
  <1> QED
    BY <1>3, <1>5, <1>7, <1>8 DEF PresenceInv

LEMMA PresenceStep == PresenceInv /\ [Presence!Next]_presenceVars => PresenceInv'
  <1> SUFFICES ASSUME PresenceInv, [Presence!Next]_presenceVars PROVE PresenceInv'
    OBVIOUS
  <1>1. CASE \/ Presence!ShowCode \/ Presence!RegenerateKey \/ Presence!Tick
             \/ UNCHANGED presenceVars
    <2>0. stays' = stays /\ hurried' = hurried /\ scans' = scans
      BY <1>1 DEF presenceVars, Presence!ShowCode, Presence!RegenerateKey, Presence!Tick
    <2>1. hour' \in 0..LastHour /\ hour' >= hour
      BY <1>1, AttendanceBounds
         DEF PresenceInv, PresenceTypes, presenceVars, Presence!ShowCode, Presence!RegenerateKey,
             Presence!Tick
    <2>2. key' \in 0..MaxKeys /\ posters' \subseteq 1..MaxKeys
      <3>1. key \in 0..MaxKeys /\ posters \subseteq 1..MaxKeys
        BY DEF PresenceInv, PresenceTypes
      <3>2. CASE Presence!ShowCode
        <4>1. key' \in 1..MaxKeys
          BY <3>1, <3>2, AttendanceBounds DEF Presence!ShowCode
        <4> QED
          BY <3>1, <3>2, <4>1 DEF Presence!ShowCode
      <3>3. CASE Presence!RegenerateKey
        BY <3>1, <3>3, AttendanceBounds DEF Presence!RegenerateKey
      <3> QED
        BY <1>1, <3>1, <3>2, <3>3 DEF presenceVars, Presence!Tick
    <2>3. PresenceTypes'
      BY <2>0, <2>1, <2>2 DEF PresenceInv, PresenceTypes
    <2>4. OwnStays' /\ OneScan'
      BY <2>0 DEF PresenceInv, OwnStays, OneScan, Scanning
    <2> QED
      BY <2>0, <2>1, <2>3, <2>4, FewerStays
  <1>2. ASSUME NEW d \in Desks, Presence!Fail(d) PROVE PresenceInv'
    <2>1. /\ PresenceTypes' /\ stays' = stays /\ hurried' = hurried /\ hour' >= hour
          /\ \A e \in Desks : scans'[e].busy => scans'[e] = scans[e]
      BY <1>2, AttendanceBounds DEF PresenceInv, PresenceTypes, Presence!Fail, Presence!NoScan
    <2>2. OwnStays' /\ OneScan'
      BY <2>1 DEF PresenceInv, OwnStays, OneScan, Scanning
    <2> QED
      BY <2>1, <2>2, FewerStays
  <1> QED
    BY <1>1, <1>2, ScanStarts, ScanCloses, ScanOpens DEF Presence!Next

\* Through scans by people, reception and the team, and stays closed by hand or never, nobody is
\* listed as in twice whose requests did not overlap (open_record, toggle).
THEOREM NobodyIsInTwice == PremisesSpec => []PresentOnce
  <1>1. PremisesInit => PresenceInv
    BY PresenceInit DEF PremisesInit
  <1>2. [PremisesNext]_premisesVars => [Presence!Next]_presenceVars
    BY DEF PremisesNext, premisesVars
  <1>3. PresenceInv => PresentOnce
    BY PresenceTyped DEF PresenceInv, PresentOnce
  <1> QED
    BY <1>1, <1>2, <1>3, PresenceStep, PTL DEF PremisesSpec
-----------------------------------------------------------------------------
(* The front desk.  The inductive invariant: what a clerk has in hand is a row of the same *)
(* kind, with a change that the handlers make; and a locker that one clerk at a time has   *)
(* dealt with is in hand as it is.                                                         *)

ParcelRows == [kind: {"parcel"}, status: {"waiting", "collected", "returned"}, told: BOOLEAN,
               by: SUBSET Clerks]
VisitorRows == [kind: {"visitor"}, status: {"pending", "checked_in", "checked_out"},
                arrived: BOOLEAN, left: BOOLEAN]
LockerRows == [kind: {"locker"}, status: {"available", "assigned"},
               user: LockerUsers \union {Reception!Nobody}, since: SUBSET Reception!Dates]
DayPassRows == [kind: {"day pass"}, status: {"issued", "checked_in"}, for: Reception!Dates]
GuestPassRows == [kind: {"guest pass"}, status: {"issued"}, for: Reception!Dates]
ReferralRows == [kind: {"referral"}, status: {"pending"}]
ProfileRows == [kind: {"profile"}, public: BOOLEAN]

DeskRows == ParcelRows \union VisitorRows \union LockerRows \union DayPassRows
            \union GuestPassRows \union ReferralRows \union ProfileRows
            \union {Reception!PrintingEntry} \union {Reception!NoRow}

Hands == [busy: {TRUE}, read: DeskRows, new: DeskRows]

DeskTypes ==
    /\ row \in DeskRows
    /\ date \in Reception!Dates
    /\ clerks \in [Clerks -> Hands \union {Reception!Idle}]
    /\ gone \in BOOLEAN /\ crossed \in BOOLEAN

HasInHand(c) == clerks[c].busy

\* What is in hand is of the kind of the row, which there is.
SameKind ==
    \A c \in Clerks : HasInHand(c) =>
        row # Reception!NoRow /\ clerks[c].read.kind = row.kind /\ clerks[c].new.kind = row.kind

\* A parcel's status is left or the parcel is handed over, and one that has left stays away.
ParcelLeavesOnce ==
    /\ \A c \in Clerks : HasInHand(c) /\ row.kind = "parcel" =>
          \/ clerks[c].new.status \in {"collected", "returned"}
          \/ clerks[c].new.status = clerks[c].read.status
    /\ gone => row.kind = "parcel" /\ row.status \in {"collected", "returned"}

AssignedToSomebody(locker) == locker.status = "assigned" <=> locker.user # Reception!Nobody

\* A locker that no two clerks had in hand.
LockerInOneHand ==
    row.kind = "locker" /\ ~crossed =>
        /\ AssignedToSomebody(row)
        /\ \A c \in Clerks : HasInHand(c) =>
              clerks[c].read = row /\ AssignedToSomebody(clerks[c].new)
        /\ \A c, d \in Clerks : HasInHand(c) /\ HasInHand(d) => c = d

FrontInv == DeskTypes /\ SameKind /\ ParcelLeavesOnce /\ LockerInOneHand

LEMMA IdleHand == ~Reception!Idle.busy
  BY DEF Reception!Idle

LEMMA FullHand ==
    ASSUME DeskTypes, NEW c \in Clerks, HasInHand(c)
    PROVE  clerks[c] \in Hands /\ clerks[c].read \in DeskRows /\ clerks[c].new \in DeskRows
  <1>1. clerks[c] # Reception!Idle
    BY IdleHand DEF HasInHand
  <1>2. clerks[c] \in Hands
    BY <1>1 DEF DeskTypes
  <1> QED
    BY <1>2 DEF Hands

LEMMA KindOfRow ==
    ASSUME NEW r \in DeskRows
    PROVE  /\ r.kind = "parcel" => r \in ParcelRows
           /\ r.kind = "visitor" => r \in VisitorRows
           /\ r.kind = "locker" => r \in LockerRows
           /\ r.kind = "day pass" => r \in DayPassRows
           /\ r.kind = "guest pass" => r \in GuestPassRows
           /\ r.kind = "referral" => r \in ReferralRows
           /\ r.kind = "profile" => r \in ProfileRows
           /\ r.kind = "printing" => r = Reception!PrintingEntry
           /\ r.kind = "none" => r = Reception!NoRow
           /\ r.kind \in {"parcel", "visitor", "locker", "day pass", "guest pass", "referral",
                          "profile", "printing", "none"}
  <1>1. r \in ParcelRows => r.kind = "parcel"
    BY DEF ParcelRows
  <1>2. r \in VisitorRows => r.kind = "visitor"
    BY DEF VisitorRows
  <1>3. r \in LockerRows => r.kind = "locker"
    BY DEF LockerRows
  <1>4. r \in DayPassRows => r.kind = "day pass"
    BY DEF DayPassRows
  <1>5. r \in GuestPassRows => r.kind = "guest pass"
    BY DEF GuestPassRows
  <1>6. r \in ReferralRows => r.kind = "referral"
    BY DEF ReferralRows
  <1>7. r \in ProfileRows => r.kind = "profile"
    BY DEF ProfileRows
  <1>8. r = Reception!PrintingEntry => r.kind = "printing"
    BY DEF Reception!PrintingEntry
  <1>9. r = Reception!NoRow => r.kind = "none"
    BY DEF Reception!NoRow
  <1>10. \/ r \in ParcelRows \/ r \in VisitorRows \/ r \in LockerRows \/ r \in DayPassRows
         \/ r \in GuestPassRows \/ r \in ReferralRows \/ r \in ProfileRows
         \/ r = Reception!PrintingEntry \/ r = Reception!NoRow
    BY DEF DeskRows
  <1> QED
    BY <1>1, <1>2, <1>3, <1>4, <1>5, <1>6, <1>7, <1>8, <1>9, <1>10

LEMMA NoRowOfAnyKind ==
    ASSUME NEW r \in DeskRows
    PROVE  r.kind = "none" <=> r = Reception!NoRow
  <1>1. Reception!NoRow.kind = "none"
    BY DEF Reception!NoRow
  <1> QED
    BY <1>1, KindOfRow

\* A transaction that writes what it has changed of a row leaves a row of the same kind.
LEMMA FlushKeepsKind ==
    ASSUME NEW at \in DeskRows, NEW read \in DeskRows, NEW new \in DeskRows,
           read.kind = at.kind, new.kind = at.kind
    PROVE  /\ Reception!Flushed(at, read, new) \in DeskRows
           /\ Reception!Flushed(at, read, new).kind = at.kind
  <1> DEFINE to == Reception!Flushed(at, read, new)
  <1>1. CASE at.kind = "parcel"
    BY <1>1, KindOfRow DEF Reception!Flushed, ParcelRows, DeskRows
  <1>2. CASE at.kind = "visitor"
    BY <1>2, KindOfRow DEF Reception!Flushed, VisitorRows, DeskRows
  <1>3. CASE at.kind = "locker"
    BY <1>3, KindOfRow DEF Reception!Flushed, LockerRows, DeskRows
  <1>4. CASE at.kind = "day pass"
    BY <1>4, KindOfRow DEF Reception!Flushed, DayPassRows, DeskRows
  <1>5. CASE at.kind = "guest pass"
    BY <1>5, KindOfRow DEF Reception!Flushed, GuestPassRows, DeskRows
  <1>6. CASE at.kind = "referral"
    BY <1>6, KindOfRow DEF Reception!Flushed, ReferralRows, DeskRows
  <1>7. CASE at.kind = "profile"
    BY <1>7, KindOfRow DEF Reception!Flushed, ProfileRows, DeskRows
  <1>8. CASE at.kind \in {"printing", "none"}
    BY <1>8, KindOfRow DEF Reception!Flushed, Reception!PrintingEntry, Reception!NoRow, DeskRows
  <1> QED
    BY <1>1, <1>2, <1>3, <1>4, <1>5, <1>6, <1>7, <1>8, KindOfRow

LEMMA FlushedStatus ==
    ASSUME NEW at \in DeskRows, NEW read, NEW new, at.kind = "parcel"
    PROVE  Reception!Flushed(at, read, new).status =
              IF new.status = read.status THEN at.status ELSE new.status
  BY KindOfRow DEF Reception!Flushed, ParcelRows

\* What was read unchanged is replaced by what was made of it.
LEMMA FlushedOverItself ==
    ASSUME NEW at \in DeskRows, NEW new \in DeskRows, at.kind = "locker", new.kind = "locker"
    PROVE  Reception!Flushed(at, at, new) = new
  <1> DEFINE to == Reception!Flushed(at, at, new)
  <1>1. /\ at \in LockerRows /\ new \in LockerRows
        /\ DOMAIN at = {"kind", "status", "user", "since"}
        /\ DOMAIN new = {"kind", "status", "user", "since"}
    BY KindOfRow DEF LockerRows
  <1>2. \A col \in DOMAIN at : (IF new[col] = at[col] THEN at[col] ELSE new[col]) = new[col]
    OBVIOUS
  <1>3. to = [col \in DOMAIN at |-> new[col]]
    BY <1>2, Zenon DEF Reception!Flushed
  <1>4. new = [col \in DOMAIN new |-> new[col]]
    BY <1>1 DEF LockerRows
  <1> QED
    BY <1>1, <1>3, <1>4

LEMMA FrontInit == Reception!Init => FrontInv
  <1> SUFFICES ASSUME Reception!Init PROVE FrontInv
    OBVIOUS
  <1>1. \A c \in Clerks : ~HasInHand(c)
    BY IdleHand DEF Reception!Init, HasInHand
  <1>2. row \in DeskRows /\ row.kind = "none" /\ ~gone /\ crossed \in BOOLEAN
    BY DEF Reception!Init, DeskRows, Reception!NoRow
  <1>3. date \in Reception!Dates
    BY DatesGoOn DEF Reception!Init, Reception!Dates
  <1>4. clerks \in [Clerks -> Hands \union {Reception!Idle}]
    BY DEF Reception!Init
  <1> QED
    BY <1>1, <1>2, <1>3, <1>4
       DEF FrontInv, DeskTypes, SameKind, ParcelLeavesOnce, LockerInOneHand, Reception!Init

LEMMA NewRow ==
    ASSUME FrontInv, NEW new \in DeskRows, Reception!Add(new),
           new.kind = "locker" => AssignedToSomebody(new)
    PROVE  FrontInv'
  <1>1. \A c \in Clerks : ~HasInHand(c)
    BY DEF FrontInv, SameKind, Reception!Add
  <1>2. ~gone
    BY DEF FrontInv, ParcelLeavesOnce, Reception!Add, Reception!NoRow
  <1>3. \A c \in Clerks : ~HasInHand(c)'
    BY <1>1 DEF HasInHand, Reception!Add
  <1>4. DeskTypes'
    BY DEF FrontInv, DeskTypes, Reception!Add
  <1>5. row' = new /\ ~gone'
    BY <1>2 DEF Reception!Add
  <1>6. SameKind' /\ ParcelLeavesOnce'
    BY <1>3, <1>5 DEF SameKind, ParcelLeavesOnce
  <1>7. LockerInOneHand'
    BY <1>3, <1>5 DEF LockerInOneHand, AssignedToSomebody
  <1> QED
    BY <1>4, <1>6, <1>7 DEF FrontInv

\* What a handler has to see to: it has a change of a row of this kind in hand.
LEMMA RowInHand ==
    ASSUME FrontInv, NEW c \in Clerks, NEW new \in DeskRows, Reception!Handle(c, new),
           new.kind = row.kind, row.kind # "none",
           row.kind = "parcel" =>
               new.status \in {"collected", "returned"} \/ new.status = row.status,
           row.kind = "locker" => AssignedToSomebody(new)
    PROVE  FrontInv'
  <1> DEFINE hand == [busy |-> TRUE, read |-> row, new |-> new]
  <1>1. hand \in Hands
    BY DEF FrontInv, DeskTypes, Hands
  <1>2. /\ clerks' = [clerks EXCEPT ![c] = hand] /\ row' = row /\ gone' = gone /\ date' = date
        /\ crossed' = (crossed \/ \E d \in Clerks : HasInHand(d))
    BY DEF Reception!Handle, HasInHand
  <1>3. DeskTypes'
    BY <1>1, <1>2 DEF FrontInv, DeskTypes
  <1>4. /\ clerks'[c] = hand
        /\ \A d \in Clerks \ {c} : clerks'[d] = clerks[d]
    BY <1>2 DEF FrontInv, DeskTypes
  <1>5. SameKind'
    BY <1>2, <1>4 DEF FrontInv, SameKind, HasInHand, Reception!NoRow
  <1>6. ParcelLeavesOnce'
    BY <1>2, <1>4 DEF FrontInv, ParcelLeavesOnce, HasInHand
  <1>7. LockerInOneHand'
    <2> SUFFICES ASSUME row.kind = "locker", ~crossed' PROVE LockerInOneHand'
      BY <1>2 DEF LockerInOneHand
    <2>1. ~crossed /\ \A d \in Clerks : ~HasInHand(d)
      BY <1>2
    <2>2. \A d \in Clerks : HasInHand(d)' => d = c
      BY <2>1, <1>4 DEF HasInHand
    <2>3. AssignedToSomebody(row)' /\ AssignedToSomebody(clerks'[c].new)
      BY <2>1, <1>2, <1>4 DEF FrontInv, LockerInOneHand, AssignedToSomebody
    <2>4. clerks'[c].read = row'
      BY <1>2, <1>4
    <2> QED
      BY <2>2, <2>3, <2>4 DEF LockerInOneHand, AssignedToSomebody
  <1> QED
    BY <1>3, <1>5, <1>6, <1>7 DEF FrontInv

LEMMA DeskCommits ==
    ASSUME FrontInv, NEW c \in Clerks, Reception!Commit(c)
    PROVE  FrontInv'
  <1> DEFINE read == clerks[c].read
             new == clerks[c].new
  <1>1. /\ HasInHand(c) /\ row' = Reception!Flushed(row, read, new)
        /\ gone' = (gone \/ (row.kind = "parcel" /\ row'.status # "waiting"))
        /\ clerks' = [clerks EXCEPT ![c] = Reception!Idle] /\ crossed' = crossed /\ date' = date
    BY DEF Reception!Commit, HasInHand
  <1>2. /\ row \in DeskRows /\ read \in DeskRows /\ new \in DeskRows
        /\ row # Reception!NoRow /\ read.kind = row.kind /\ new.kind = row.kind
    BY <1>1, FullHand DEF FrontInv, SameKind, DeskTypes
  <1>3. row' \in DeskRows /\ row'.kind = row.kind
    BY <1>1, <1>2, FlushKeepsKind
  <1>4. ~HasInHand(c)' /\ \A d \in Clerks \ {c} : clerks'[d] = clerks[d]
    BY <1>1, IdleHand DEF FrontInv, DeskTypes, HasInHand
  <1>5. clerks' \in [Clerks -> Hands \union {Reception!Idle}]
    BY <1>1 DEF FrontInv, DeskTypes
  <1>6. gone' \in BOOLEAN
    BY <1>1 DEF FrontInv, DeskTypes
  <1>7. DeskTypes'
    BY <1>1, <1>3, <1>5, <1>6 DEF FrontInv, DeskTypes
  <1>8. row' # Reception!NoRow
    BY <1>2, <1>3, NoRowOfAnyKind
  <1>9. SameKind'
    BY <1>3, <1>4, <1>8 DEF FrontInv, SameKind, HasInHand
  <1>10. ParcelLeavesOnce'
    <2>1. CASE row.kind = "parcel"
      <3>1. row'.status = IF new.status = read.status THEN row.status ELSE new.status
        BY <1>1, <1>2, <2>1, FlushedStatus
      <3>2. new.status \in {"collected", "returned"} \/ new.status = read.status
        BY <1>1, <2>1 DEF FrontInv, ParcelLeavesOnce
      <3>3. row'.status \in {"waiting", "collected", "returned"}
        BY <1>3, <2>1, KindOfRow DEF ParcelRows
      <3>4. gone => row'.status \in {"collected", "returned"}
        BY <3>1, <3>2 DEF FrontInv, ParcelLeavesOnce
      <3> QED
        BY <1>1, <1>3, <1>4, <2>1, <3>3, <3>4 DEF FrontInv, ParcelLeavesOnce, HasInHand
    <2>2. CASE row.kind # "parcel"
      BY <1>1, <1>3, <2>2 DEF FrontInv, ParcelLeavesOnce
    <2> QED
      BY <2>1, <2>2
  <1>11. LockerInOneHand'
    <2> SUFFICES ASSUME row.kind = "locker", ~crossed PROVE LockerInOneHand'
      BY <1>1, <1>3 DEF LockerInOneHand
    <2>1. /\ read = row /\ AssignedToSomebody(new)
          /\ \A d \in Clerks : HasInHand(d) => d = c
      BY <1>1 DEF FrontInv, LockerInOneHand
    <2>2. row' = new
      BY <1>1, <1>2, <2>1, FlushedOverItself
    <2>3. \A d \in Clerks : ~HasInHand(d)'
      BY <1>4, <2>1 DEF HasInHand
    <2> QED
      BY <2>1, <2>2, <2>3 DEF LockerInOneHand, AssignedToSomebody
  <1> QED
    BY <1>7, <1>9, <1>10, <1>11 DEF FrontInv

LEMMA DeskFails ==
    ASSUME FrontInv, NEW c \in Clerks, Reception!Fail(c)
    PROVE  FrontInv'
  <1>1. /\ clerks' = [clerks EXCEPT ![c] = Reception!Idle]
        /\ UNCHANGED <<row, date, gone, crossed>>
    BY DEF Reception!Fail
  <1>2. \A d \in Clerks : HasInHand(d)' => HasInHand(d) /\ clerks'[d] = clerks[d]
    BY <1>1, IdleHand DEF FrontInv, DeskTypes, HasInHand
  <1>3. DeskTypes'
    BY <1>1 DEF FrontInv, DeskTypes
  <1>4. SameKind' /\ ParcelLeavesOnce'
    BY <1>1, <1>2 DEF FrontInv, SameKind, ParcelLeavesOnce
  <1>5. LockerInOneHand'
    BY <1>1, <1>2 DEF FrontInv, LockerInOneHand, AssignedToSomebody
  <1> QED
    BY <1>3, <1>4, <1>5 DEF FrontInv

\* The rows that are made.
LEMMA RowsMade ==
    /\ \A told \in BOOLEAN : Reception!Parcel(told) \in ParcelRows
    /\ Reception!Visitor \in VisitorRows /\ Reception!Locker \in LockerRows
    /\ \A day \in Reception!Dates :
          Reception!DayPass(day) \in DayPassRows /\ Reception!GuestPass(day) \in GuestPassRows
    /\ Reception!Referral \in ReferralRows /\ Reception!Profile \in ProfileRows
    /\ AssignedToSomebody(Reception!Locker)
  <1>1. \A told \in BOOLEAN : Reception!Parcel(told) \in ParcelRows
    BY DEF Reception!Parcel, ParcelRows
  <1>2. Reception!Visitor \in VisitorRows /\ Reception!Locker \in LockerRows
    BY DEF Reception!Visitor, VisitorRows, Reception!Locker, LockerRows
  <1>3. \A day \in Reception!Dates :
          Reception!DayPass(day) \in DayPassRows /\ Reception!GuestPass(day) \in GuestPassRows
    BY DEF Reception!DayPass, DayPassRows, Reception!GuestPass, GuestPassRows
  <1>4. Reception!Referral \in ReferralRows /\ Reception!Profile \in ProfileRows
    BY DEF Reception!Referral, ReferralRows, Reception!Profile, ProfileRows
  <1>5. AssignedToSomebody(Reception!Locker)
    BY DEF AssignedToSomebody, Reception!Locker
  <1> QED
    BY <1>1, <1>2, <1>3, <1>4, <1>5

LEMMA RowsAreMade ==
    ASSUME FrontInv,
           \/ Reception!ParcelArrives \/ Reception!RegisterVisitor \/ Reception!AddLocker
           \/ Reception!Refer \/ Reception!AdjustPrinting \/ Reception!IssueDayPass
           \/ Reception!IssueGuestPass \/ Reception!OpenProfile
    PROVE  FrontInv'
  <1>1. PICK new \in DeskRows :
           Reception!Add(new) /\ (new.kind = "locker" => AssignedToSomebody(new))
    <2>1. CASE Reception!ParcelArrives
      BY <2>1, RowsMade DEF Reception!ParcelArrives, Reception!Mailed, DeskRows, ParcelRows
    <2>2. CASE Reception!RegisterVisitor
      BY <2>2, RowsMade DEF Reception!RegisterVisitor, DeskRows, VisitorRows
    <2>3. CASE Reception!AddLocker
      BY <2>3, RowsMade DEF Reception!AddLocker, DeskRows
    <2>4. CASE Reception!Refer
      BY <2>4, RowsMade DEF Reception!Refer, DeskRows, ReferralRows
    <2>5. CASE Reception!AdjustPrinting
      BY <2>5 DEF Reception!AdjustPrinting, DeskRows, Reception!PrintingEntry
    <2>6. CASE Reception!IssueDayPass
      BY <2>6, RowsMade DEF Reception!IssueDayPass, DeskRows, DayPassRows
    <2>7. CASE Reception!IssueGuestPass
      BY <2>7, RowsMade DEF Reception!IssueGuestPass, DeskRows, GuestPassRows
    <2>8. CASE Reception!OpenProfile
      BY <2>8, RowsMade DEF Reception!OpenProfile, DeskRows, ProfileRows
    <2> QED
      BY <2>1, <2>2, <2>3, <2>4, <2>5, <2>6, <2>7, <2>8
  <1> QED
    BY <1>1, NewRow

LEMMA RowsAreHandled ==
    ASSUME FrontInv, NEW c \in Clerks,
           \/ Reception!HandOver(c) \/ Reception!Remind(c) \/ Reception!VisitorCheckIn(c)
           \/ Reception!VisitorCheckOut(c) \/ Reception!ReleaseLocker(c) \/ Reception!Admit(c)
           \/ \E person \in LockerUsers : Reception!AssignLocker(c, person)
           \/ \E public \in BOOLEAN : Reception!EditProfile(c, public)
    PROVE  FrontInv'
  <1> USE DEF FrontInv, DeskTypes
  <1> DEFINE Handled(new) ==
        /\ Reception!Handle(c, new) /\ new.kind = row.kind /\ row.kind # "none"
        /\ row.kind = "parcel" =>
              new.status \in {"collected", "returned"} \/ new.status = row.status
        /\ row.kind = "locker" => AssignedToSomebody(new)
  <1>1. \E new \in DeskRows : Handled(new)
    <2>1. CASE Reception!HandOver(c)
      <3>1. PICK status \in {"collected", "returned"} :
               /\ row.kind = "parcel"
               /\ Reception!Handle(c, [row EXCEPT !.status = status, !.by = {c}])
        BY <2>1 DEF Reception!HandOver
      <3>2. /\ [row EXCEPT !.status = status, !.by = {c}] \in ParcelRows
            /\ [row EXCEPT !.status = status, !.by = {c}].status = status
        BY <3>1, KindOfRow DEF ParcelRows
      <3> QED
        BY <3>1, <3>2 DEF DeskRows, ParcelRows
    <2>2. CASE Reception!Remind(c)
      <3>1. row.kind = "parcel" /\ Reception!Handle(c, [row EXCEPT !.told = TRUE])
        BY <2>2 DEF Reception!Remind
      <3>2. /\ [row EXCEPT !.told = TRUE] \in ParcelRows
            /\ [row EXCEPT !.told = TRUE].status = row.status
        BY <3>1, KindOfRow DEF ParcelRows
      <3> QED
        BY <3>1, <3>2 DEF DeskRows, ParcelRows
    <2>3. CASE Reception!VisitorCheckIn(c)
      <3>1. /\ row.kind = "visitor"
            /\ Reception!Handle(c, [row EXCEPT !.status = "checked_in", !.arrived = TRUE])
        BY <2>3 DEF Reception!VisitorCheckIn
      <3>2. [row EXCEPT !.status = "checked_in", !.arrived = TRUE] \in VisitorRows
        BY <3>1, KindOfRow DEF VisitorRows
      <3> QED
        BY <3>1, <3>2 DEF DeskRows, VisitorRows
    <2>4. CASE Reception!VisitorCheckOut(c)
      <3>1. /\ row.kind = "visitor"
            /\ Reception!Handle(c, [row EXCEPT !.status = "checked_out", !.left = TRUE])
        BY <2>4 DEF Reception!VisitorCheckOut
      <3>2. [row EXCEPT !.status = "checked_out", !.left = TRUE] \in VisitorRows
        BY <3>1, KindOfRow DEF VisitorRows
      <3> QED
        BY <3>1, <3>2 DEF DeskRows, VisitorRows
    <2>5. CASE Reception!ReleaseLocker(c)
      BY <2>5, RowsMade DEF Reception!ReleaseLocker, DeskRows, LockerRows
    <2>6. CASE Reception!Admit(c)
      <3>1. /\ row.kind = "day pass"
            /\ Reception!Handle(c, [row EXCEPT !.status = "checked_in"])
        BY <2>6 DEF Reception!Admit
      <3>2. [row EXCEPT !.status = "checked_in"] \in DayPassRows
        BY <3>1, KindOfRow DEF DayPassRows
      <3> QED
        BY <3>1, <3>2 DEF DeskRows, DayPassRows
    <2>7. ASSUME NEW person \in LockerUsers, Reception!AssignLocker(c, person)
          PROVE  \E new \in DeskRows : Handled(new)
      <3> DEFINE to == [row EXCEPT !.status = "assigned", !.user = person, !.since = {date}]
      <3>1. row.kind = "locker" /\ Reception!Handle(c, to)
        BY <2>7 DEF Reception!AssignLocker
      <3>2. to \in LockerRows /\ to.user = person /\ to.status = "assigned"
        BY <3>1, KindOfRow DEF LockerRows
      <3>3. AssignedToSomebody(to)
        BY <3>2, UsersAreSomebody DEF AssignedToSomebody, Reception!Nobody
      <3> QED
        BY <3>1, <3>2, <3>3 DEF DeskRows, LockerRows
    <2>8. ASSUME NEW public \in BOOLEAN, Reception!EditProfile(c, public)
          PROVE  \E new \in DeskRows : Handled(new)
      <3>1. row.kind = "profile" /\ Reception!Handle(c, [row EXCEPT !.public = public])
        BY <2>8 DEF Reception!EditProfile
      <3>2. [row EXCEPT !.public = public] \in ProfileRows
        BY <3>1, KindOfRow DEF ProfileRows
      <3> QED
        BY <3>1, <3>2 DEF DeskRows, ProfileRows
    <2> HIDE DEF Handled
    <2> QED
      BY <2>1, <2>2, <2>3, <2>4, <2>5, <2>6, <2>7, <2>8
  <1> QED
    BY <1>1, RowInHand

LEMMA FrontStep == FrontInv /\ [Reception!Next]_frontVars => FrontInv'
  <1> SUFFICES ASSUME FrontInv, [Reception!Next]_frontVars PROVE FrontInv'
    OBVIOUS
  <1>1. CASE Reception!Midnight \/ UNCHANGED frontVars
    <2>1. row' = row /\ clerks' = clerks /\ gone' = gone /\ crossed' = crossed
      BY <1>1 DEF Reception!Midnight, frontVars
    <2>2. date' \in Reception!Dates
      BY <1>1, DatesGoOn DEF Reception!Midnight, frontVars, FrontInv, DeskTypes, Reception!Dates
    <2>3. DeskTypes'
      BY <2>1, <2>2 DEF FrontInv, DeskTypes
    <2> QED
      BY <2>1, <2>3
         DEF FrontInv, SameKind, ParcelLeavesOnce, LockerInOneHand, HasInHand, AssignedToSomebody
  <1> QED
    BY <1>1, RowsAreMade, RowsAreHandled, DeskCommits, DeskFails DEF Reception!Next

LEMMA FrontTyped == FrontInv => Reception!TypeOK
  <1> SUFFICES ASSUME FrontInv PROVE Reception!TypeOK
    OBVIOUS
  <1>1. /\ row.kind \in {"none", "parcel", "visitor", "locker", "day pass", "guest pass",
                          "referral", "printing", "profile"}
        /\ row.kind \notin {"none", "printing", "profile"} => row.status \in Reception!Statuses
    BY KindOfRow
       DEF FrontInv, DeskTypes, ParcelRows, VisitorRows, LockerRows, DayPassRows, GuestPassRows,
           ReferralRows, Reception!Statuses
  <1> QED
    BY <1>1 DEF FrontInv, DeskTypes, SameKind, HasInHand, Reception!TypeOK

\* Two clerks on one row: a parcel that was handed over or sent back does not come back to the
\* shelf, whatever was written over it, since a transaction writes only the columns it changed;
\* and a locker that was in one clerk's hands at a time is assigned just when somebody has it
\* (parcel_collect, parcel_return, parcel_remind, locker_assign, locker_release).
THEOREM ClerksDoNotUndoEachOther == PremisesSpec => []DeskIsRight
  <1>1. PremisesInit => FrontInv
    BY FrontInit DEF PremisesInit
  <1>2. [PremisesNext]_premisesVars => [Reception!Next]_frontVars
    BY DEF PremisesNext, premisesVars
  <1>3. FrontInv => DeskIsRight
    BY FrontTyped
       DEF FrontInv, ParcelLeavesOnce, LockerInOneHand, AssignedToSomebody, DeskIsRight,
           Reception!DeskIsRight
  <1> QED
    BY <1>1, <1>2, <1>3, FrontStep, PTL DEF PremisesSpec
-----------------------------------------------------------------------------
(* The series of meetings.  The inductive invariant: on a day that is not past, nor excused,  *)
(* every meeting is at the time of the series, so that there is one; and what the job has     *)
(* read is the time of the series, or is about days that are excused.                         *)

AtTime ==
    \A m \in Series!Live :
        /\ Series!DayOf(m.start) >= Series!Today
        /\ Series!DayOf(m.start) \notin excused
        => m.start = Series!At(Series!DayOf(m.start), series.time)

JobKnows ==
    job.busy => /\ job.day <= job.last /\ job.last <= LastDay
                /\ job.time = series.time \/ job.day..job.last \subseteq excused

NothingYet == series.status = "none" => meetings = {} /\ ~job.busy

SeriesInv == Series!TypeOK /\ Series!OneMeetingADay /\ AtTime /\ JobKnows /\ NothingYet

\* The days and the slots.
LEMMA DayOfSlot ==
    ASSUME NEW t \in Series!Slots
    PROVE  /\ t \in Nat /\ Series!DayOf(t) \in Series!Days /\ t % SlotsADay \in Series!TimesOfDay
           /\ t = Series!At(Series!DayOf(t), t % SlotsADay)
  BY SeriesBounds DEF Series!Slots, Series!DayOf, Series!Days, Series!TimesOfDay, Series!At

LEMMA SlotOfDay ==
    ASSUME NEW d \in Series!Days, NEW time \in Series!TimesOfDay
    PROVE  Series!At(d, time) \in Series!Slots /\ Series!DayOf(Series!At(d, time)) = d
  BY SeriesBounds DEF Series!Slots, Series!DayOf, Series!Days, Series!TimesOfDay, Series!At

LEMMA DaysGoOn ==
    ASSUME NEW s \in Series!Slots, NEW t \in Series!Slots, s <= t
    PROVE  Series!DayOf(s) <= Series!DayOf(t)
  BY SeriesBounds DEF Series!Slots, Series!DayOf

LEMMA LiveMeeting ==
    ASSUME Series!TypeOK, NEW m \in Series!Live
    PROVE  /\ m = [start |-> m.start, status |-> "confirmed"] /\ m.start \in Series!Slots
           /\ Series!DayOf(m.start) \in Series!Days
  BY DayOfSlot DEF Series!TypeOK, Series!Live

LEMMA TodayIsADay == Series!TypeOK => now \in Series!Slots /\ Series!Today \in Series!Days
  BY DayOfSlot DEF Series!TypeOK, Series!Today

\* One meeting a day, when the meetings to come are at the time of the series and of the days
\* that are past none is new.
LEMMA AtTimeIsOne ==
    ASSUME Series!OneMeetingADay, Series!TypeOK', AtTime', excused \subseteq excused',
           \A m \in Series!Live' :
               m \in Series!Live \/ Series!DayOf(m.start) >= (Series!Today)'
    PROVE  Series!OneMeetingADay'
  <1> SUFFICES ASSUME NEW m \in Series!Live', NEW n \in Series!Live',
                      m # n, Series!DayOf(m.start) = Series!DayOf(n.start),
                      Series!DayOf(m.start) \notin excused'
               PROVE  FALSE
    BY DEF Series!OneMeetingADay, Series!DayOf
  <1>1. ~(m \in Series!Live /\ n \in Series!Live)
    BY DEF Series!OneMeetingADay
  <1>2. Series!DayOf(m.start) >= (Series!Today)'
    BY <1>1
  <1>3. m.start = n.start
    BY <1>2 DEF AtTime, Series!At, Series!DayOf
  <1>4. /\ m \in [start: Series!Slots, status: {"confirmed", "cancelled"}]
        /\ n \in [start: Series!Slots, status: {"confirmed", "cancelled"}]
        /\ m.status = "confirmed" /\ n.status = "confirmed"
    BY DEF Series!TypeOK, Series!Live
  <1> QED
    BY <1>3, <1>4

LEMMA SeriesInit == Series!Init => SeriesInv
  <1> SUFFICES ASSUME Series!Init PROVE SeriesInv
    OBVIOUS
  <1>1. 0 \in Series!Slots /\ 0 \in Series!Days /\ 0 \in Series!TimesOfDay /\ 0 \in 0..LastDay + 1
    BY SeriesBounds DEF Series!Slots, Series!Days, Series!TimesOfDay
  <1>2. Series!TypeOK
    BY <1>1 DEF Series!Init, Series!TypeOK, Series!NoSeries, Series!NoJob
  <1> QED
    BY <1>2 DEF Series!Init, SeriesInv, Series!OneMeetingADay, AtTime, JobKnows, NothingYet,
                Series!Live, Series!NoJob

\* Meetings are cancelled and nothing else happens to the series but that it is stopped.
LEMMA MeetingsGo ==
    ASSUME SeriesInv, Series!TypeOK', now' = now, excused' = excused, job' = job,
           series'.time = series.time, series'.status = "none" => series.status = "none",
           series.status # "none", Series!Live' \subseteq Series!Live
    PROVE  SeriesInv'
  <1>1. AtTime'
    BY DEF SeriesInv, AtTime, Series!Today
  <1>2. Series!OneMeetingADay'
    BY DEF SeriesInv, Series!OneMeetingADay
  <1> QED
    BY <1>1, <1>2 DEF SeriesInv, JobKnows, NothingYet

LEMMA StatusAfter ==
    ASSUME Series!TypeOK, NEW m \in Series!Live
    PROVE  /\ Series!Cancelled(m) = [start |-> m.start, status |-> "cancelled"]
           /\ Series!Cancelled(m).status = "cancelled"
           /\ Series!Cancelled(m)
                \in [start: Series!Slots, status: {"confirmed", "cancelled"}]
  <1>1. m \in [start: Series!Slots, status: {"confirmed", "cancelled"}]
    BY DEF Series!TypeOK, Series!Live
  <1> QED
    BY <1>1 DEF Series!Cancelled

LEMMA MeetingAt ==
    ASSUME NEW t \in Series!Slots
    PROVE  /\ Series!Meeting(t) \in [start: Series!Slots, status: {"confirmed", "cancelled"}]
           /\ Series!Meeting(t).start = t /\ Series!Meeting(t).status = "confirmed"
  BY DEF Series!Meeting

LEMMA MeetingCancelled ==
    ASSUME SeriesInv, NEW m \in meetings, NEW admin \in BOOLEAN, Series!CancelOne(m, admin)
    PROVE  SeriesInv'
  <1>1. m \in Series!Live
    BY DEF Series!CancelOne, Series!MayCancel, Series!Live
  <1>2. meetings' = (meetings \ {m}) \union {Series!Cancelled(m)}
        /\ UNCHANGED <<now, series, job, excused>>
    BY DEF Series!CancelOne
  <1>3. Series!TypeOK'
    BY <1>1, <1>2, StatusAfter DEF SeriesInv, Series!TypeOK
  <1>4. Series!Live' \subseteq Series!Live
    BY <1>1, <1>2, StatusAfter DEF SeriesInv, Series!Live
  <1>5. series.status # "none"
    BY DEF SeriesInv, NothingYet
  <1> QED
    BY <1>2, <1>3, <1>4, <1>5, MeetingsGo

LEMMA SeriesStopped ==
    ASSUME SeriesInv, NEW admin \in BOOLEAN, NEW upto \in Series!Ends,
           Series!CancelSeries(admin, upto)
    PROVE  SeriesInv'
  <1> DEFINE ended == {m \in Series!Reached(upto) : Series!MayCancel(m, admin)}
  <1>1. /\ series.status # "none" /\ series' = [series EXCEPT !.status = "stopped"]
        /\ meetings' = (meetings \ ended) \union {Series!Cancelled(m) : m \in ended}
        /\ UNCHANGED <<now, job, excused>>
    BY DEF Series!CancelSeries
  <1>2. ended \subseteq Series!Live
    BY DEF Series!Reached, Series!FutureInstances
  <1>3. \A m \in ended : /\ Series!Cancelled(m).status = "cancelled"
                        /\ Series!Cancelled(m)
                             \in [start: Series!Slots, status: {"confirmed", "cancelled"}]
    BY <1>2, StatusAfter DEF SeriesInv
  <1> HIDE DEF ended
  <1>4. Series!TypeOK'
    BY <1>1, <1>3 DEF SeriesInv, Series!TypeOK
  <1>5. Series!Live' \subseteq Series!Live
    BY <1>1, <1>3 DEF Series!Live
  <1>6. series'.time = series.time /\ series'.status = "stopped"
    BY <1>1 DEF SeriesInv, Series!TypeOK
  <1> QED
    BY <1>1, <1>4, <1>5, <1>6, MeetingsGo

LEMMA MeetingMoved ==
    ASSUME SeriesInv, NEW m \in meetings, NEW t \in Series!Slots, NEW admin \in BOOLEAN,
           Series!MoveOne(m, t, admin)
    PROVE  SeriesInv'
  <1>1. /\ meetings' = (meetings \ {m}) \union {Series!Meeting(t)}
        /\ excused' = excused \union {Series!DayOf(m.start), Series!DayOf(t)}
        /\ UNCHANGED <<now, series, job>>
    BY DEF Series!MoveOne
  <1>2. m \in Series!Live
    BY DEF Series!MoveOne, Series!MayChange, Series!Live
  <1>3. Series!DayOf(m.start) \in 0..LastDay + 1 /\ Series!DayOf(t) \in 0..LastDay + 1
    BY <1>2, LiveMeeting, DayOfSlot, SeriesBounds DEF SeriesInv, Series!Days
  <1>4. Series!TypeOK'
    BY <1>1, <1>3, MeetingAt DEF SeriesInv, Series!TypeOK
  <1>5. \A n \in Series!Live' : n \in Series!Live \/ Series!DayOf(n.start) \in excused'
    BY <1>1, MeetingAt DEF Series!Live
  <1>6. AtTime'
    BY <1>1, <1>5 DEF SeriesInv, AtTime, Series!Today
  <1>7. Series!OneMeetingADay'
    BY <1>1, <1>5 DEF SeriesInv, Series!OneMeetingADay, Series!DayOf
  <1>8. JobKnows'
    BY <1>1 DEF SeriesInv, JobKnows
  <1>9. NothingYet'
    BY <1>1 DEF SeriesInv, NothingYet
  <1> QED
    BY <1>4, <1>6, <1>7, <1>8, <1>9 DEF SeriesInv

LEMMA SeriesBegun ==
    ASSUME SeriesInv, series.status = "none", UNCHANGED <<now, job, excused>>,
           series' \in [status: {"active"}, pattern: {"daily", "weekly"},
                        time: Series!TimesOfDay, from: Series!Days, until: Series!Days],
           \/ meetings' = {}
           \/ \E t \in Series!Slots :
                 meetings' = {Series!Meeting(t)} /\ series'.time = t % SlotsADay
    PROVE  SeriesInv'
  <1>1. Series!TypeOK'
    BY MeetingAt DEF SeriesInv, Series!TypeOK
  <1>2. \A m, n \in meetings' : m = n
    OBVIOUS
  <1>3. AtTime'
    BY MeetingAt, DayOfSlot DEF AtTime, Series!Live, Series!DayOf, Series!At
  <1>4. ~job.busy /\ ~job'.busy
    BY DEF SeriesInv, NothingYet
  <1> QED
    BY <1>1, <1>2, <1>3, <1>4
       DEF SeriesInv, Series!OneMeetingADay, Series!Live, JobKnows, NothingYet

LEMMA SeriesMade ==
    ASSUME SeriesInv, NEW pattern \in {"daily", "weekly"}, NEW until \in Series!Days,
           \/ \E t \in Series!Slots : Series!QuickBook(pattern, t, until)
           \/ \E time \in Series!TimesOfDay, from \in Series!Days :
                 Series!CreateSeries(pattern, time, from, until)
    PROVE  SeriesInv'
  <1>1. ASSUME NEW t \in Series!Slots, Series!QuickBook(pattern, t, until)
        PROVE  SeriesInv'
    <2>1. /\ series.status = "none" /\ meetings' = {Series!Meeting(t)}
          /\ series' = Series!Row(pattern, t % SlotsADay, Series!DayOf(t), until)
      BY <1>1 DEF Series!QuickBook, SeriesInv, NothingYet
    <2>2. /\ series' \in [status: {"active"}, pattern: {"daily", "weekly"},
                          time: Series!TimesOfDay, from: Series!Days, until: Series!Days]
          /\ series'.time = t % SlotsADay
      BY <2>1, DayOfSlot DEF Series!Row
    <2> QED
      BY <1>1, <2>1, <2>2, SeriesBegun DEF Series!QuickBook
  <1>2. ASSUME NEW time \in Series!TimesOfDay, NEW from \in Series!Days,
               Series!CreateSeries(pattern, time, from, until)
        PROVE  SeriesInv'
    BY <1>2, SeriesBegun DEF Series!CreateSeries, Series!Row, SeriesInv, NothingYet
  <1> QED
    BY <1>1, <1>2

LEMMA SeriesUpdated ==
    ASSUME SeriesInv, NEW admin \in BOOLEAN, NEW time \in Series!TimesOfDay,
           NEW until \in Series!Days, NEW upto \in Series!Ends,
           Series!UpdateSeries(admin, time, until, upto)
    PROVE  SeriesInv'
  <1> DEFINE target(m) == Series!Target(m, time)
             late == {m \in Series!Reached(upto) : Series!DayOf(m.start) > until}
             ended == {m \in late : Series!MayCancel(m, admin)}
             same == {m \in Series!Reached(upto) :
                         Series!MayChange(m, admin) /\ m.start = Series!Target(m, time)}
             died == Series!FutureInstances \ Series!Reached(upto)
             begun == {m \in Series!Live :
                          m.start <= now /\ Series!DayOf(m.start) = Series!Today}
             overtaken == IF job.busy THEN job.day..job.last ELSE {}
  <1>1. PICK moved \in SUBSET Series!Reached(upto) :
           LET failed == Series!Reached(upto) \ (moved \union ended \union same)
           IN /\ meetings' = (meetings \ (moved \union ended))
                             \union {Series!Meeting(Series!Target(m, time)) : m \in moved}
                             \union {Series!Cancelled(m) : m \in ended}
              /\ excused' = excused
                            \union {Series!DayOf(m.start) : m \in failed \union died \union begun}
                            \union overtaken
    BY DEF Series!UpdateSeries
  <1> DEFINE failed == Series!Reached(upto) \ (moved \union ended \union same)
  <1>2. /\ series' = [series EXCEPT !.time = time, !.until = until]
        /\ series.status # "none" /\ now' = now /\ job' = job
    BY DEF Series!UpdateSeries
  <1>3. /\ moved \subseteq Series!FutureInstances /\ ended \subseteq Series!FutureInstances
        /\ failed \union died \union begun \subseteq Series!Live
    BY DEF Series!Reached, Series!FutureInstances
  <1>4. Series!FutureInstances \subseteq Series!Live
    BY DEF Series!FutureInstances
  <1>5. \A m \in Series!Live :
           /\ Series!Meeting(target(m)) \in [start: Series!Slots,
                                             status: {"confirmed", "cancelled"}]
           /\ Series!Meeting(target(m)).start = Series!At(Series!DayOf(m.start), time)
           /\ Series!DayOf(Series!At(Series!DayOf(m.start), time)) = Series!DayOf(m.start)
    BY LiveMeeting, SlotOfDay, MeetingAt DEF SeriesInv, Series!Target
  <1>6. \A m \in Series!Live :
           /\ Series!Cancelled(m).status = "cancelled"
           /\ Series!Cancelled(m) \in [start: Series!Slots, status: {"confirmed", "cancelled"}]
    BY StatusAfter DEF SeriesInv
  <1>7. \A m \in Series!FutureInstances :
           m.start \in Series!Slots /\ Series!DayOf(m.start) >= Series!Today
    <2> TAKE m \in Series!FutureInstances
    <2>1. m.start \in Series!Slots /\ now \in Series!Slots /\ now < m.start
      BY <1>4, LiveMeeting, TodayIsADay DEF SeriesInv, Series!FutureInstances
    <2> QED
      BY <2>1, DaysGoOn, DayOfSlot DEF Series!Today, Series!Slots, Series!Days
  <1> HIDE DEF target, late, ended, same, died, begun, overtaken, failed
  <1>8. excused \subseteq excused' /\ overtaken \subseteq excused'
    BY <1>1 DEF failed
  <1>9. series'.time = time
        /\ series' \in [status: {"none", "active", "stopped"}, pattern: {"daily", "weekly"},
                        time: Series!TimesOfDay, from: Series!Days, until: Series!Days]
        /\ series'.status = series.status
    BY <1>2 DEF SeriesInv, Series!TypeOK
  <1>10. overtaken \subseteq 0..LastDay + 1
    BY SeriesBounds DEF overtaken, SeriesInv, JobKnows, Series!TypeOK, Series!Days
  <1>11. \A m \in Series!Live : Series!DayOf(m.start) \in 0..LastDay + 1
    BY LiveMeeting, SeriesBounds DEF SeriesInv, Series!Days
  <1>12. excused' \subseteq 0..LastDay + 1
    BY <1>1, <1>3, <1>10, <1>11 DEF SeriesInv, Series!TypeOK, failed
  <1>13. meetings' \subseteq [start: Series!Slots, status: {"confirmed", "cancelled"}]
    BY <1>1, <1>3, <1>4, <1>5, <1>6 DEF SeriesInv, Series!TypeOK, target
  <1>14. Series!TypeOK'
    BY <1>2, <1>9, <1>12, <1>13 DEF SeriesInv, Series!TypeOK
  <1>15. \A n \in Series!Live' :
            \/ n \in Series!Live /\ n \notin moved /\ n \notin ended
            \/ \E m \in moved : n = Series!Meeting(target(m))
    BY <1>1, <1>3, <1>4, <1>6 DEF Series!Live, target
  <1>16. AtTime'
    <2> SUFFICES ASSUME NEW n \in Series!Live', Series!DayOf(n.start) >= Series!Today,
                        Series!DayOf(n.start) \notin excused'
                 PROVE  n.start = Series!At(Series!DayOf(n.start), time)
      BY <1>2, <1>9 DEF AtTime, Series!DayOf, Series!At, Series!Today
    <2>1. CASE n \in Series!Live /\ n \notin moved /\ n \notin ended
      <3>1. n \notin failed /\ n \notin died /\ n \notin begun
        BY <1>1 DEF failed
      <3>2. CASE n \in same
        BY <3>2 DEF same, Series!Target
      <3>3. CASE n \notin Series!FutureInstances
        <4>1. n.start <= now
          BY <2>1, <3>3, LiveMeeting, TodayIsADay
             DEF SeriesInv, Series!FutureInstances, Series!Slots
        <4>2. Series!DayOf(n.start) <= Series!Today
          BY <2>1, <4>1, DaysGoOn, LiveMeeting, TodayIsADay DEF SeriesInv, Series!Today
        <4>3. Series!DayOf(n.start) = Series!Today
          BY <2>1, <4>2, LiveMeeting, TodayIsADay DEF SeriesInv, Series!Days
        <4> QED
          BY <2>1, <3>1, <4>1, <4>3 DEF begun
      <3> QED
        BY <2>1, <3>1, <3>2, <3>3 DEF failed, died
    <2>2. CASE \E m \in moved : n = Series!Meeting(target(m))
      BY <2>2, <1>3, <1>4, <1>5
    <2> QED
      BY <2>1, <2>2, <1>15
  <1>17. \A n \in Series!Live' : n \in Series!Live \/ Series!DayOf(n.start) >= (Series!Today)'
    <2> SUFFICES ASSUME NEW m \in moved, NEW n, n = Series!Meeting(target(m))
                 PROVE  Series!DayOf(n.start) >= Series!Today
      BY <1>2, <1>15 DEF Series!Today, Series!DayOf
    <2> QED
      BY <1>3, <1>4, <1>5, <1>7
  <1>18. Series!OneMeetingADay'
    BY <1>8, <1>14, <1>16, <1>17, AtTimeIsOne DEF SeriesInv
  <1>19. JobKnows'
    BY <1>2, <1>8 DEF SeriesInv, JobKnows, overtaken
  <1>20. NothingYet'
    BY <1>2, <1>9 DEF NothingYet
  <1> QED
    BY <1>14, <1>16, <1>18, <1>19, <1>20 DEF SeriesInv

LEMMA JobStarts ==
    ASSUME SeriesInv, Series!JobReads
    PROVE  SeriesInv'
  <1> DEFINE first == Series!Later(series.from, Series!Today)
             last == Series!Sooner(series.until, Series!Today + 1)
  <1>1. /\ first <= last /\ UNCHANGED <<now, series, meetings, excused>>
        /\ job' = [busy |-> TRUE, day |-> first, last |-> last, time |-> series.time]
        /\ series.status = "active"
    BY DEF Series!JobReads
  <1>2. /\ series.from \in 0..LastDay /\ series.until \in 0..LastDay /\ Series!Today \in 0..LastDay
        /\ series.time \in Series!TimesOfDay
    BY TodayIsADay DEF SeriesInv, Series!TypeOK, Series!Days
  <1>3. first \in 0..LastDay /\ last \in 0..LastDay
    BY <1>1, <1>2, SeriesBounds DEF Series!Later, Series!Sooner
  <1>4. job' \in [busy: BOOLEAN, day: Series!Days, last: 0..LastDay + 1, time: Series!TimesOfDay]
    BY <1>1, <1>2, <1>3, SeriesBounds DEF Series!Days
  <1>5. Series!TypeOK'
    BY <1>1, <1>4 DEF SeriesInv, Series!TypeOK
  <1>6. JobKnows'
    BY <1>1, <1>3 DEF JobKnows
  <1> QED
    BY <1>1, <1>5, <1>6
       DEF SeriesInv, Series!OneMeetingADay, AtTime, NothingYet, Series!Live, Series!Today

\* What the job goes on with.
LEMMA JobGoesOn ==
    ASSUME SeriesInv, job.busy, NEW time \in Series!TimesOfDay, job' = Series!NextDay(time),
           time = series.time \/ time = job.time,
           series' = series, excused' = excused
    PROVE  /\ JobKnows'
           /\ job' \in [busy: BOOLEAN, day: Series!Days, last: 0..LastDay + 1,
                        time: Series!TimesOfDay]
  <1>1. /\ job \in [busy: BOOLEAN, day: Series!Days, last: 0..LastDay + 1,
                    time: Series!TimesOfDay]
        /\ job.day <= job.last /\ job.last <= LastDay
        /\ job.time = series.time \/ job.day..job.last \subseteq excused
    BY DEF SeriesInv, Series!TypeOK, JobKnows
  <1>2. CASE job.day = job.last
    BY <1>2, SeriesBounds
       DEF Series!NextDay, Series!NoJob, JobKnows, Series!Days, Series!TimesOfDay
  <1>3. CASE job.day # job.last
    <2>1. job' = [job EXCEPT !.day = job.day + 1, !.time = time]
      BY <1>3 DEF Series!NextDay
    <2>2. job.day + 1 <= job.last /\ job.day + 1 \in Series!Days
      BY <1>1, <1>3, SeriesBounds DEF Series!Days
    <2>3. job.day + 1..job.last \subseteq job.day..job.last
      BY <1>1, SeriesBounds DEF Series!Days
    <2>4. /\ job' \in [busy: BOOLEAN, day: Series!Days, last: 0..LastDay + 1,
                       time: Series!TimesOfDay]
          /\ job'.day = job.day + 1 /\ job'.last = job.last /\ job'.time = time
      BY <1>1, <2>1, <2>2
    <2> QED
      BY <1>1, <2>2, <2>3, <2>4 DEF JobKnows
  <1> QED
    BY <1>2, <1>3

LEMMA JobGoesByOne ==
    ASSUME SeriesInv, Series!JobPasses \/ Series!JobDies
    PROVE  SeriesInv'
  <1>1. UNCHANGED <<now, series, meetings, excused>> /\ job.busy
    BY DEF Series!JobPasses, Series!JobDies
  <1>2. /\ JobKnows'
        /\ job' \in [busy: BOOLEAN, day: Series!Days, last: 0..LastDay + 1,
                     time: Series!TimesOfDay]
    <2>1. CASE Series!JobPasses
      <3>1. job.time \in Series!TimesOfDay
        BY DEF SeriesInv, Series!TypeOK
      <3> QED
        BY <1>1, <2>1, <3>1, JobGoesOn DEF Series!JobPasses
    <2>2. CASE Series!JobDies
      BY <2>2, SeriesBounds
         DEF Series!JobDies, Series!NoJob, JobKnows, Series!Days, Series!TimesOfDay
    <2> QED
      BY <2>1, <2>2
  <1>3. Series!TypeOK'
    BY <1>1, <1>2 DEF SeriesInv, Series!TypeOK
  <1>4. AtTime' /\ Series!OneMeetingADay'
    BY <1>1 DEF SeriesInv, AtTime, Series!OneMeetingADay, Series!Live, Series!Today
  <1> QED
    BY <1>1, <1>2, <1>3, <1>4 DEF SeriesInv, NothingYet

LEMMA JobMakesOne ==
    ASSUME SeriesInv, Series!JobMakes
    PROVE  SeriesInv'
  <1> DEFINE t == Series!At(job.day, job.time)
  <1>1. /\ job.busy /\ Series!Fits(t) /\ meetings' = meetings \union {Series!Meeting(t)}
        /\ job' = Series!NextDay(series.time) /\ UNCHANGED <<now, series, excused>>
    BY DEF Series!JobMakes
  <1>2. /\ job.day \in Series!Days /\ job.time \in Series!TimesOfDay
        /\ series.time \in Series!TimesOfDay
    BY DEF SeriesInv, Series!TypeOK
  <1>3. t \in Series!Slots /\ Series!DayOf(t) = job.day
    BY <1>2, SlotOfDay
  <1>4. Series!DayOf(t) >= Series!Today
    <2>1. now \in Series!Slots /\ now <= t
      BY <1>1, <1>3, TodayIsADay, SeriesBounds DEF SeriesInv, Series!Fits, Series!Slots
    <2> QED
      BY <1>3, <2>1, DaysGoOn, DayOfSlot DEF Series!Today, Series!Days
  <1>5. /\ JobKnows'
        /\ job' \in [busy: BOOLEAN, day: Series!Days, last: 0..LastDay + 1,
                     time: Series!TimesOfDay]
    BY <1>1, <1>2, JobGoesOn
  <1>6. Series!TypeOK'
    BY <1>1, <1>3, <1>5, MeetingAt DEF SeriesInv, Series!TypeOK
  <1>7. \A n \in Series!Live' : n \in Series!Live \/ n.start = t
    BY <1>1, <1>3, MeetingAt DEF Series!Live
  <1>8. job.day \notin excused => job.time = series.time
    <2>1. job.day \in job.day..job.last
      BY <1>1, <1>2 DEF SeriesInv, JobKnows, Series!Days, Series!TypeOK
    <2> QED
      BY <1>1, <2>1 DEF SeriesInv, JobKnows
  <1>9. AtTime'
    <2> SUFFICES ASSUME NEW n \in Series!Live', Series!DayOf(n.start) >= Series!Today,
                        Series!DayOf(n.start) \notin excused
                 PROVE  n.start = Series!At(Series!DayOf(n.start), series.time)
      BY <1>1 DEF AtTime, Series!DayOf, Series!At, Series!Today
    <2>1. CASE n \in Series!Live
      BY <2>1 DEF SeriesInv, AtTime
    <2>2. CASE n.start = t
      BY <2>2, <1>3, <1>8
    <2> QED
      BY <2>1, <2>2, <1>7
  <1>10. \A n \in Series!Live' : n \in Series!Live \/ Series!DayOf(n.start) >= (Series!Today)'
    BY <1>1, <1>4, <1>7 DEF Series!Today, Series!DayOf
  <1>11. Series!OneMeetingADay'
    BY <1>1, <1>6, <1>9, <1>10, AtTimeIsOne DEF SeriesInv
  <1>12. NothingYet'
    BY <1>1 DEF SeriesInv, NothingYet
  <1> QED
    BY <1>5, <1>6, <1>9, <1>11, <1>12 DEF SeriesInv

LEMMA SeriesStep == SeriesInv /\ [Series!Next]_seriesVars => SeriesInv'
  <1> SUFFICES ASSUME SeriesInv, [Series!Next]_seriesVars PROVE SeriesInv'
    OBVIOUS
  <1>1. CASE Series!Tick
    <2>1. now' \in Series!Slots /\ now <= now' /\ UNCHANGED <<series, meetings, job, excused>>
      BY <1>1 DEF Series!Tick, SeriesInv, Series!TypeOK, Series!Slots
    <2>2. (Series!Today)' >= Series!Today /\ Series!Today \in Int /\ (Series!Today)' \in Int
      BY <2>1, DaysGoOn, TodayIsADay, DayOfSlot DEF SeriesInv, Series!Today, Series!Days, Series!DayOf
    <2>3. \A m \in Series!Live : Series!DayOf(m.start) \in Int
      BY LiveMeeting DEF SeriesInv, Series!Days
    <2>4. Series!TypeOK'
      BY <2>1 DEF SeriesInv, Series!TypeOK
    <2>5. AtTime'
      BY <2>1, <2>2, <2>3 DEF SeriesInv, AtTime, Series!Live, Series!DayOf, Series!At
    <2> QED
      BY <2>1, <2>4, <2>5
         DEF SeriesInv, Series!OneMeetingADay, JobKnows, NothingYet, Series!Live
  <1>2. CASE UNCHANGED seriesVars
    BY <1>2 DEF seriesVars, SeriesInv, Series!TypeOK, Series!OneMeetingADay, AtTime, JobKnows,
                NothingYet, Series!Live, Series!Today
  <1> QED
    BY <1>1, <1>2, JobStarts, JobMakesOne, JobGoesByOne, SeriesMade, MeetingCancelled,
       MeetingMoved, SeriesStopped, SeriesUpdated DEF Series!Next

\* A series has one meeting a day, through the job that works from what it read, requests that die
\* half way and meetings moved by hand, but for the days that are excused
\* (materialize_recurring_room_bookings, update_series).
THEOREM SeriesMeetsOnceADay == PremisesSpec => []OneMeetingADay
  <1>1. PremisesInit => SeriesInv
    BY SeriesInit DEF PremisesInit
  <1>2. [PremisesNext]_premisesVars => [Series!Next]_seriesVars
    BY DEF PremisesNext, premisesVars
  <1>3. SeriesInv => OneMeetingADay
    BY DEF SeriesInv, OneMeetingADay
  <1> QED
    BY <1>1, <1>2, <1>3, SeriesStep, PTL DEF PremisesSpec
-----------------------------------------------------------------------------
(* Subscriptions and their bills.  The inductive invariant: this month is billed for the      *)
(* people that were agreed; those on the regular invoice, or to come on it, and those billed  *)
(* by themselves are not more than there are; and an increase billed by itself on the first   *)
(* leaves its mark there.                                                                     *)

BillTypes ==
    /\ case \in Cases /\ firstDay \in BOOLEAN /\ built \subseteq Seats
    /\ subs \in [Ids -> Subscription \union {Absent}]
    /\ requests \subseteq [company: Companies, sub: Ids \union {NoSub}, plan: Plans,
                           quantity: 1..MaxQuantity]
    /\ bills \in [Ids -> [planned: BOOLEAN, onFirst: BOOLEAN, whole: BOOLEAN,
                          counted: 0..MaxExtra, added: 0..MaxExtra, ran: BOOLEAN]]
    /\ agreed \in [Ids -> [people: 0..MaxExtra, mixed: BOOLEAN, reduced: BOOLEAN]]

\* A request is about a subscription that there is.
RequestsOfSubs == \A r \in requests : r.sub # NoSub => Exists(r.sub)

BilledAsAgreed(s) == Exists(s) => BilledNow(s) = agreed[s].people

NotBilledTwice(s) ==
    Exists(s) /\ ~agreed[s].reduced =>
        /\ BilledNow(s) + bills[s].added <= subs[s].extra
        /\ bills[s].counted + bills[s].added <= subs[s].extra

MarksOfBills(s) ==
    /\ bills[s].planned => bills[s].onFirst /\ bills[s].whole
    /\ ~bills[s].planned => bills[s].counted = 0
    /\ firstDay /\ bills[s].added > 0 => bills[s].onFirst

BillInv ==
    /\ BillTypes /\ RequestsOfSubs
    /\ \A s \in Ids : BilledAsAgreed(s) /\ NotBilledTwice(s) /\ MarksOfBills(s)

LEMMA SubThere ==
    ASSUME BillTypes, NEW s \in Ids, Exists(s)
    PROVE  subs[s] \in Subscription
  <1>1. ~(Absent.status # "none")
    BY DEF Absent
  <1> QED
    BY <1>1 DEF BillTypes, Exists

LEMMA NoneThere == \A s \in Ids : subs[s] = Absent => ~Exists(s)
  BY DEF Exists, Absent

\* The bounds of a case.
LEMMA BoundsOfCase ==
    ASSUME case \in Cases
    PROVE  /\ 0..case.extra \subseteq 0..MaxExtra /\ 1..case.quantity \subseteq 1..MaxQuantity
           /\ case.plans \subseteq Plans /\ case.extra \in Nat
           /\ MaxExtra \in Nat /\ MaxQuantity \in Nat \ {0}
  <1>1. /\ case.quantity \in 1..MaxQuantity /\ case.extra \in 0..MaxExtra
        /\ case.plans \subseteq Plans
    BY Uses
  <1> QED
    BY <1>1, Limits

\* What happens to one subscription leaves the invariant to be shown of that one.
LEMMA OneSub ==
    ASSUME BillInv, BillTypes', RequestsOfSubs', firstDay' = firstDay, NEW s \in Ids,
           \A r \in Ids \ {s} :
               subs'[r] = subs[r] /\ bills'[r] = bills[r] /\ agreed'[r] = agreed[r],
           BilledAsAgreed(s)', NotBilledTwice(s)', MarksOfBills(s)'
    PROVE  BillInv'
  <1> SUFFICES ASSUME NEW r \in Ids
               PROVE  BilledAsAgreed(r)' /\ NotBilledTwice(r)' /\ MarksOfBills(r)'
    BY DEF BillInv
  <1>1. CASE r = s
    BY <1>1
  <1>2. CASE r # s
    BY <1>2 DEF BillInv, BilledAsAgreed, NotBilledTwice, MarksOfBills, Exists, BilledNow
  <1> QED
    BY <1>1, <1>2

LEMMA BillsInit == Init => BillInv
  <1> SUFFICES ASSUME Init PROVE BillInv
    OBVIOUS
  <1>1. firstDay \in BOOLEAN
    BY DEF Init, DaysMatter
  <1>2. MaxExtra \in Nat
    BY Limits
  <1>3. BillTypes
    BY <1>1, <1>2, SeatsExist DEF Init, BillTypes, NoBills, AsAgreed
  <1>4. \A s \in Ids : ~Exists(s)
    BY NoneThere DEF Init
  <1> QED
    BY <1>3, <1>4
       DEF Init, BillInv, RequestsOfSubs, BilledAsAgreed, NotBilledTwice, MarksOfBills, NoBills

\* A new subscription, with a deposit or without one.
LEMMA SubMade ==
    ASSUME BillInv, NEW s \in Ids, NEW holder \in Holders, NEW plan \in Plans,
           NEW quantity \in 1..MaxQuantity, NEW people \in Nat \ {0}, NEW extra \in 0..MaxExtra,
           NEW priced \in BOOLEAN, NEW spaces \in 0..MaxQuantity, NEW first \in BOOLEAN,
           NEW deposit \in BOOLEAN,
           NewSub(s, holder, plan, quantity, people, extra, priced, spaces,
                  DepositBill(first, deposit)),
           requests' \subseteq requests, case' = case, firstDay' = firstDay,
           built' \subseteq Seats
    PROVE  BillInv'
  <1> DEFINE sub == [status |-> "active", holder |-> holder, plan |-> plan,
                     quantity |-> quantity, people |-> people, extra |-> extra, before |-> 0,
                     deferred |-> FALSE, priced |-> priced, spaces |-> spaces]
             bill == DepositBill(first, deposit)
  <1>1. /\ subs' = [subs EXCEPT ![s] = sub] /\ bills' = [bills EXCEPT ![s] = bill]
        /\ agreed' = [agreed EXCEPT ![s] = AsAgreed(extra)] /\ ~Exists(s)
    BY DEF NewSub
  <1>2. MaxExtra \in Nat
    BY Limits
  <1>3. sub \in Subscription
    BY <1>2 DEF Subscription
  <1>4. /\ bill \in [planned: BOOLEAN, onFirst: BOOLEAN, whole: BOOLEAN,
                     counted: 0..MaxExtra, added: 0..MaxExtra, ran: BOOLEAN]
        /\ ~bill.planned /\ bill.counted = 0 /\ bill.added = 0
    <2> DEFINE b(x) == [NoBills EXCEPT !.onFirst = x]
    <2>1. \A x \in BOOLEAN :
             b(x) \in [planned: BOOLEAN, onFirst: BOOLEAN, whole: BOOLEAN,
                       counted: 0..MaxExtra, added: 0..MaxExtra, ran: BOOLEAN]
      <3> TAKE x \in BOOLEAN
      <3>1. FALSE \in BOOLEAN /\ 0 \in 0..MaxExtra
        BY <1>2
      <3>2. NoBills \in [planned: BOOLEAN, onFirst: BOOLEAN, whole: BOOLEAN,
                         counted: 0..MaxExtra, added: 0..MaxExtra, ran: BOOLEAN]
        BY <3>1, Zenon DEF NoBills
      <3> QED
        BY <3>2
    <2>4. ~bill.planned
      BY Zenon DEF DepositBill, NoBills
    <2>5. bill.counted = 0 /\ bill.added = 0
      BY DEF DepositBill, NoBills
    <2>2. (first /\ deposit) \in BOOLEAN
      OBVIOUS
    <2>3. bill = b(first /\ deposit)
      BY Zenon DEF DepositBill
    <2> HIDE DEF b, bill
    <2> QED
      BY <2>1, <2>2, <2>3, <2>4, <2>5, Zenon
  <1>5. /\ AsAgreed(extra) \in [people: 0..MaxExtra, mixed: BOOLEAN, reduced: BOOLEAN]
        /\ AsAgreed(extra).people = extra
    BY DEF AsAgreed
  <1>6. BillTypes'
    BY <1>1, <1>3, <1>4, <1>5 DEF BillInv, BillTypes
  <1>7. subs'[s] = sub /\ bills'[s] = bill /\ agreed'[s] = AsAgreed(extra)
    BY <1>1 DEF BillInv, BillTypes
  <1>8. \A r \in Ids \ {s} :
           subs'[r] = subs[r] /\ bills'[r] = bills[r] /\ agreed'[r] = agreed[r]
    BY <1>1 DEF BillInv, BillTypes
  <1>9. RequestsOfSubs'
    BY <1>1, <1>8 DEF BillInv, BillTypes, RequestsOfSubs, Exists
  <1>10. BilledAsAgreed(s)'
    BY <1>5, <1>7 DEF BilledAsAgreed, BilledNow
  <1>11. NotBilledTwice(s)' /\ MarksOfBills(s)'
    BY <1>2, <1>4, <1>7 DEF NotBilledTwice, MarksOfBills, BilledNow
  <1> QED
    BY <1>6, <1>8, <1>9, <1>10, <1>11, OneSub

\* The status of a subscription, its plan and how many spaces it has are not about its bills.
LEMMA SubKept ==
    ASSUME BillInv, BillTypes', RequestsOfSubs', firstDay' = firstDay, NEW s \in Ids, Exists(s),
           \A r \in Ids \ {s} : subs'[r] = subs[r],
           subs'[s].extra = subs[s].extra, subs'[s].before = subs[s].before,
           subs'[s].deferred = subs[s].deferred, bills' = bills, agreed' = agreed
    PROVE  BillInv'
  <1>1. BilledAsAgreed(s) /\ NotBilledTwice(s) /\ MarksOfBills(s)
    BY DEF BillInv
  <1>2. BilledAsAgreed(s)' /\ NotBilledTwice(s)' /\ MarksOfBills(s)'
    BY <1>1 DEF BilledAsAgreed, NotBilledTwice, MarksOfBills, BilledNow
  <1> QED
    BY <1>2, OneSub

LEMMA SubEnds ==
    ASSUME BillInv, NEW s \in Ids, EndSub(s)
    PROVE  BillInv'
  <1>1. PICK status \in {"cancelled", "expired"} :
           Exists(s) /\ subs' = [subs EXCEPT ![s].status = status]
    BY DEF EndSub, Exists, Active
  <1>2. subs[s] \in Subscription
    BY <1>1, SubThere DEF BillInv
  <1>3. [subs[s] EXCEPT !.status = status] \in Subscription
    BY <1>2 DEF Subscription
  <1>4. subs'[s] = [subs[s] EXCEPT !.status = status] /\ \A r \in Ids \ {s} : subs'[r] = subs[r]
    BY <1>1 DEF BillInv, BillTypes
  <1>5. UNCHANGED <<case, firstDay, built, requests, bills, agreed>>
    BY DEF EndSub
  <1>6. BillTypes'
    BY <1>1, <1>3, <1>5 DEF BillInv, BillTypes
  <1>7. Exists(s)'
    BY <1>2, <1>4 DEF Exists, Subscription
  <1>8. RequestsOfSubs'
    BY <1>4, <1>5, <1>7 DEF BillInv, BillTypes, RequestsOfSubs, Exists
  <1>9. /\ subs'[s].extra = subs[s].extra /\ subs'[s].before = subs[s].before
        /\ subs'[s].deferred = subs[s].deferred
    BY <1>2, <1>4 DEF Subscription
  <1> QED
    BY <1>1, <1>4, <1>5, <1>6, <1>8, <1>9, SubKept

\* The spaces of a new subscription are counted.
LEMMA SpacesCounted ==
    ASSUME built \subseteq Seats, NEW chosen \in SUBSET built, NEW new \in SUBSET (Seats \ built),
           NEW quantity \in 1..MaxQuantity, Cardinality(chosen) + Cardinality(new) <= quantity
    PROVE  Cardinality(chosen \union new) \in 0..MaxQuantity
  <1>1. IsFiniteSet(chosen) /\ IsFiniteSet(new)
    BY SeatsExist, FS_Subset
  <1>2. /\ Cardinality(chosen) \in Nat /\ Cardinality(new) \in Nat
        /\ Cardinality(chosen \intersect new) \in Nat
    <2>1. IsFiniteSet(chosen \intersect new)
      BY <1>1, FS_Subset
    <2> QED
      BY <1>1, <2>1, FS_CardinalityType
  <1>3. /\ IsFiniteSet(chosen \union new)
        /\ Cardinality(chosen \union new) =
              Cardinality(chosen) + Cardinality(new) - Cardinality(chosen \intersect new)
    BY <1>1, FS_Union
  <1>4. Cardinality(chosen \union new) \in Nat
    BY <1>3, FS_CardinalityType
  <1> QED
    BY <1>2, <1>3, <1>4, Limits

LEMMA SubIsSold ==
    ASSUME BillInv, NEW s \in Ids, NEW holder \in Holders, NEW plan \in Plans,
           Subscribe(s, holder, plan)
    PROVE  BillInv'
  <1>1. PICK quantity \in 1..case.quantity, extra \in 0..case.extra,
             startsOnFirst \in DaysMatter, deposit \in DaysMatter,
             chosen \in SUBSET built, new \in SUBSET (Seats \ built) :
           /\ Cardinality(chosen) + Cardinality(new) <= quantity
           /\ NewSub(s, holder, plan, quantity, plan.people, extra, plan.priced,
                     Cardinality(chosen \union new), DepositBill(startsOnFirst, deposit))
           /\ built' = built \union new /\ UNCHANGED <<case, firstDay, requests>>
    BY DEF Subscribe
  <1>2. case \in Cases /\ built \subseteq Seats
    BY DEF BillInv, BillTypes
  <1>3. quantity \in 1..MaxQuantity /\ extra \in 0..MaxExtra
    BY <1>2, BoundsOfCase
  <1>4. Cardinality(chosen \union new) \in 0..MaxQuantity
    BY <1>1, <1>2, <1>3, SpacesCounted
  <1>5. plan.people \in Nat \ {0} /\ plan.priced \in BOOLEAN
    BY TermsOfPlans DEF PlanTerms
  <1>6. startsOnFirst \in BOOLEAN /\ deposit \in BOOLEAN
    BY DEF DaysMatter
  <1> QED
    BY <1>1, <1>2, <1>3, <1>4, <1>5, <1>6, SubMade

LEMMA ChangeApproved ==
    ASSUME BillInv, NEW r \in requests, Approve(r)
    PROVE  BillInv'
  <1>1. /\ requests' = requests \ {r} /\ UNCHANGED <<case, firstDay, built>>
        /\ r.company \in Companies /\ r.sub \in Ids \union {NoSub} /\ r.plan \in Plans
        /\ r.quantity \in 1..MaxQuantity
    BY DEF Approve, BillInv, BillTypes
  <1>2. CASE r.sub # NoSub
    <2> DEFINE s == r.sub
               sub == [subs[s] EXCEPT !.plan = r.plan, !.quantity = r.quantity,
                                      !.status = "active"]
    <2>1. s \in Ids /\ Exists(s) /\ subs[s] \in Subscription
      BY <1>1, <1>2, SubThere DEF BillInv, RequestsOfSubs
    <2>2. subs' = [subs EXCEPT ![s] = sub] /\ bills' = bills /\ agreed' = agreed
      BY <1>2 DEF Approve
    <2>3. /\ sub \in Subscription /\ sub.status = "active" /\ sub.extra = subs[s].extra
          /\ sub.before = subs[s].before /\ sub.deferred = subs[s].deferred
      BY <1>1, <2>1 DEF Subscription
    <2>4. subs'[s] = sub /\ \A q \in Ids \ {s} : subs'[q] = subs[q]
      BY <2>1, <2>2 DEF BillInv, BillTypes
    <2> HIDE DEF s, sub
    <2>5. BillTypes'
      BY <1>1, <2>1, <2>2, <2>3 DEF BillInv, BillTypes
    <2>6. RequestsOfSubs'
      BY <1>1, <2>3, <2>4 DEF BillInv, BillTypes, RequestsOfSubs, Exists
    <2> QED
      BY <1>1, <2>1, <2>2, <2>3, <2>4, <2>5, <2>6, SubKept
  <1>3. CASE r.sub = NoSub
    <2>1. PICK s \in Ids, deposit \in DaysMatter :
             NewSub(s, r.company, r.plan, r.quantity, 1, 0, FALSE, 0,
                    DepositBill(firstDay, deposit))
      BY <1>3 DEF Approve
    <2>2. /\ firstDay \in BOOLEAN /\ deposit \in BOOLEAN /\ 0 \in 0..MaxExtra
          /\ 0 \in 0..MaxQuantity /\ 1 \in Nat \ {0} /\ r.company \in Holders
          /\ built' \subseteq Seats
      <3>1. MaxExtra \in Nat /\ MaxQuantity \in Nat
        BY Limits
      <3>2. firstDay \in BOOLEAN /\ deposit \in BOOLEAN /\ built' \subseteq Seats
        BY <1>1 DEF BillInv, BillTypes, DaysMatter
      <3> QED
        BY <1>1, <3>1, <3>2 DEF Holders
    <2> QED
      BY <1>1, <2>1, <2>2, SubMade
  <1> QED
    BY <1>2, <1>3

LEMMA ChangeAsked ==
    ASSUME BillInv, NEW c \in Companies, RequestChange(c)
    PROVE  BillInv'
  <1>1. PICK plan \in case.plans, quantity \in 1..case.quantity, s \in Ids \union {NoSub} :
           /\ s # NoSub => Exists(s)
           /\ requests' = requests \union {[company |-> c, sub |-> s, plan |-> plan,
                                            quantity |-> quantity]}
    BY DEF RequestChange, Active, Exists
  <1>2. UNCHANGED <<case, firstDay, built, subs, bills, agreed>>
    BY DEF RequestChange
  <1>3. plan \in Plans /\ quantity \in 1..MaxQuantity
    BY BoundsOfCase DEF BillInv, BillTypes
  <1>4. BillTypes'
    BY <1>1, <1>2, <1>3 DEF BillInv, BillTypes
  <1>5. RequestsOfSubs'
    BY <1>1, <1>2 DEF BillInv, RequestsOfSubs, Exists
  <1> QED
    BY <1>2, <1>4, <1>5
       DEF BillInv, BilledAsAgreed, NotBilledTwice, MarksOfBills, Exists, BilledNow

\* Where subscriptions, bills and what is asked for stay, so does the invariant.
LEMMA NotAboutBills ==
    ASSUME BillInv, UNCHANGED <<case, firstDay, built, subs, bills, agreed>>,
           requests' \subseteq requests
    PROVE  BillInv'
  BY DEF BillInv, BillTypes, RequestsOfSubs, BilledAsAgreed, NotBilledTwice, MarksOfBills, Exists,
         BilledNow

\* A change of the extra people of one subscription.
LEMMA PeopleChange ==
    ASSUME BillInv, NEW s \in Ids, ChangeExtraPeople(s)
    PROVE  BillInv'
  <1>1. PICK count \in 0..case.extra, prorate \in DaysMatter :
        LET old == subs[s].extra
            rise == count > old
            billedNow == rise /\ prorate /\ subs[s].priced
            thisMonth == billedNow /\ firstDay /\ ~bills[s].onFirst
        IN  /\ Active(s)
            /\ subs' = [subs EXCEPT ![s] = Replaced(s, count, thisMonth)]
            /\ bills' = IF billedNow /\ ~thisMonth
                        THEN [bills EXCEPT ![s] = [bills[s] EXCEPT !.onFirst = @ \/ firstDay,
                                                                   !.whole = @ \/ firstDay,
                                                                   !.added = @ + (count - old)]]
                        ELSE bills
            /\ bills'[s].added <= case.extra
            /\ agreed' = [agreed EXCEPT ![s] =
                            [people |-> IF thisMonth THEN count ELSE @.people,
                             mixed |-> @.mixed \/ (thisMonth /\ subs[s].deferred),
                             reduced |-> @.reduced \/ ~rise]]
    BY DEF ChangeExtraPeople
  <1> DEFINE sub == subs[s]
             bill == bills[s]
             old == sub.extra
             rise == count > old
             billedNow == rise /\ prorate /\ sub.priced
             thisMonth == billedNow /\ firstDay /\ ~bill.onFirst
             mixed == agreed[s].mixed \/ (thisMonth /\ sub.deferred)
             reduced == agreed[s].reduced \/ ~rise
             onFirst == bill.onFirst \/ firstDay
             whole == bill.whole \/ firstDay
  <1>2. Exists(s) /\ sub \in Subscription
    BY <1>1, SubThere DEF BillInv, Active, Exists
  <1>3. UNCHANGED <<case, firstDay, built, requests>>
    BY DEF ChangeExtraPeople
  <1>4. /\ bill \in [planned: BOOLEAN, onFirst: BOOLEAN, whole: BOOLEAN,
                     counted: 0..MaxExtra, added: 0..MaxExtra, ran: BOOLEAN]
        /\ agreed[s] \in [people: 0..MaxExtra, mixed: BOOLEAN, reduced: BOOLEAN]
    BY DEF BillInv, BillTypes
  <1>5. /\ count \in 0..MaxExtra /\ case.extra \in Nat /\ MaxExtra \in Nat
        /\ 0..case.extra \subseteq 0..MaxExtra
    BY BoundsOfCase DEF BillInv, BillTypes
  <1>6. old \in 0..MaxExtra /\ BilledNow(s) \in 0..MaxExtra
    BY <1>2 DEF Subscription, BilledNow
  <1>7. /\ thisMonth \in BOOLEAN /\ mixed \in BOOLEAN /\ reduced \in BOOLEAN
        /\ onFirst \in BOOLEAN /\ whole \in BOOLEAN
    <2>1. thisMonth \in BOOLEAN
      OBVIOUS
    <2>2. mixed \in BOOLEAN
      OBVIOUS
    <2>3. reduced \in BOOLEAN
      OBVIOUS
    <2>4. onFirst \in BOOLEAN /\ whole \in BOOLEAN
      OBVIOUS
    <2> HIDE DEF thisMonth, mixed, reduced, onFirst, whole
    <2> QED
      BY <2>1, <2>2, <2>3, <2>4
  <1>8. /\ subs'[s] = [sub EXCEPT !.before = BilledNow(s), !.extra = count,
                                  !.deferred = ~thisMonth]
        /\ \A r \in Ids \ {s} : subs'[r] = subs[r]
        /\ subs' = [subs EXCEPT ![s] = subs'[s]]
    BY <1>1 DEF BillInv, BillTypes, Replaced
  <1>9. /\ agreed'[s] = [people |-> IF thisMonth THEN count ELSE agreed[s].people,
                         mixed |-> mixed, reduced |-> reduced]
        /\ \A r \in Ids \ {s} : agreed'[r] = agreed[r]
        /\ agreed' = [agreed EXCEPT ![s] = agreed'[s]]
    BY <1>1 DEF BillInv, BillTypes
  <1>10. /\ bills'[s] = IF billedNow /\ ~thisMonth
                        THEN [bill EXCEPT !.onFirst = onFirst, !.whole = whole,
                                          !.added = bill.added + (count - old)]
                        ELSE bill
         /\ \A r \in Ids \ {s} : bills'[r] = bills[r]
         /\ bills' = [bills EXCEPT ![s] = bills'[s]]
         /\ bills'[s].added <= case.extra
    <2> DEFINE new == IF billedNow /\ ~thisMonth
                      THEN [bill EXCEPT !.onFirst = onFirst, !.whole = whole,
                                        !.added = bill.added + (count - old)]
                      ELSE bill
    <2>1. bills \in [Ids -> [planned: BOOLEAN, onFirst: BOOLEAN, whole: BOOLEAN,
                             counted: 0..MaxExtra, added: 0..MaxExtra, ran: BOOLEAN]]
      BY DEF BillInv, BillTypes
    <2>2. bills' = [bills EXCEPT ![s] = new]
      <3>1. CASE billedNow /\ ~thisMonth
        BY <1>1, <3>1
      <3>2. CASE ~(billedNow /\ ~thisMonth)
        <4>1. bills' = bills
          BY <1>1, <3>2
        <4> QED
          BY <2>1, <3>2, <4>1
      <3> QED
        BY <3>1, <3>2
    <2> HIDE DEF new
    <2>3. bills'[s] = new /\ \A r \in Ids \ {s} : bills'[r] = bills[r]
      BY <2>1, <2>2
    <2> QED
      BY <1>1, <2>2, <2>3 DEF new
  <1>11. /\ thisMonth => billedNow /\ firstDay /\ ~bill.onFirst
         /\ billedNow => rise
         /\ rise <=> count > old
         /\ ~rise => reduced
         /\ ~reduced => ~agreed[s].reduced
         /\ bill.onFirst => onFirst
         /\ bill.whole => whole
         /\ firstDay => onFirst
    OBVIOUS
  <1> HIDE DEF sub, bill, old, rise, billedNow, thisMonth, mixed, reduced, onFirst, whole
  <1>12. /\ subs'[s] \in Subscription /\ subs'[s].status = sub.status
         /\ subs'[s].before = BilledNow(s) /\ subs'[s].extra = count
         /\ subs'[s].deferred = ~thisMonth
    BY <1>2, <1>5, <1>6, <1>7, <1>8 DEF Subscription
  <1>13. /\ agreed'[s] \in [people: 0..MaxExtra, mixed: BOOLEAN, reduced: BOOLEAN]
         /\ agreed'[s].people = IF thisMonth THEN count ELSE agreed[s].people
         /\ agreed'[s].reduced = reduced
    BY <1>4, <1>5, <1>7, <1>9
  <1>14. /\ bills'[s] \in [planned: BOOLEAN, onFirst: BOOLEAN, whole: BOOLEAN,
                           counted: 0..MaxExtra, added: 0..MaxExtra, ran: BOOLEAN]
         /\ bills'[s].planned = bill.planned /\ bills'[s].counted = bill.counted
         /\ bills'[s].onFirst = (IF billedNow /\ ~thisMonth THEN onFirst ELSE bill.onFirst)
         /\ bills'[s].whole = (IF billedNow /\ ~thisMonth THEN whole ELSE bill.whole)
         /\ bills'[s].added = (IF billedNow /\ ~thisMonth THEN bill.added + (count - old)
                               ELSE bill.added)
    <2>1. CASE billedNow /\ ~thisMonth
      <3>1. bills'[s] = [bill EXCEPT !.onFirst = onFirst, !.whole = whole,
                                     !.added = bill.added + (count - old)]
        BY <1>10, <2>1
      <3>2. /\ bills'[s].planned = bill.planned /\ bills'[s].counted = bill.counted
            /\ bills'[s].onFirst = onFirst /\ bills'[s].whole = whole
            /\ bills'[s].added = bill.added + (count - old)
        BY <1>4, <3>1
      <3>3. bill.added + (count - old) \in 0..MaxExtra
        BY <1>4, <1>5, <1>6, <1>10, <1>11, <2>1, <3>2
      <3>4. bills'[s] \in [planned: BOOLEAN, onFirst: BOOLEAN, whole: BOOLEAN,
                           counted: 0..MaxExtra, added: 0..MaxExtra, ran: BOOLEAN]
        BY <1>4, <1>7, <3>1, <3>3
      <3> QED
        BY <2>1, <3>2, <3>4
    <2>2. CASE ~(billedNow /\ ~thisMonth)
      BY <1>4, <1>10, <2>2
    <2> QED
      BY <2>1, <2>2
  <1>15. BillTypes'
    BY <1>3, <1>8, <1>9, <1>10, <1>12, <1>13, <1>14 DEF BillInv, BillTypes
  <1>16. Exists(s)'
    BY <1>2, <1>12 DEF Exists, sub
  <1>17. RequestsOfSubs'
    BY <1>3, <1>8, <1>16 DEF BillInv, BillTypes, RequestsOfSubs, Exists
  <1>18. BilledNow(s)' = IF thisMonth THEN count ELSE BilledNow(s)
    BY <1>12 DEF BilledNow
  <1>19. BilledAsAgreed(s) /\ NotBilledTwice(s) /\ MarksOfBills(s)
    BY DEF BillInv
  <1>20. BilledAsAgreed(s)'
    BY <1>2, <1>13, <1>18, <1>19 DEF BilledAsAgreed
  <1>21. MarksOfBills(s)'
    <2>1. bill.planned => bills'[s].onFirst /\ bills'[s].whole
      BY <1>11, <1>14, <1>19 DEF MarksOfBills, bill
    <2>2. ~bill.planned => bills'[s].counted = 0
      BY <1>14, <1>19 DEF MarksOfBills, bill
    <2>3. firstDay /\ bills'[s].added > 0 => bills'[s].onFirst
      BY <1>11, <1>14, <1>19 DEF MarksOfBills, bill
    <2> QED
      BY <1>3, <1>14, <2>1, <2>2, <2>3 DEF MarksOfBills
  <1>22. NotBilledTwice(s)'
    <2> SUFFICES ASSUME ~reduced
                 PROVE  /\ BilledNow(s)' + bills'[s].added <= count
                        /\ bills'[s].counted + bills'[s].added <= count
      BY <1>12, <1>13 DEF NotBilledTwice
    <2>1. /\ rise /\ count > old
          /\ BilledNow(s) + bill.added <= old /\ bill.counted + bill.added <= old
      BY <1>2, <1>11, <1>19 DEF NotBilledTwice, bill, old, sub
    <2>2. CASE thisMonth
      <3>1. ~bill.planned /\ bill.counted = 0 /\ bill.added = 0
        BY <1>4, <1>11, <1>19, <2>2 DEF MarksOfBills, bill
      <3> QED
        BY <1>5, <1>14, <1>18, <2>2, <3>1
    <2>3. CASE ~thisMonth
      BY <1>4, <1>5, <1>6, <1>14, <1>18, <2>1, <2>3
    <2> QED
      BY <2>2, <2>3
  <1> QED
    BY <1>3, <1>8, <1>9, <1>10, <1>15, <1>17, <1>20, <1>21, <1>22, OneSub

LEMMA MonthRuns ==
    ASSUME BillInv, MonthlyBilling
    PROVE  /\ BillInv'
           /\ \A s \in Ids : ~bills[s].planned /\ bills'[s].planned /\ subs[s].priced =>
                                 bills'[s].counted = agreed[s].people
  <1>1. /\ UNCHANGED <<case, firstDay, built, subs, requests, agreed>>
        /\ bills' = [s \in Ids |->
                        IF Active(s)
                        THEN [(IF bills[s].whole THEN bills[s] ELSE RegularBill(s))
                                 EXCEPT !.ran = TRUE]
                        ELSE bills[s]]
    BY DEF MonthlyBilling
  <1>2. ASSUME NEW s \in Ids
        PROVE  /\ bills'[s] \in [planned: BOOLEAN, onFirst: BOOLEAN, whole: BOOLEAN,
                                 counted: 0..MaxExtra, added: 0..MaxExtra, ran: BOOLEAN]
               /\ NotBilledTwice(s)' /\ MarksOfBills(s)'
               /\ ~bills[s].planned /\ bills'[s].planned /\ subs[s].priced =>
                     bills'[s].counted = agreed[s].people
    <2> DEFINE bill == bills[s]
               count == IF subs[s].priced THEN BilledNow(s) ELSE 0
    <2>1. /\ bill \in [planned: BOOLEAN, onFirst: BOOLEAN, whole: BOOLEAN,
                       counted: 0..MaxExtra, added: 0..MaxExtra, ran: BOOLEAN]
          /\ BilledAsAgreed(s) /\ NotBilledTwice(s) /\ MarksOfBills(s)
      BY DEF BillInv, BillTypes
    <2>2. CASE ~Active(s)
      <3>1. bills'[s] = bill
        BY <1>1, <2>2
      <3> QED
        BY <1>1, <2>1, <3>1 DEF NotBilledTwice, MarksOfBills, Exists, BilledNow
    <2>3. CASE Active(s) /\ bill.whole
      <3>1. bills'[s] = [bill EXCEPT !.ran = TRUE]
        BY <1>1, <2>3
      <3>2. /\ bills'[s] \in [planned: BOOLEAN, onFirst: BOOLEAN, whole: BOOLEAN,
                              counted: 0..MaxExtra, added: 0..MaxExtra, ran: BOOLEAN]
            /\ bills'[s].planned = bill.planned /\ bills'[s].onFirst = bill.onFirst
            /\ bills'[s].whole = bill.whole /\ bills'[s].counted = bill.counted
            /\ bills'[s].added = bill.added
        BY <2>1, <3>1
      <3> QED
        BY <1>1, <2>1, <3>2 DEF NotBilledTwice, MarksOfBills, Exists, BilledNow
    <2>4. CASE Active(s) /\ ~bill.whole
      <3>1. Exists(s) /\ subs[s] \in Subscription
        BY <2>4, SubThere DEF BillInv, Active, Exists
      <3>2. BilledNow(s) \in 0..MaxExtra /\ count \in 0..MaxExtra /\ subs[s].extra \in 0..MaxExtra
        BY <3>1, Limits DEF Subscription, BilledNow
      <3>3. bills'[s] = [bill EXCEPT !.planned = TRUE, !.onFirst = TRUE, !.whole = TRUE,
                                     !.counted = count, !.ran = TRUE]
        BY <1>1, <2>1, <2>4 DEF RegularBill
      <3> HIDE DEF count
      <3>4. /\ bills'[s] \in [planned: BOOLEAN, onFirst: BOOLEAN, whole: BOOLEAN,
                              counted: 0..MaxExtra, added: 0..MaxExtra, ran: BOOLEAN]
            /\ bills'[s].planned /\ bills'[s].onFirst /\ bills'[s].whole
            /\ bills'[s].counted = count /\ bills'[s].added = bill.added
        BY <2>1, <3>2, <3>3
      <3>5. MarksOfBills(s)'
        BY <3>4 DEF MarksOfBills
      <3>6. NotBilledTwice(s)'
        <4> SUFFICES ASSUME ~agreed[s].reduced
                     PROVE  /\ BilledNow(s) + bill.added <= subs[s].extra
                            /\ count + bill.added <= subs[s].extra
          BY <1>1, <3>4 DEF NotBilledTwice, BilledNow
        <4>1. BilledNow(s) + bill.added <= subs[s].extra
          BY <2>1, <3>1 DEF NotBilledTwice
        <4> QED
          BY <2>1, <3>2, <4>1 DEF count
      <3>7. subs[s].priced => bills'[s].counted = agreed[s].people
        BY <2>1, <3>1, <3>4 DEF BilledAsAgreed, count
      <3> QED
        BY <3>4, <3>5, <3>6, <3>7
    <2> QED
      BY <2>2, <2>3, <2>4
  <1>3. BillTypes'
    <2>1. bills' \in [Ids -> [planned: BOOLEAN, onFirst: BOOLEAN, whole: BOOLEAN,
                              counted: 0..MaxExtra, added: 0..MaxExtra, ran: BOOLEAN]]
      BY <1>1, <1>2
    <2> QED
      BY <1>1, <2>1 DEF BillInv, BillTypes
  <1>4. RequestsOfSubs' /\ \A s \in Ids : BilledAsAgreed(s)'
    BY <1>1 DEF BillInv, RequestsOfSubs, BilledAsAgreed, Exists, BilledNow
  <1> QED
    BY <1>2, <1>3, <1>4 DEF BillInv

LEMMA DayGoesBy ==
    ASSUME BillInv, NextDay
    PROVE  BillInv'
  <1>1. firstDay' = ~firstDay /\ UNCHANGED <<case, built, requests>>
    BY DEF NextDay
  <1>2. CASE firstDay
    <2>1. UNCHANGED <<subs, bills, agreed>> /\ ~firstDay'
      BY <1>1, <1>2 DEF NextDay
    <2>2. BillTypes'
      BY <1>1, <2>1 DEF BillInv, BillTypes
    <2> QED
      BY <1>1, <2>1, <2>2 DEF BillInv, RequestsOfSubs, BilledAsAgreed, NotBilledTwice, MarksOfBills,
                              Exists, BilledNow
  <1>3. CASE ~firstDay
    <2>1. /\ subs' = [s \in Ids |-> IF Exists(s) THEN [subs[s] EXCEPT !.deferred = FALSE]
                                    ELSE Absent]
          /\ bills' = [s \in Ids |-> NoBills]
          /\ agreed' = [s \in Ids |-> AsAgreed(IF Exists(s) THEN subs[s].extra ELSE 0)]
      BY <1>3 DEF NextDay
    <2>2. MaxExtra \in Nat
      BY Limits
    <2>3. ASSUME NEW s \in Ids, Exists(s)
          PROVE  /\ subs'[s] \in Subscription /\ subs'[s].extra = subs[s].extra
                 /\ ~subs'[s].deferred /\ subs'[s].status = subs[s].status
                 /\ subs[s].extra \in 0..MaxExtra
      <3>1. subs[s] \in Subscription /\ subs'[s] = [subs[s] EXCEPT !.deferred = FALSE]
        BY <2>1, <2>3, SubThere DEF BillInv
      <3> QED
        BY <3>1 DEF Subscription
    <2>4. \A s \in Ids : Exists(s)' <=> Exists(s)
      BY <2>1, <2>3, NoneThere DEF Exists, Absent
    <2>5. \A n \in 0..MaxExtra :
             /\ AsAgreed(n) \in [people: 0..MaxExtra, mixed: BOOLEAN, reduced: BOOLEAN]
             /\ AsAgreed(n).people = n
      BY DEF AsAgreed
    <2>6. /\ NoBills \in [planned: BOOLEAN, onFirst: BOOLEAN, whole: BOOLEAN,
                          counted: 0..MaxExtra, added: 0..MaxExtra, ran: BOOLEAN]
          /\ NoBills.counted = 0 /\ NoBills.added = 0
      <3>1. FALSE \in BOOLEAN /\ 0 \in 0..MaxExtra
        BY <2>2
      <3>2. NoBills \in [planned: BOOLEAN, onFirst: BOOLEAN, whole: BOOLEAN,
                         counted: 0..MaxExtra, added: 0..MaxExtra, ran: BOOLEAN]
        BY <3>1, Zenon DEF NoBills
      <3>3. NoBills.counted = 0 /\ NoBills.added = 0
        BY DEF NoBills
      <3> QED
        BY <3>2, <3>3
    <2>7. ~NoBills.planned
      BY Zenon DEF NoBills
    <2> DEFINE people(s) == IF Exists(s) THEN subs[s].extra ELSE 0
    <2>8. \A s \in Ids : people(s) \in 0..MaxExtra
      BY <2>2, <2>3
    <2>9. subs' \in [Ids -> Subscription \union {Absent}]
      BY <2>1, <2>3
    <2>10. /\ bills' \in [Ids -> [planned: BOOLEAN, onFirst: BOOLEAN, whole: BOOLEAN,
                                  counted: 0..MaxExtra, added: 0..MaxExtra, ran: BOOLEAN]]
           /\ agreed' \in [Ids -> [people: 0..MaxExtra, mixed: BOOLEAN, reduced: BOOLEAN]]
           /\ \A s \in Ids : bills'[s] = NoBills /\ agreed'[s].people = people(s)
      BY <2>1, <2>5, <2>6, <2>8
    <2>11. BillTypes'
      BY <1>1, <2>9, <2>10 DEF BillInv, BillTypes
    <2>12. RequestsOfSubs'
      BY <1>1, <2>4 DEF BillInv, BillTypes, RequestsOfSubs
    <2>13. \A s \in Ids : BilledAsAgreed(s)'
      BY <2>3, <2>4, <2>10 DEF BilledAsAgreed, BilledNow
    <2>14. \A s \in Ids : NotBilledTwice(s)'
      BY <2>3, <2>4, <2>6, <2>10 DEF NotBilledTwice, BilledNow
    <2>15. \A s \in Ids : MarksOfBills(s)'
      BY <2>6, <2>7, <2>10 DEF MarksOfBills
    <2> QED
      BY <2>11, <2>12, <2>13, <2>14, <2>15 DEF BillInv
  <1> QED
    BY <1>2, <1>3

LEMMA BillsStep == BillInv /\ [Next]_vars => BillInv'
  <1> SUFFICES ASSUME BillInv, [Next]_vars PROVE BillInv'
    OBVIOUS
  <1>1. CASE \/ \E r \in requests : Deny(r)
             \/ \E seat \in Seats, holder \in Holders : Allocate(seat, holder)
             \/ \E k \in DOMAIN places : EndAllocation(k) \/ Release(k)
                                         \/ \E e \in Employees : Assign(k, e)
             \/ \E c \in Companies : \E e \in EmployeesOf[c] : EditPlace(c, e)
             \/ \E e \in Employees : ReleaseAll(e)
             \/ UNCHANGED vars
    <2>1. /\ UNCHANGED <<case, firstDay, built, subs, bills, agreed>>
          /\ requests' \subseteq requests
      BY <1>1 DEF Deny, Allocate, EndAllocation, Release, Assign, EditPlace, ReleaseAll, vars
    <2> QED
      BY <2>1, NotAboutBills
  <1> QED
    BY <1>1, SubIsSold, SubEnds, PeopleChange, ChangeAsked, ChangeApproved, MonthRuns, DayGoesBy
       DEF Next

\* An invoice of this month becomes a regular one with the monthly run alone.
LEMMA RegularBillStep ==
    ASSUME BillInv, [Next]_vars
    PROVE  \A s \in Ids :
              ~bills[s].planned /\ bills'[s].planned /\ subs[s].priced /\ ~agreed[s].mixed =>
                  bills'[s].counted = agreed[s].people
  <1>1. CASE MonthlyBilling
    BY <1>1, MonthRuns
  <1>2. CASE ~MonthlyBilling
    <2> SUFFICES ASSUME NEW s \in Ids PROVE bills'[s].planned => bills[s].planned
      OBVIOUS
    <2>1. \A first, deposit \in BOOLEAN : ~DepositBill(first, deposit).planned
      BY Zenon DEF DepositBill, NoBills
    <2>2. bills \in [Ids -> [planned: BOOLEAN, onFirst: BOOLEAN, whole: BOOLEAN,
                             counted: 0..MaxExtra, added: 0..MaxExtra, ran: BOOLEAN]]
      BY DEF BillInv, BillTypes
    <2>3. CASE bills' = bills
      BY <2>3
    <2>4. ASSUME NEW r \in Ids, NEW first \in BOOLEAN, NEW deposit \in BOOLEAN,
                 bills' = [bills EXCEPT ![r] = DepositBill(first, deposit)]
          PROVE  bills'[s].planned => bills[s].planned
      BY <2>1, <2>2, <2>4
    <2>5. ASSUME NEW r \in Ids, NEW holder \in Holders, NEW plan \in Plans,
                 Subscribe(r, holder, plan)
          PROVE  bills'[s].planned => bills[s].planned
      <3>1. DaysMatter \subseteq BOOLEAN
        BY DEF DaysMatter
      <3> QED
        BY <2>4, <2>5, <3>1 DEF Subscribe, NewSub
    <2>6. ASSUME NEW r \in requests, Approve(r)
          PROVE  bills'[s].planned => bills[s].planned
      <3>1. DaysMatter \subseteq BOOLEAN /\ firstDay \in BOOLEAN
        BY DEF DaysMatter, BillInv, BillTypes
      <3> QED
        BY <2>3, <2>4, <2>6, <3>1 DEF Approve, NewSub
    <2>7. ASSUME NEW r \in Ids, ChangeExtraPeople(r)
          PROVE  bills'[s].planned => bills[s].planned
      <3>1. PICK count \in 0..case.extra, prorate \in DaysMatter :
               \/ bills' = bills
               \/ bills' = [bills EXCEPT ![r] = [bills[r] EXCEPT
                               !.onFirst = @ \/ firstDay, !.whole = @ \/ firstDay,
                               !.added = @ + (count - subs[r].extra)]]
        BY <2>7 DEF ChangeExtraPeople
      <3> DEFINE onFirst == bills[r].onFirst \/ firstDay
                 whole == bills[r].whole \/ firstDay
                 added == bills[r].added + (count - subs[r].extra)
      <3>2. \/ bills' = bills
            \/ bills' = [bills EXCEPT ![r] = [bills[r] EXCEPT !.onFirst = onFirst,
                                                !.whole = whole, !.added = added]]
        BY <3>1
      <3> HIDE DEF onFirst, whole, added
      <3> QED
        BY <2>2, <2>3, <3>2
    <2>8. CASE NextDay
      BY <2>8 DEF NextDay, NoBills
    <2> QED
      BY <1>2, <2>3, <2>5, <2>6, <2>7, <2>8
         DEF Next, vars, EndSub, RequestChange, Deny, Allocate, EndAllocation, Release, Assign,
             EditPlace, ReleaseAll
  <1> QED
    BY <1>1, <1>2

-----------------------------------------------------------------------------
(* Who holds a space.  The inductive invariant: what is held under a subscription is held by  *)
(* its holder, and rows of one space agree on both.                                           *)

RowsIn(B) == [seat: B, holder: Holders, sub: Ids \union {NoSub},
              user: Employees \union Individuals \union {Nobody}]
PlaceRows == RowsIn(built)

HeldUnder(s, holder) == s # NoSub => Exists(s) /\ subs[s].holder = holder

PlacesInv ==
    /\ places \in Seq(PlaceRows)
    /\ \A k \in DOMAIN places : HeldUnder(places[k].sub, places[k].holder)
    /\ SpaceHeldOnce

\* Rows for `given' spaces, and rows that agree with those there are.
RowsFor(rows, B, given, holder, s) ==
    /\ rows \in Seq(RowsIn(B))
    /\ \A i \in DOMAIN rows : /\ rows[i].holder = holder /\ rows[i].sub = s
                              /\ \E j \in DOMAIN given : rows[i].seat = given[j]
Fits(rows, holder, s) ==
    /\ \A i \in DOMAIN rows : rows[i].holder = holder /\ rows[i].sub = s
    /\ \A i \in DOMAIN rows, k \in DOMAIN places :
          places[k].seat = rows[i].seat => places[k].holder = holder /\ places[k].sub = s

\* Subscriptions go on to exist, and stay those of their holders.
SubsStay == \A s \in Ids : Exists(s) => Exists(s)' /\ subs'[s].holder = subs[s].holder

\* The elements of a finite set of numbers, by how many are before them.
LEMMA Ranks ==
    ASSUME NEW n \in Nat, NEW K \in SUBSET (1..n)
    PROVE  /\ Cardinality(K) \in Nat
           /\ \A i \in 0..(Cardinality(K) - 1) : \E k \in K : Cardinality({j \in K : j < k}) = i
  <1> DEFINE before(k) == {j \in K : j < k}
             m == Cardinality(K)
             rank == [k \in K |-> Cardinality(before(k))]
  <1>1. IsFiniteSet(K) /\ m \in Nat
    <2>1. IsFiniteSet(1..n)
      BY FS_Interval
    <2>2. IsFiniteSet(K)
      BY <2>1, FS_Subset
    <2> QED
      BY <2>2, FS_CardinalityType
  <1>2. ASSUME NEW k \in K
        PROVE  /\ IsFiniteSet(before(k)) /\ Cardinality(before(k)) \in 0..(m - 1)
    <2>1. before(k) \in SUBSET K /\ before(k) # K
      OBVIOUS
    <2>2. /\ IsFiniteSet(before(k)) /\ Cardinality(before(k)) <= m
          /\ Cardinality(before(k)) # m
      BY <1>1, <2>1, FS_Subset
    <2>3. Cardinality(before(k)) \in Nat
      BY <2>2, FS_CardinalityType
    <2> HIDE DEF before, m
    <2> QED
      BY <1>1, <2>2, <2>3
  <1>3. ASSUME NEW j \in K, NEW k \in K, j < k
        PROVE  Cardinality(before(j)) # Cardinality(before(k))
    <2>1. before(j) \in SUBSET before(k)
      <3>1. \A i \in K : i < j => i < k
        BY <1>3
      <3> QED
        BY <3>1
    <2>2. j \in before(k) /\ j \notin before(j)
      BY <1>3
    <2>3. before(j) # before(k)
      BY <2>2
    <2> HIDE DEF before
    <2> QED
      BY <1>2, <2>1, <2>3, FS_Subset
  <1> HIDE DEF before, m
  <1>4. rank \in [K -> 0..(m - 1)]
    BY <1>2
  <1>5. rank \in Injection(K, 0..(m - 1))
    <2>1. \A j, k \in K : j # k => rank[j] # rank[k]
      BY <1>3
    <2> HIDE DEF rank
    <2> QED
      BY <1>4, <2>1 DEF Injection, IsInjective
  <1>6. IsFiniteSet(0..(m - 1)) /\ Cardinality(0..(m - 1)) = m
    BY <1>1, FS_Interval
  <1>7. rank \in Surjection(K, 0..(m - 1))
    BY <1>5, <1>6, FS_Injection DEF m
  <1>8. \A i \in 0..(m - 1) : \E k \in K : rank[k] = i
    BY <1>7 DEF Surjection
  <1> QED
    BY <1>1, <1>8 DEF before, m

\* What is kept are rows there were.
LEMMA KeptRows ==
    ASSUME NEW S, places \in Seq(S), NEW K \in SUBSET DOMAIN places
    PROVE  /\ Kept(K) \in Seq(S)
           /\ \A i \in DOMAIN Kept(K) : \E k \in K : Kept(K)[i] = places[k]
  <1> DEFINE nth(i) == CHOOSE k \in K : Cardinality({j \in K : j < k}) = i - 1
  <1>1. Len(places) \in Nat /\ DOMAIN places = 1..Len(places)
    OBVIOUS
  <1>2. Cardinality(K) \in Nat /\ \A i \in 1..Cardinality(K) : nth(i) \in K
    <2>1. /\ Cardinality(K) \in Nat
          /\ \A i \in 0..(Cardinality(K) - 1) : \E k \in K : Cardinality({j \in K : j < k}) = i
      BY <1>1, Ranks
    <2>2. ASSUME NEW i \in 1..Cardinality(K) PROVE nth(i) \in K
      <3>1. i - 1 \in 0..(Cardinality(K) - 1)
        BY <2>1
      <3>2. \E k \in K : Cardinality({j \in K : j < k}) = i - 1
        BY <2>1, <3>1
      <3> QED
        BY <3>2
    <2> QED
      BY <2>1, <2>2
  <1> HIDE DEF nth
  <1>3. Kept(K) = [i \in 1..Cardinality(K) |-> places[nth(i)]]
    BY DEF Kept, nth
  <1> QED
    BY <1>2, <1>3

\* The first of some rows is one of them.
LEMMA FirstRow ==
    ASSUME NEW n \in Nat, NEW K \in SUBSET (1..n), K # {}
    PROVE  Min(K) \in K
  <1>1. IsFiniteSet(K)
    <2>1. IsFiniteSet(1..n)
      BY FS_Interval
    <2> QED
      BY <2>1, FS_Subset
  <1>2. PICK k \in K : Cardinality({j \in K : j < k}) = 0
    <2>1. Cardinality(K) \in Nat /\ Cardinality(K) # 0
      BY <1>1, FS_CardinalityType, FS_EmptySet
    <2>2. 0 \in 0..(Cardinality(K) - 1)
      BY <2>1
    <2> QED
      BY <2>2, Ranks
  <1>3. IsFiniteSet({j \in K : j < k})
    BY <1>1, FS_Subset
  <1>4. {j \in K : j < k} = {}
    BY <1>2, <1>3, FS_EmptySet
  <1>5. \A j \in K : k <= j
    BY <1>4
  <1> QED
    BY <1>5 DEF Min

\* Numbers in blocks of one length.
LEMMA Blocks ==
    ASSUME NEW n \in Nat, NEW r \in Nat \ {0}, NEW k \in 1..(n * r)
    PROVE  ((k - 1) \div r) + 1 \in 1..n
  <1>1. PICK d \in Int : d = (k - 1) \div r
    OBVIOUS
  <1>2. r * d <= k - 1 /\ k - 1 < r * d + r
    BY <1>1
  <1>3. n * r \in Nat /\ k <= n * r
    OBVIOUS
  <1>4. d >= 0
    <2> SUFFICES ASSUME d <= -1 PROVE FALSE
      OBVIOUS
    <2>1. r * d <= r * (-1)
      OBVIOUS
    <2> QED
      BY <1>2, <2>1
  <1>5. d < n
    <2> SUFFICES ASSUME n <= d PROVE FALSE
      OBVIOUS
    <2>1. n * r <= r * d
      OBVIOUS
    <2> QED
      BY <1>2, <1>3, <2>1
  <1> QED
    BY <1>1, <1>4, <1>5

\* Spaces are given to one holder, under one agreement.
LEMMA RowsOfSpaces ==
    ASSUME NEW B, NEW given \in Seq(B), NEW holder \in Holders, NEW s \in Ids \union {NoSub},
           NEW n \in Nat \ {0}
    PROVE  RowsFor(SpacePlaces(given, holder, s, n), B, given, holder, s)
  <1> DEFINE rows == IF holder \in Individuals THEN 1 ELSE n
             user == IF holder \in Individuals THEN holder ELSE Nobody
             at(k) == ((k - 1) \div rows) + 1
             new == SpacePlaces(given, holder, s, n)
             User == Employees \union Individuals \union {Nobody}
             Row == [seat: B, holder: Holders, sub: Ids \union {NoSub}, user: User]
  <1>1. rows \in Nat \ {0} /\ user \in User /\ Len(given) \in Nat
    OBVIOUS
  <1>2. new = [k \in 1..(Len(given) * rows) |-> Place(given[at(k)], holder, s, user)]
    BY DEF SpacePlaces
  <1> HIDE DEF rows, user, new, User
  <1>3. \A k \in 1..(Len(given) * rows) : at(k) \in DOMAIN given
    BY <1>1, Blocks
  <1>4. Len(given) * rows \in Nat
    BY <1>1
  <1> HIDE DEF at
  <1>5. ASSUME NEW b \in B
        PROVE  /\ Place(b, holder, s, user) \in Row
               /\ Place(b, holder, s, user).seat = b
               /\ Place(b, holder, s, user).holder = holder
               /\ Place(b, holder, s, user).sub = s
    BY <1>1 DEF Place
  <1>6. \A i \in DOMAIN given : given[i] \in B
    OBVIOUS
  <1>7. \A k \in 1..(Len(given) * rows) :
            new[k] = Place(given[at(k)], holder, s, user) /\ given[at(k)] \in B
    BY <1>2, <1>3, <1>6
  <1>8. DOMAIN new = 1..(Len(given) * rows)
    BY <1>2
  <1>9. new \in Seq(Row)
    <2> DEFINE N == Len(given) * rows
    <2>1. N \in Nat /\ DOMAIN new = 1..N
      BY <1>4, <1>8
    <2>2. \A k \in 1..N : new[k] \in Row
      BY <1>5, <1>7
    <2>3. new = [k \in 1..N |-> new[k]]
      BY <1>2
    <2> HIDE DEF N, Row
    <2> QED
      BY <2>1, <2>2, <2>3
  <1>10. \A k \in DOMAIN new : new[k].holder = holder /\ new[k].sub = s
                               /\ \E i \in DOMAIN given : new[k].seat = given[i]
    BY <1>3, <1>5, <1>7, <1>8
  <1> QED
    BY <1>9, <1>10 DEF User, new, RowsFor, RowsIn

\* Rows that are taken away, or change the person they are named to.
LEMMA PlacesLeft ==
    ASSUME PlacesInv, SubsStay, places' \in Seq(PlaceRows)',
           \A i \in DOMAIN places' : \E k \in DOMAIN places :
               /\ places'[i].seat = places[k].seat /\ places'[i].holder = places[k].holder
               /\ places'[i].sub = places[k].sub
    PROVE  PlacesInv'
  <1>1. \A k \in DOMAIN places : places[k].sub \in Ids \union {NoSub}
    <2>1. \A k \in DOMAIN places : places[k] \in PlaceRows
      BY DEF PlacesInv
    <2> QED
      BY <2>1 DEF PlaceRows, RowsIn
  <1>2. \A i \in DOMAIN places' : HeldUnder(places[i].sub, places[i].holder)'
    BY <1>1 DEF PlacesInv, SubsStay, HeldUnder
  <1>3. SpaceHeldOnce'
    BY DEF PlacesInv, SpaceHeldOnce
  <1> QED
    BY <1>2, <1>3 DEF PlacesInv

LEMMA PlacesStay ==
    ASSUME PlacesInv, SubsStay, built' = built, places' = places
    PROVE  PlacesInv'
  <1>1. places' \in Seq(PlaceRows)'
    BY DEF PlacesInv, PlaceRows, RowsIn
  <1> QED
    BY <1>1, PlacesLeft

LEMMA PlacesKept ==
    ASSUME PlacesInv, SubsStay, built' = built, NEW K \in SUBSET DOMAIN places, places' = Kept(K)
    PROVE  PlacesInv'
  <1>1. places \in Seq(PlaceRows) /\ PlaceRows' = PlaceRows
    BY DEF PlacesInv, PlaceRows, RowsIn
  <1>2. /\ Kept(K) \in Seq(PlaceRows)
        /\ \A i \in DOMAIN Kept(K) : \E k \in K : Kept(K)[i] = places[k]
    BY <1>1, KeptRows
  <1>3. places' \in Seq(PlaceRows)'
    BY <1>1, <1>2
  <1>4. \A i \in DOMAIN places' : \E k \in DOMAIN places : places'[i] = places[k]
    BY <1>2
  <1> QED
    BY <1>3, <1>4, PlacesLeft

\* Rows that are added are for spaces nobody has, or has under the same agreement.
LEMMA PlacesAdded ==
    ASSUME PlacesInv, SubsStay, built \subseteq built', NEW holder \in Holders,
           NEW s \in Ids \union {NoSub}, HeldUnder(s, holder)',
           NEW new \in Seq(RowsIn(built')), places' = places \o new, Fits(new, holder, s)
    PROVE  PlacesInv'
  <1> DEFINE n == Len(places)
             Rows2 == RowsIn(built')
             Old(p) == \E k \in DOMAIN places : p = places[k]
             New(p) == \E i \in DOMAIN new : p = new[i]
  <1>1. PlaceRows' = Rows2 /\ PlaceRows \subseteq Rows2
    BY DEF PlaceRows, RowsIn
  <1>2. places \in Seq(PlaceRows)
    BY DEF PlacesInv
  <1>3. places \in Seq(Rows2)
    <2>1. n \in Nat /\ DOMAIN places = 1..n
      BY <1>2
    <2>2. \A k \in 1..n : places[k] \in Rows2
      BY <1>1, <1>2, <2>1
    <2> HIDE DEF Rows2
    <2>3. \A T : n \in Nat /\ places = [k \in 1..n |-> places[k]]
                /\ (\A k \in 1..n : places[k] \in T) => places \in Seq(T)
      OBVIOUS
    <2>4. places = [k \in 1..n |-> places[k]]
      BY <1>2, <2>1
    <2> QED
      BY <2>1, <2>2, <2>3, <2>4
  <1> HIDE DEF Rows2
  <1>4. new \in Seq(Rows2)
    BY DEF Rows2
  <1>5. places' \in Seq(Rows2)
    BY <1>3, <1>4
  <1>6. \A i \in DOMAIN places' : Old(places'[i]) \/ New(places'[i])
    <2> SUFFICES ASSUME NEW i \in DOMAIN places' PROVE Old(places'[i]) \/ New(places'[i])
      OBVIOUS
    <2>1. i \in 1..(Len(places) + Len(new))
      BY <1>3, <1>4
    <2>2. CASE i <= Len(places)
      <3>1. i \in DOMAIN places /\ places'[i] = places[i]
        BY <1>3, <1>4, <2>1, <2>2
      <3> QED
        BY <3>1
    <2>3. CASE i > Len(places)
      <3>1. i - Len(places) \in DOMAIN new /\ places'[i] = new[i - Len(places)]
        BY <1>3, <1>4, <2>1, <2>3
      <3> QED
        BY <3>1
    <2> QED
      BY <1>3, <2>1, <2>2, <2>3
  <1>7. \A i \in DOMAIN places' : HeldUnder(places[i].sub, places[i].holder)'
    <2> SUFFICES ASSUME NEW i \in DOMAIN places'
                 PROVE  HeldUnder(places[i].sub, places[i].holder)'
      OBVIOUS
    <2>1. CASE Old(places'[i])
      <3>1. PICK k \in DOMAIN places : places'[i] = places[k]
        BY <2>1
      <3>2. places[k] \in PlaceRows
        BY <1>2
      <3>3. places[k].sub \in Ids \union {NoSub}
        BY <3>2 DEF PlaceRows, RowsIn
      <3> QED
        BY <3>1, <3>3 DEF PlacesInv, SubsStay, HeldUnder
    <2>2. CASE New(places'[i])
      BY <2>2 DEF Fits
    <2> QED
      BY <1>6, <2>1, <2>2
  <1>8. SpaceHeldOnce'
    <2> SUFFICES ASSUME NEW i \in DOMAIN places', NEW j \in DOMAIN places',
                        places'[i].seat = places'[j].seat
                 PROVE  places'[i].holder = places'[j].holder /\ places'[i].sub = places'[j].sub
      BY DEF SpaceHeldOnce
    <2>1. CASE Old(places'[i]) /\ Old(places'[j])
      BY <2>1 DEF PlacesInv, SpaceHeldOnce
    <2>2. CASE New(places'[i]) /\ New(places'[j])
      BY <2>2 DEF Fits
    <2>3. CASE Old(places'[i]) /\ New(places'[j])
      BY <2>3 DEF Fits
    <2>4. CASE New(places'[i]) /\ Old(places'[j])
      BY <2>4 DEF Fits
    <2> QED
      BY <1>6, <2>1, <2>2, <2>3, <2>4
  <1> QED
    BY <1>1, <1>5, <1>7, <1>8 DEF PlacesInv

LEMMA SubsAsTheyAre == subs' = subs => SubsStay
  BY DEF SubsStay, Exists

LEMMA PlacesInit == Init => PlacesInv
  <1> SUFFICES ASSUME Init PROVE PlacesInv
    OBVIOUS
  <1>1. places = <<>>
    BY DEF Init
  <1> QED
    BY <1>1 DEF PlacesInv, SpaceHeldOnce

\* A subscription that is made is new, and the others stay.
LEMMA SubIsNew ==
    ASSUME BillInv, NEW s \in Ids, NEW holder, NEW plan, NEW quantity, NEW people, NEW extra,
           NEW priced, NEW spaces, NEW bill,
           NewSub(s, holder, plan, quantity, people, extra, priced, spaces, bill)
    PROVE  SubsStay /\ ~Exists(s) /\ Exists(s)' /\ subs'[s].holder = holder
  <1>1. /\ ~Exists(s)
        /\ subs' = [subs EXCEPT ![s] =
              [status |-> "active", holder |-> holder, plan |-> plan, quantity |-> quantity,
               people |-> people, extra |-> extra, before |-> 0, deferred |-> FALSE,
               priced |-> priced, spaces |-> spaces]]
    BY DEF NewSub
  <1>2. /\ subs'[s].status = "active" /\ subs'[s].holder = holder
        /\ \A r \in Ids \ {s} : subs'[r] = subs[r]
    BY <1>1 DEF BillInv, BillTypes
  <1> QED
    BY <1>1, <1>2 DEF SubsStay, Exists

LEMMA SpacesAreGiven ==
    ASSUME BillInv, PlacesInv, NEW s \in Ids, NEW holder \in Holders, NEW plan \in Plans,
           Subscribe(s, holder, plan)
    PROVE  PlacesInv'
  <1>1. PICK quantity \in 1..case.quantity, extra \in 0..case.extra,
             startsOnFirst \in DaysMatter, deposit \in DaysMatter,
             chosen \in SUBSET built, new \in SUBSET (Seats \ built) :
           /\ Offered(plan, chosen)
           /\ \E order \in SetToSeqs(chosen), last \in SetToSeqs(new) :
                places' = places \o Attached(order \o last, holder, s, plan.people, extra)
           /\ NewSub(s, holder, plan, quantity, plan.people, extra, plan.priced,
                     Cardinality(chosen \union new), DepositBill(startsOnFirst, deposit))
           /\ built' = built \union new
    BY DEF Subscribe
  <1>2. PICK order \in SetToSeqs(chosen), last \in SetToSeqs(new) :
           places' = places \o Attached(order \o last, holder, s, plan.people, extra)
    BY <1>1
  <1>3. SubsStay /\ ~Exists(s) /\ HeldUnder(s, holder)'
    BY <1>1, SubIsNew DEF HeldUnder
  <1>4. IsFiniteSet(chosen) /\ IsFiniteSet(new)
    BY SeatsExist, FS_Subset DEF BillInv, BillTypes
  <1>5. Cardinality(chosen) \in Nat /\ Cardinality(new) \in Nat
    BY <1>4, FS_CardinalityType
  <1>6. order \in Seq(chosen) /\ last \in Seq(new)
    BY <1>5 DEF SetToSeqs
  <1> DEFINE B == chosen \union new
             given == order \o last
             rest == IF given # <<>> /\ extra > 0 /\ holder \in Companies
                     THEN SpacePlaces(<<given[1]>>, holder, s, extra) ELSE <<>>
             first == SpacePlaces(given, holder, s, plan.people)
             Rows2 == RowsIn(built')
             Sound(rows) ==
                /\ rows \in Seq(Rows2)
                /\ \A k \in DOMAIN rows : rows[k].holder = holder /\ rows[k].sub = s
                                          /\ rows[k].seat \in B
  <1>7. given \in Seq(B)
    <2>1. order \in Seq(B) /\ last \in Seq(B)
      BY <1>6
    <2> QED
      BY <2>1
  <1>8. \A seat \in B : \A k \in DOMAIN places : places[k].seat # seat
    <2>1. \A seat \in chosen : ~Taken(seat)
      BY <1>1 DEF Offered, Free
    <2>2. \A k \in DOMAIN places : places[k].seat \in built
      <3>1. \A k \in DOMAIN places : places[k] \in PlaceRows
        BY DEF PlacesInv
      <3> QED
        BY <3>1 DEF PlaceRows, RowsIn
    <2> QED
      BY <2>1, <2>2 DEF Taken
  <1>9. B \subseteq built'
    BY <1>1
  <1> HIDE DEF given, B
  <1>10. ASSUME NEW some \in Seq(B), NEW n \in Nat \ {0}
         PROVE  Sound(SpacePlaces(some, holder, s, n))
    <2> DEFINE rows == SpacePlaces(some, holder, s, n)
    <2>1. /\ some \in Seq(built')
          /\ \A i \in DOMAIN some : some[i] \in B
      BY <1>9
    <2>2. RowsFor(rows, built', some, holder, s)
      BY <2>1, RowsOfSpaces
    <2> HIDE DEF rows
    <2> QED
      BY <2>1, <2>2 DEF rows, RowsFor
  <1>11. plan.people \in Nat \ {0}
    BY TermsOfPlans DEF PlanTerms
  <1>12. Sound(first)
    BY <1>7, <1>10, <1>11
  <1>13. Sound(rest)
    <2>1. CASE given # <<>> /\ extra > 0 /\ holder \in Companies
      <3>1. <<given[1]>> \in Seq(B)
        BY <1>7, <2>1
      <3>2. extra \in Nat \ {0}
        BY <2>1, BoundsOfCase DEF BillInv, BillTypes
      <3>3. rest = SpacePlaces(<<given[1]>>, holder, s, extra)
        BY <2>1
      <3> HIDE DEF rest, Sound
      <3> QED
        BY <1>10, <3>1, <3>2, <3>3
    <2>2. CASE ~(given # <<>> /\ extra > 0 /\ holder \in Companies)
      <3>1. rest = <<>>
        BY <2>2
      <3> HIDE DEF rest, Rows2
      <3> QED
        BY <3>1
    <2> QED
      BY <2>1, <2>2
  <1>14. places' = places \o (first \o rest)
    BY <1>2 DEF Attached, given
  <1> HIDE DEF first, rest
  <1>15. Sound(first \o rest)
    <2> DEFINE both == first \o rest
    <2> HIDE DEF Rows2
    <2>1. first \in Seq(Rows2) /\ rest \in Seq(Rows2) /\ both \in Seq(Rows2)
      BY <1>12, <1>13
    <2>2. ASSUME NEW k \in DOMAIN both
          PROVE  \/ k \in DOMAIN first /\ both[k] = first[k]
                 \/ k - Len(first) \in DOMAIN rest /\ both[k] = rest[k - Len(first)]
      BY <2>1
    <2> HIDE DEF both
    <2>3. \A k \in DOMAIN both :
             both[k].holder = holder /\ both[k].sub = s /\ both[k].seat \in B
      BY <1>12, <1>13, <2>2
    <2> QED
      BY <2>1, <2>3 DEF both
  <1>16. PICK new2 : new2 = first \o rest
    OBVIOUS
  <1>17. /\ new2 \in Seq(Rows2) /\ places' = places \o new2
         /\ Fits(new2, holder, s)
    BY <1>8, <1>14, <1>15, <1>16 DEF Fits
  <1>18. built \subseteq built'
    BY <1>1
  <1> QED
    BY <1>3, <1>17, <1>18, PlacesAdded

LEMMA PeopleSeated ==
    ASSUME BillInv, PlacesInv, NEW s \in Ids, ChangeExtraPeople(s)
    PROVE  PlacesInv'
  <1>1. PICK count \in 0..case.extra, prorate \in DaysMatter :
        LET old == subs[s].extra
            rise == count > old
            thisMonth == rise /\ prorate /\ subs[s].priced /\ firstDay /\ ~bills[s].onFirst
        IN  /\ Active(s) /\ count # old
            /\ subs' = [subs EXCEPT ![s] = Replaced(s, count, thisMonth)]
            /\ places' = IF Rows(s) = {} \/ subs[s].holder \in Individuals THEN places
                         ELSE IF rise
                         THEN places \o SpacePlaces(<<places[Min(Rows(s))].seat>>, subs[s].holder, s,
                                                    count - old)
                         ELSE Vacated(s, old - count)
    BY DEF ChangeExtraPeople
  <1>2. Exists(s) /\ subs[s] \in Subscription /\ built' = built
    BY <1>1, SubThere DEF BillInv, Active, Exists, ChangeExtraPeople
  <1>3. SubsStay
    <2>1. PICK deferred \in BOOLEAN :
             subs' = [subs EXCEPT ![s] = [subs[s] EXCEPT !.before = BilledNow(s), !.extra = count,
                                                         !.deferred = deferred]]
      BY <1>1 DEF Replaced
    <2>2. /\ subs'[s].status = subs[s].status /\ subs'[s].holder = subs[s].holder
          /\ \A r \in Ids \ {s} : subs'[r] = subs[r]
      BY <1>2, <2>1 DEF BillInv, BillTypes, Subscription
    <2> QED
      BY <2>2 DEF SubsStay, Exists
  <1>4. CASE places' = places
    BY <1>2, <1>3, <1>4, PlacesStay
  <1>5. CASE places' = Vacated(s, subs[s].extra - count)
    <2>1. PICK K \in SUBSET DOMAIN places : places' = Kept(K)
      BY <1>5 DEF Vacated
    <2> QED
      BY <1>2, <1>3, <2>1, PlacesKept
  <1>6. ASSUME Rows(s) # {}, count > subs[s].extra,
               places' = places \o SpacePlaces(<<places[Min(Rows(s))].seat>>, subs[s].holder, s,
                                               count - subs[s].extra)
        PROVE  PlacesInv'
    <2>0. PICK holder, seat, n : /\ holder = subs[s].holder /\ n = count - subs[s].extra
                                 /\ seat = places[Min(Rows(s))].seat
      OBVIOUS
    <2>1. places \in Seq(PlaceRows)
      BY DEF PlacesInv
    <2>2. Len(places) \in Nat /\ Rows(s) \in SUBSET (1..Len(places))
      BY <2>1 DEF Rows
    <2>3. Min(Rows(s)) \in Rows(s)
      BY <1>6, <2>2, FirstRow
    <2>4. PICK first \in DOMAIN places : first = Min(Rows(s)) /\ places[first].sub = s
      BY <2>3 DEF Rows
    <2>5. places[first] \in PlaceRows
      BY <2>1
    <2>6. seat \in built /\ holder \in Holders
      BY <1>2, <2>0, <2>4, <2>5 DEF PlaceRows, RowsIn, Subscription
    <2>7. s # NoSub
      BY Limits DEF Ids, NoSub
    <2>8. HeldUnder(s, holder)' /\ holder = places[first].holder
      BY <1>2, <1>3, <2>0, <2>4, <2>7 DEF PlacesInv, HeldUnder, SubsStay
    <2>9. n \in Nat \ {0}
      <3>1. count \in Nat /\ subs[s].extra \in Nat
        BY <1>2, BoundsOfCase DEF BillInv, BillTypes, Subscription
      <3> QED
        BY <1>6, <2>0, <3>1
    <2>10. PICK new : new = SpacePlaces(<<seat>>, holder, s, n)
      OBVIOUS
    <2>11. <<seat>> \in Seq(built)
      BY <2>6
    <2>12. RowsFor(new, built, <<seat>>, holder, s)
      BY <2>6, <2>9, <2>10, <2>11, RowsOfSpaces
    <2>13. /\ new \in Seq(RowsIn(built))
           /\ \A i \in DOMAIN new : /\ new[i].seat = seat
                                    /\ new[i].holder = holder /\ new[i].sub = s
      BY <2>12 DEF RowsFor
    <2>14. Fits(new, holder, s)
      BY <2>0, <2>4, <2>8, <2>13 DEF PlacesInv, SpaceHeldOnce, Fits
    <2>15. places' = places \o new
      BY <1>6, <2>0, <2>10
    <2>16. new \in Seq(RowsIn(built')) /\ built \subseteq built'
      BY <1>2, <2>13
    <2> QED
      BY <1>3, <2>6, <2>8, <2>14, <2>15, <2>16, PlacesAdded
  <1>7. CASE Rows(s) # {} /\ count > subs[s].extra /\ subs[s].holder \notin Individuals
    BY <1>1, <1>6, <1>7
  <1> QED
    BY <1>1, <1>4, <1>5, <1>7

LEMMA SpaceAllocated ==
    ASSUME BillInv, PlacesInv, NEW seat, NEW holder \in Holders, Allocate(seat, holder)
    PROVE  PlacesInv'
  <1>1. /\ seat \in built /\ ~Taken(seat) /\ subs' = subs /\ built' = built
        /\ places' = places \o SpacePlaces(<<seat>>, holder, NoSub, 1)
    BY DEF Allocate
  <1>2. PICK new : new = SpacePlaces(<<seat>>, holder, NoSub, 1)
    OBVIOUS
  <1>3. <<seat>> \in Seq(built)
    BY <1>1
  <1>4. RowsFor(new, built, <<seat>>, holder, NoSub)
    <2>1. 1 \in Nat \ {0} /\ NoSub \in Ids \union {NoSub}
      OBVIOUS
    <2> QED
      BY <1>2, <1>3, <2>1, RowsOfSpaces
  <1>5. /\ new \in Seq(RowsIn(built))
        /\ \A i \in DOMAIN new : /\ new[i].seat = seat
                                 /\ new[i].holder = holder /\ new[i].sub = NoSub
    BY <1>4 DEF RowsFor
  <1>6. Fits(new, holder, NoSub)
    BY <1>1, <1>5 DEF Taken, Fits
  <1>7. HeldUnder(NoSub, holder)'
    BY DEF HeldUnder
  <1> QED
    BY <1>1, <1>2, <1>5, <1>6, <1>7, SubsAsTheyAre, PlacesAdded

\* Whom the places are named to.
LEMMA PlacesNamed ==
    ASSUME PlacesInv, subs' = subs, built' = built,
           NEW users \in [DOMAIN places -> Employees \union Individuals \union {Nobody}],
           places' = [k \in DOMAIN places |-> [places[k] EXCEPT !.user = users[k]]]
    PROVE  PlacesInv'
  <1>1. places \in Seq(PlaceRows)
    BY DEF PlacesInv
  <1>2. DOMAIN places = 1..Len(places) /\ Len(places) \in Nat /\ DOMAIN places' = DOMAIN places
    BY <1>1
  <1>3. ASSUME NEW k \in DOMAIN places
        PROVE  /\ places'[k] \in PlaceRows /\ places'[k].seat = places[k].seat
               /\ places'[k].holder = places[k].holder /\ places'[k].sub = places[k].sub
    <2>1. places[k] \in PlaceRows /\ users[k] \in Employees \union Individuals \union {Nobody}
      BY <1>1
    <2>2. places'[k] = [places[k] EXCEPT !.user = users[k]]
      OBVIOUS
    <2> QED
      BY <2>1, <2>2 DEF PlaceRows, RowsIn
  <1>4. PlaceRows' = PlaceRows
    BY DEF PlaceRows, RowsIn
  <1>5. places' \in Seq(PlaceRows)
    BY <1>2, <1>3
  <1> QED
    BY <1>2, <1>3, <1>4, <1>5, SubsAsTheyAre, PlacesLeft

LEMMA PlacesRenamed ==
    ASSUME BillInv, PlacesInv,
           \/ \E k \in DOMAIN places : Release(k) \/ \E e \in Employees : Assign(k, e)
           \/ \E c \in Companies : \E e \in EmployeesOf[c] : EditPlace(c, e)
           \/ \E e \in Employees : ReleaseAll(e)
    PROVE  PlacesInv'
  <1> DEFINE User == Employees \union Individuals \union {Nobody}
  <1>1. subs' = subs /\ built' = built
    BY DEF Release, Assign, EditPlace, ReleaseAll
  <1>2. places \in Seq(PlaceRows)
    BY DEF PlacesInv
  <1>3. \A k \in DOMAIN places : places[k] \in PlaceRows
    BY <1>2
  <1>4. \A k \in DOMAIN places : /\ places[k].user \in User
                                 /\ places[k] = [places[k] EXCEPT !.user = places[k].user]
    BY <1>3 DEF PlaceRows, RowsIn
  <1>5. places = [k \in DOMAIN places |-> places[k]]
    BY <1>2
  <1>6. Nobody \in User /\ Employees \subseteq User
    OBVIOUS
  <1> HIDE DEF User
  <1>7. ASSUME NEW k \in DOMAIN places, NEW u \in User, places' = [places EXCEPT ![k].user = u]
        PROVE  PlacesInv'
    <2> DEFINE users == [j \in DOMAIN places |-> IF j = k THEN u ELSE places[j].user]
    <2>1. users \in [DOMAIN places -> User]
      BY <1>4
    <2>2. places' = [j \in DOMAIN places |-> IF j = k THEN [places[k] EXCEPT !.user = u]
                                             ELSE places[j]]
      BY <1>5, <1>7
    <2>3. places' = [j \in DOMAIN places |-> [places[j] EXCEPT !.user = users[j]]]
      BY <1>4, <2>2
    <2> QED
      BY <1>1, <2>1, <2>3, PlacesNamed DEF User
  <1>8. ASSUME NEW f \in [DOMAIN places -> User], NEW changed \in SUBSET DOMAIN places,
               places' = [j \in DOMAIN places |-> IF j \in changed
                                                  THEN [places[j] EXCEPT !.user = f[j]]
                                                  ELSE places[j]]
        PROVE  PlacesInv'
    <2> DEFINE users == [j \in DOMAIN places |-> IF j \in changed THEN f[j] ELSE places[j].user]
    <2>1. users \in [DOMAIN places -> User]
      BY <1>4
    <2>2. places' = [j \in DOMAIN places |-> [places[j] EXCEPT !.user = users[j]]]
      BY <1>4, <1>8
    <2> QED
      BY <1>1, <2>1, <2>2, PlacesNamed DEF User
  <1>9. CASE \E k \in DOMAIN places : Release(k) \/ \E e \in Employees : Assign(k, e)
    BY <1>6, <1>7, <1>9 DEF Release, Assign
  <1>10. CASE \E c \in Companies : \E e \in EmployeesOf[c] : EditPlace(c, e)
    <2>0. PICK e \in Employees : \E c \in Companies : EditPlace(c, e)
      BY <1>10 DEF Employees
    <2>1. PICK from \in SUBSET DOMAIN places, to \in SUBSET DOMAIN places :
             places' = [k \in DOMAIN places |->
                            IF k \in to THEN [places[k] EXCEPT !.user = e]
                            ELSE IF k \in from THEN [places[k] EXCEPT !.user = Nobody]
                            ELSE places[k]]
      BY <2>0 DEF EditPlace
    <2>2. e \in User
      BY <1>6
    <2> DEFINE f == [k \in DOMAIN places |-> IF k \in to THEN e ELSE Nobody]
    <2>3. f \in [DOMAIN places -> User] /\ to \union from \in SUBSET DOMAIN places
      BY <1>6, <2>2
    <2>4. places' = [k \in DOMAIN places |-> IF k \in to \union from
                                             THEN [places[k] EXCEPT !.user = f[k]]
                                             ELSE places[k]]
      BY <2>1
    <2> HIDE DEF f
    <2> QED
      BY <1>8, <2>3, <2>4
  <1>11. CASE \E e \in Employees : ReleaseAll(e)
    <2>1. PICK e \in Employees :
             places' = [k \in DOMAIN places |->
                            IF places[k].user = e THEN [places[k] EXCEPT !.user = Nobody]
                            ELSE places[k]]
      BY <1>11 DEF ReleaseAll
    <2> DEFINE f == [k \in DOMAIN places |-> Nobody]
               changed == {k \in DOMAIN places : places[k].user = e}
    <2>2. f \in [DOMAIN places -> User] /\ changed \in SUBSET DOMAIN places
      BY <1>6
    <2>3. places' = [k \in DOMAIN places |-> IF k \in changed
                                             THEN [places[k] EXCEPT !.user = f[k]]
                                             ELSE places[k]]
      BY <2>1
    <2> HIDE DEF f, changed
    <2> QED
      BY <1>8, <2>2, <2>3
  <1> QED
    BY <1>9, <1>10, <1>11

LEMMA PlacesReleased ==
    ASSUME BillInv, PlacesInv,
           (\E s \in Ids : EndSub(s)) \/ (\E k \in DOMAIN places : EndAllocation(k))
    PROVE  PlacesInv'
  <1>1. PICK K \in SUBSET DOMAIN places : places' = Kept(K) /\ built' = built
    BY DEF EndSub, EndAllocation, Without
  <1>2. CASE \E s \in Ids : EndSub(s)
    <2>1. PICK s \in Ids, status \in {"cancelled", "expired"} :
             Exists(s) /\ subs' = [subs EXCEPT ![s].status = status]
      BY <1>2 DEF EndSub, Exists, Active
    <2>2. subs[s] \in Subscription
      BY <2>1, SubThere DEF BillInv
    <2>3. /\ subs'[s].status = status /\ subs'[s].holder = subs[s].holder
          /\ \A r \in Ids \ {s} : subs'[r] = subs[r]
      BY <2>1, <2>2 DEF BillInv, BillTypes, Subscription
    <2>4. SubsStay
      BY <2>3 DEF SubsStay, Exists
    <2> QED
      BY <1>1, <2>4, PlacesKept
  <1>3. CASE \E k \in DOMAIN places : EndAllocation(k)
    BY <1>1, <1>3, SubsAsTheyAre, PlacesKept DEF EndAllocation
  <1> QED
    BY <1>2, <1>3

LEMMA NotAboutPlaces ==
    ASSUME BillInv, PlacesInv,
           \/ \E c \in Companies : RequestChange(c)
           \/ \E r \in requests : Approve(r) \/ Deny(r)
           \/ MonthlyBilling \/ NextDay \/ UNCHANGED vars
    PROVE  PlacesInv'
  <1>1. places' = places /\ built' = built
    BY DEF RequestChange, Approve, Deny, MonthlyBilling, NextDay, vars
  <1>2. CASE \/ (\E c \in Companies : RequestChange(c)) \/ (\E r \in requests : Deny(r))
             \/ MonthlyBilling \/ UNCHANGED vars
    BY <1>1, <1>2, SubsAsTheyAre, PlacesStay DEF RequestChange, Deny, MonthlyBilling, vars
  <1>3. ASSUME NEW r \in requests, Approve(r) PROVE SubsStay
    <2>1. r.sub \in Ids \union {NoSub}
      BY DEF BillInv, BillTypes
    <2>2. CASE r.sub # NoSub
      <3>1. r.sub \in Ids /\ Exists(r.sub) /\ subs[r.sub] \in Subscription
        BY <2>1, <2>2, SubThere DEF BillInv, RequestsOfSubs
      <3>2. subs' = [subs EXCEPT ![r.sub] = [subs[r.sub] EXCEPT !.plan = r.plan,
                                                !.quantity = r.quantity, !.status = "active"]]
        BY <1>3, <2>2 DEF Approve
      <3>3. /\ subs'[r.sub].status = "active" /\ subs'[r.sub].holder = subs[r.sub].holder
            /\ \A q \in Ids \ {r.sub} : subs'[q] = subs[q]
        BY <3>1, <3>2 DEF BillInv, BillTypes, Subscription
      <3> QED
        BY <3>3 DEF SubsStay, Exists
    <2>3. CASE r.sub = NoSub
      BY <1>3, <2>3, SubIsNew DEF Approve
    <2> QED
      BY <2>2, <2>3
  <1>4. ASSUME NextDay PROVE SubsStay
    <2>1. CASE subs' = subs
      BY <2>1, SubsAsTheyAre
    <2>2. CASE subs' = [s \in Ids |-> IF Exists(s) THEN [subs[s] EXCEPT !.deferred = FALSE]
                                      ELSE Absent]
      <3>1. ASSUME NEW s \in Ids, Exists(s)
            PROVE  subs'[s].status = subs[s].status /\ subs'[s].holder = subs[s].holder
        <4>1. subs[s] \in Subscription /\ subs'[s] = [subs[s] EXCEPT !.deferred = FALSE]
          BY <2>2, <3>1, SubThere DEF BillInv
        <4> QED
          BY <4>1 DEF Subscription
      <3> QED
        BY <3>1 DEF SubsStay, Exists
    <2> QED
      BY <1>4, <2>1, <2>2 DEF NextDay
  <1> QED
    BY <1>1, <1>2, <1>3, <1>4, PlacesStay

LEMMA PlacesStep == BillInv /\ PlacesInv /\ [Next]_vars => PlacesInv'
  BY SpacesAreGiven, PeopleSeated, SpaceAllocated, PlacesRenamed, PlacesReleased, NotAboutPlaces
     DEF Next

\* However many increases are billed at once or for the next month, and whatever the monthly run
\* bills and when, the invoices of a month never count more extra people than a subscription has,
\* unless the people were reduced in the month (change_extra_people, _generate).
THEOREM PeopleAreBilledOnce == PremisesSpec => []NobodyBilledTwice
  <1>1. PremisesInit => BillInv
    BY BillsInit DEF PremisesInit
  <1>2. [PremisesNext]_premisesVars => [Next]_vars
    BY DEF PremisesNext, premisesVars, vars
  <1>3. BillInv => NobodyBilledTwice
    BY DEF BillInv, NotBilledTwice, NobodyBilledTwice
  <1> QED
    BY <1>1, <1>2, <1>3, BillsStep, PTL DEF PremisesSpec

\* A desk or an office is held by one customer at a time, under one agreement, and the people in it
\* are billed once: through subscriptions that are made, ended, approved a second life or given more
\* or fewer people, and spaces given away and taken back without one (_subscribe, attach_spaces,
\* end_places, change_extra_people, allocation_new, allocation_end).
THEOREM SpacesAreHeldOnce == PremisesSpec => []SpacesSound
  <1>1. PremisesInit => BillInv /\ PlacesInv
    BY BillsInit, PlacesInit DEF PremisesInit
  <1>2. [PremisesNext]_premisesVars => [Next]_vars
    BY DEF PremisesNext, premisesVars, vars
  <1>3. BillInv /\ PlacesInv => TypeOK /\ SpaceHeldOnce
    BY DEF BillInv, BillTypes, PlacesInv, PlaceRows, RowsIn, TypeOK
  <1>4. PremisesSpec => [](TypeOK /\ SpaceHeldOnce)
    BY <1>1, <1>2, <1>3, BillsStep, PlacesStep, PTL DEF PremisesSpec
  <1> QED
    BY <1>4, PeopleAreBilledOnce, PTL DEF SpacesSound

\* The month's regular invoice counts the extra people that were agreed for the month: a reduction
\* of this month, or an increase that is billed from the next one or by itself, changes nothing of
\* it (extra_people_for, change_extra_people, run_monthly_billing).
THEOREM RegularBillIsForThoseAgreed == PremisesSpec => RegularBillsPeople
  <1>1. PremisesInit => BillInv
    BY BillsInit DEF PremisesInit
  <1>2. [PremisesNext]_premisesVars => [Next]_vars
    BY DEF PremisesNext, premisesVars, vars
  <1> DEFINE Regular ==
        \A s \in Ids :
            ~bills[s].planned /\ bills'[s].planned /\ subs[s].priced /\ ~agreed[s].mixed =>
                bills'[s].counted = agreed[s].people
  <1>3. BillInv /\ [Next]_vars => [Regular]_vars
    BY RegularBillStep
  <1> HIDE DEF Regular
  <1>4. PremisesSpec => [][Regular]_vars
    BY <1>1, <1>2, <1>3, BillsStep, PTL DEF PremisesSpec
  <1> QED
    BY <1>4 DEF RegularBillsPeople, Regular
=============================================================================
