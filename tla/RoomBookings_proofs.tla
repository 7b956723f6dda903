------------------------- MODULE RoomBookings_proofs -------------------------
(***************************************************************************)
(* Proofs about RoomBookings, for every set of processes, rooms, users and *)
(* payers and every bound: its type invariant, the promise a handler holds *)
(* between its conflict check and its commit, the refinement of            *)
(* RoomCalendar ("a room can never be double booked"), and, when requests  *)
(* do not overlap, where the credits are and the company's cap.            *)
(***************************************************************************)
EXTENDS RoomBookings, FiniteSetTheorems, WellFoundedInduction, TLAPS

(* The inductive invariant.  TypeOK alone is not inductive: a commit writes a row that *)
(* its task names, so the row must exist; and the promise needs the row locks.         *)

\* A task that names rows names existing ones.
TasksNameRows ==
    \A p \in Procs :
        /\ task[p].at \in {"cancel_loaded", "cancel_refunding", "update_loaded",
                           "update_locked", "update_checked", "checkin_loaded"}
             => bookings[task[p].bk] # NoBooking
        /\ task[p].at = "release_loaded"
             => \A b \in task[p].noShows \union task[p].finished : bookings[b] # NoBooking

\* An edit locks the room its booking is in; a booking never changes rooms.
EditsLockTheirRoom ==
    \A p \in Procs :
        task[p].at \in {"update_loaded", "update_locked", "update_checked"}
            => task[p].room = bookings[task[p].bk].room

\* The row lock of a room is held by one handler at a time.
LockExclusive ==
    \A p, q \in Procs :
        /\ p # q
        /\ task[p].at \in LockedStages /\ task[q].at \in LockedStages
        => task[p].room # task[q].room

\* A handler past its check promises a stretch of positive length.
ChecksSawTheirWindow ==
    \A p \in Procs :
        task[p].at \in {"create_priced", "update_checked"} => task[p].from < task[p].to

IInv == /\ TypeOK
        /\ TasksNameRows
        /\ EditsLockTheirRoom
        /\ ChecksSawTheirWindow
        /\ LockExclusive
        /\ PromisedStretchKept

-----------------------------------------------------------------------------
(* Shapes: what the stage of a task tells about its fields. *)

LEMMA TaskShape ==
    ASSUME NEW t \in Task
    PROVE  /\ t.at = "create_locked" => t \in CreateTask
           /\ t.at = "create_priced" => t \in PricedTask
           /\ t.at = "cancel_loaded" => t \in CancelTask
           /\ t.at = "cancel_refunding" => t \in RefundTask
           /\ t.at \in {"update_loaded", "update_locked"} => t \in UpdateTask
           /\ t.at = "update_checked" => t \in RepriceTask
           /\ t.at = "checkin_loaded" => t \in CheckInTask
           /\ t.at = "release_loaded" => t \in ReleaseTask
           /\ t.at = "expire_loaded" => t \in ExpireTask
           /\ t.at = "block_checked" => t \in BlockTask
  BY DEF Task, Idle, CreateTask, PricedTask, CancelTask, RefundTask, UpdateTask,
         RepriceTask, CheckInTask, ReleaseTask, ExpireTask, BlockTask

LEMMA BecomeType ==
    ASSUME TypeOK, NEW p \in Procs, NEW t \in Task, Become(p, t)
    PROVE  task' \in [Procs -> Task]
  BY DEF TypeOK, Become

LEMMA DoneType ==
    ASSUME TypeOK, NEW p \in Procs, Done(p)
    PROVE  task' \in [Procs -> Task]
  BY BecomeType DEF Done, Task, Become, TypeOK

\* A row that exists is a Booking.
LEMMA RowType ==
    ASSUME TypeOK, NEW b \in Bookings, bookings[b] # NoBooking
    PROVE  bookings[b] \in Booking
  BY DEF TypeOK
-----------------------------------------------------------------------------
(* Type correctness *)

LEMMA InitType == Init => TypeOK
  BY SizesAreNaturals, UsersHavePayers, LotsAreCounted
     DEF Init, TypeOK, Times, Bookings, Procs, Task, NoBooking, Idle

\* Steps that change nothing but the task of their process.
LEMMA TaskOnlyType ==
    ASSUME TypeOK, task' \in [Procs -> Task],
           UNCHANGED <<now, bookings, blocks, remaining, ledger>>
    PROVE  TypeOK'
  BY DEF TypeOK, ledger, Bookings, Times, Booking, Stretch, Procs, Task, UpdateTask,
         CreateTask, PricedTask, CancelTask, RefundTask, RepriceTask, CheckInTask,
         ReleaseTask, ExpireTask, BlockTask

LEMMA StretchParts ==
    ASSUME NEW s \in Windows
    PROVE  s \in Stretch /\ s.room \in Rooms /\ s.from \in Times /\ s.to \in Times
  BY DEF Windows, Stretch

LEMMA AvailableType ==
    ASSUME NEW left \in Nat, NEW y \in Payers
    PROVE  Balance(left, y) \in 0..left
  BY LotsAreCounted DEF Balance, LotIsValid

LEMMA QuoteType ==
    ASSUME NEW s, s.room \in Rooms, s.from \in Times, s.to \in Times, s.from < s.to,
           NEW available \in Nat
    PROVE  /\ QuoteUsed(s, available) \in 0..available
           /\ QuoteCash(s, available) \in Nat
  <1>1. s.to - s.from \in Nat /\ CreditsPerSlot[s.room] \in Nat
    BY SizesAreNaturals, LotsAreCounted DEF Times
  <1>2. Needed(s) \in Nat
    BY <1>1 DEF Needed
  <1> QED
    BY <1>2 DEF QuoteUsed, QuoteCash

LEMMA RefundType ==
    ASSUME TypeOK, NEW b \in Bookings
    PROVE  RefundOf(b) \in Nat
  BY DEF TypeOK, RefundOf

LEMMA PayerType ==
    ASSUME TypeOK, NEW b \in Bookings, bookings[b] # NoBooking
    PROVE  PayerOf[bookings[b].user] \in Payers
  BY RowType, UsersHavePayers DEF Booking

LEMMA CreateLockType ==
    ASSUME TypeOK, NEW p \in Procs, NEW actor \in Users, NEW who \in Users,
           NEW waive \in BOOLEAN, NEW s \in Windows, CreateLock(p, actor, who, waive, s)
    PROVE  TypeOK'
  <1> DEFINE t == [at |-> "create_locked", actor |-> actor, who |-> who, waive |-> waive,
                   room |-> s.room, from |-> s.from, to |-> s.to]
  <1>1. t \in Task
    BY StretchParts DEF Task, CreateTask
  <1>2. Become(p, t) /\ UNCHANGED <<now, bookings, blocks, remaining, ledger>>
    BY DEF CreateLock
  <1> QED
    BY <1>1, <1>2, BecomeType, TaskOnlyType

LEMMA CreatePrepareType ==
    ASSUME TypeOK, NEW p \in Procs, CreatePrepare(p)
    PROVE  TypeOK'
  <1> DEFINE t == task[p]
             available == Balance(remaining[PayerOf[t.who]], PayerOf[t.who])
             used == IF t.waive THEN 0 ELSE QuoteUsed(t, available)
             cash == IF t.waive THEN 0 ELSE QuoteCash(t, available)
             new == [at |-> "create_priced", actor |-> t.actor, who |-> t.who,
                     room |-> t.room, from |-> t.from, to |-> t.to,
                     used |-> used, cash |-> cash]
  <1>1. t.at = "create_locked" /\ t.from < t.to /\ t \in Task
    BY DEF CreatePrepare, WindowIsValid, TypeOK
  <1>2. t \in CreateTask
    BY <1>1, TaskShape
  <1>3. t.room \in Rooms /\ t.from \in Times /\ t.to \in Times
        /\ t.who \in Users /\ t.actor \in Users
    BY <1>2 DEF CreateTask
  <1>4. PayerOf[t.who] \in Payers /\ remaining[PayerOf[t.who]] \in Nat
    BY <1>3, UsersHavePayers DEF TypeOK
  <1>5. available \in Nat
    BY <1>4, AvailableType
  <1>6. used \in Nat /\ cash \in Nat
    BY <1>1, <1>3, <1>5, QuoteType
  <1>7. new \in Task
    BY <1>3, <1>6 DEF Task, PricedTask
  <1>8. Become(p, new) /\ UNCHANGED <<now, bookings, blocks, remaining, ledger>>
    BY DEF CreatePrepare
  <1> QED
    BY <1>7, <1>8, BecomeType, TaskOnlyType

LEMMA CreateCommitType ==
    ASSUME TypeOK, NEW p \in Procs, CreateCommit(p)
    PROVE  TypeOK'
  <1> DEFINE t == task[p]
             y == PayerOf[t.who]
             row == [status |-> "confirmed", room |-> t.room, user |-> t.who,
                     from |-> t.from, to |-> t.to, used |-> t.used, cash |-> t.cash]
  <1>1. t \in PricedTask
    BY TaskShape DEF CreateCommit, TypeOK
  <1>2. row \in Booking /\ t.used \in Nat
    BY <1>1 DEF PricedTask, Booking, LiveStatuses
  <1>3. y \in Payers /\ remaining[y] \in Nat
    BY <1>1, UsersHavePayers DEF PricedTask, TypeOK
  <1>4. CanSpend(t.used, remaining[y], y)
    BY DEF CreateCommit
  <1>5. t.used <= remaining[y]
    BY <1>2, <1>3, <1>4, AvailableType DEF CanSpend
  <1>6. remaining' \in [Payers -> Nat]
    BY <1>2, <1>3, <1>5 DEF CreateCommit, TypeOK
  <1>7. PICK b \in Bookings : /\ bookings' = [bookings EXCEPT ![b] = row]
                              /\ net' = [net EXCEPT ![b] = -t.used]
    BY DEF CreateCommit
  <1>8. bookings' \in [Bookings -> Booking \union {NoBooking}]
    BY <1>2, <1>7 DEF TypeOK
  <1>9. net' \in [Bookings -> Int]
    BY <1>2, <1>7 DEF TypeOK
  <1>10. task' \in [Procs -> Task] /\ UNCHANGED <<now, blocks, expired, forfeited>>
    BY DoneType DEF CreateCommit
  <1> QED
    BY <1>6, <1>8, <1>9, <1>10 DEF TypeOK

LEMMA CancelLoadType ==
    ASSUME TypeOK, NEW p \in Procs, NEW actor \in Users, NEW b \in Bookings,
           CancelLoad(p, actor, b)
    PROVE  TypeOK'
  <1> DEFINE t == [at |-> "cancel_loaded", bk |-> b, used |-> bookings[b].used]
  <1>1. bookings[b] # NoBooking
    BY DEF CancelLoad, Live, LiveStatuses, NoBooking
  <1>2. bookings[b].used \in Nat
    BY <1>1, RowType DEF Booking
  <1>3. t \in Task
    BY <1>2 DEF Task, CancelTask
  <1>4. Become(p, t) /\ UNCHANGED <<now, bookings, blocks, remaining, ledger>>
    BY DEF CancelLoad
  <1> QED
    BY <1>3, <1>4, BecomeType, TaskOnlyType

LEMMA CancelRefundType ==
    ASSUME TypeOK, TasksNameRows, NEW p \in Procs, CancelRefund(p)
    PROVE  TypeOK'
  <1> DEFINE t == task[p]
             back == IF t.used = 0 THEN 0 ELSE RefundOf(t.bk)
             new == [at |-> "cancel_refunding", bk |-> t.bk, back |-> back,
                     left |-> remaining[PayerOf[bookings[t.bk].user]] + back]
  <1>1. t \in CancelTask /\ t.at = "cancel_loaded"
    BY TaskShape DEF CancelRefund, TypeOK
  <1>2. t.bk \in Bookings /\ bookings[t.bk] # NoBooking
    BY <1>1 DEF CancelTask, TasksNameRows
  <1>3. back \in Nat
    BY <1>2, RefundType
  <1>4. remaining[PayerOf[bookings[t.bk].user]] \in Nat
    BY <1>2, PayerType DEF TypeOK
  <1>5. new \in Task
    BY <1>2, <1>3, <1>4 DEF Task, RefundTask
  <1>6. Become(p, new) /\ UNCHANGED <<now, bookings, blocks, remaining, ledger>>
    BY DEF CancelRefund
  <1> QED
    BY <1>5, <1>6, BecomeType, TaskOnlyType

LEMMA CancelCommitType ==
    ASSUME TypeOK, TasksNameRows, NEW p \in Procs, CancelCommit(p)
    PROVE  TypeOK'
  <1> DEFINE t == task[p]
             y == PayerOf[bookings[t.bk].user]
  <1>1. t \in RefundTask /\ t.at = "cancel_refunding"
    BY TaskShape DEF CancelCommit, TypeOK
  <1>2. t.bk \in Bookings /\ bookings[t.bk] # NoBooking /\ t.back \in Nat /\ t.left \in Nat
    BY <1>1 DEF RefundTask, TasksNameRows
  <1>3. [bookings[t.bk] EXCEPT !.status = "cancelled"] \in Booking
    BY <1>2, RowType DEF Booking, TerminalStatuses
  <1>4. bookings' \in [Bookings -> Booking \union {NoBooking}]
    BY <1>2, <1>3 DEF CancelCommit, TypeOK
  <1>5. remaining' \in [Payers -> Nat]
    BY <1>2, PayerType DEF CancelCommit, TypeOK
  <1>6. net' \in [Bookings -> Int]
    BY <1>2 DEF CancelCommit, TypeOK
  <1>7. task' \in [Procs -> Task] /\ UNCHANGED <<now, blocks, expired, forfeited>>
    BY DoneType DEF CancelCommit
  <1> QED
    BY <1>4, <1>5, <1>6, <1>7 DEF TypeOK

LEMMA UpdateLoadType ==
    ASSUME TypeOK, NEW p \in Procs, NEW actor \in Users, NEW b \in Bookings,
           NEW s \in Windows, UpdateLoad(p, actor, b, s)
    PROVE  TypeOK'
  <1> DEFINE row == bookings[b]
             t == [at |-> "update_loaded", actor |-> actor, bk |-> b, room |-> row.room,
                   from |-> s.from, to |-> s.to, was |-> row]
  <1>1. row \in Booking
    BY RowType DEF UpdateLoad, NoBooking
  <1>2. t \in Task
    BY <1>1, StretchParts DEF Task, UpdateTask, Booking
  <1>3. Become(p, t) /\ UNCHANGED <<now, bookings, blocks, remaining, ledger>>
    BY DEF UpdateLoad
  <1> QED
    BY <1>2, <1>3, BecomeType, TaskOnlyType

LEMMA UpdateLockType ==
    ASSUME TypeOK, NEW p \in Procs, UpdateLock(p)
    PROVE  TypeOK'
  <1> DEFINE t == [task[p] EXCEPT !.at = "update_locked"]
  <1>1. task[p] \in UpdateTask
    BY TaskShape DEF UpdateLock, TypeOK
  <1>2. t \in Task
    BY <1>1 DEF UpdateTask, Task
  <1>3. Become(p, t) /\ UNCHANGED <<now, bookings, blocks, remaining, ledger>>
    BY DEF UpdateLock
  <1> QED
    BY <1>2, <1>3, BecomeType, TaskOnlyType

LEMMA UpdateCheckType ==
    ASSUME TypeOK, TasksNameRows, NEW p \in Procs, UpdateCheck(p)
    PROVE  TypeOK'
  <1> DEFINE t == task[p]
             back == IF IsFree(t.was) THEN 0 ELSE RefundOf(t.bk)
             new == [at |-> "update_checked", actor |-> t.actor, bk |-> t.bk,
                     room |-> t.room, from |-> t.from, to |-> t.to, was |-> t.was,
                     back |-> back,
                     left |-> remaining[PayerOf[bookings[t.bk].user]] + back]
  <1>1. t \in UpdateTask /\ t.at = "update_locked"
    BY TaskShape DEF UpdateCheck, TypeOK
  <1>2. t.bk \in Bookings /\ bookings[t.bk] # NoBooking
    BY <1>1 DEF UpdateTask, TasksNameRows
  <1>3. back \in Nat
    BY <1>2, RefundType
  <1>4. remaining[PayerOf[bookings[t.bk].user]] \in Nat
    BY <1>2, PayerType DEF TypeOK
  <1>5. new \in Task
    BY <1>1, <1>3, <1>4 DEF Task, RepriceTask, UpdateTask
  <1>6. Become(p, new) /\ UNCHANGED <<now, bookings, blocks, remaining, ledger>>
    BY DEF UpdateCheck
  <1> QED
    BY <1>5, <1>6, BecomeType, TaskOnlyType

LEMMA RewrittenType ==
    ASSUME NEW t \in RepriceTask, NEW row \in Booking, NEW used \in Nat, NEW cash \in Nat
    PROVE  /\ Rewritten(t, row, used, cash) \in Booking
           /\ Rewritten(t, row, used, cash).room = row.room
           /\ Rewritten(t, row, used, cash).status = row.status
  BY DEF Rewritten, Written, RepriceTask, Booking

LEMMA UpdateCommitType ==
    ASSUME TypeOK, TasksNameRows, ChecksSawTheirWindow, NEW p \in Procs, UpdateCommit(p)
    PROVE  TypeOK'
  <1> DEFINE t == task[p]
             row == bookings[t.bk]
             y == PayerOf[row.user]
             lot == IF t.back > 0 THEN t.left ELSE remaining[y]
             refunded == [net EXCEPT ![t.bk] = @ + t.back]
             available == Balance(lot, y)
             used == IF IsFree(t.was) THEN 0 ELSE QuoteUsed(t, available)
             cash == IF IsFree(t.was) THEN 0 ELSE QuoteCash(t, available)
             new == Rewritten(t, row, used, cash)
  <1>1. t \in RepriceTask /\ t.at = "update_checked"
    BY TaskShape DEF UpdateCommit, TypeOK
  <1>2. t.bk \in Bookings /\ row \in Booking /\ t.back \in Nat /\ t.left \in Nat
    BY <1>1, RowType DEF RepriceTask, TasksNameRows
  <1>3. y \in Payers /\ lot \in Nat
    BY <1>1, <1>2, PayerType DEF TasksNameRows, TypeOK
  <1>4. available \in 0..lot
    BY <1>3, AvailableType
  <1>5. t.room \in Rooms /\ t.from \in Times /\ t.to \in Times /\ t.from < t.to
    BY <1>1 DEF RepriceTask, ChecksSawTheirWindow
  <1>6. used \in 0..lot /\ cash \in Nat
    <2>1. available \in Nat
      BY <1>3, <1>4
    <2>2. QuoteUsed(t, available) \in 0..available /\ QuoteCash(t, available) \in Nat
      BY <1>5, <2>1, QuoteType
    <2> QED
      BY <1>3, <1>4, <2>2
  <1>7. new \in Booking
    BY <1>1, <1>2, <1>3, <1>6, RewrittenType
  <1>8. /\ bookings' = [bookings EXCEPT ![t.bk] = new]
        /\ remaining' = [remaining EXCEPT ![y] = lot - used]
        /\ net' = [refunded EXCEPT ![t.bk] = @ - used]
        /\ Done(p)
        /\ UNCHANGED <<now, blocks, expired, forfeited>>
    BY DEF UpdateCommit
  <1>9. bookings' \in [Bookings -> Booking \union {NoBooking}]
    BY <1>2, <1>7, <1>8 DEF TypeOK
  <1>10. remaining' \in [Payers -> Nat]
    <2>1. lot - used \in Nat
      BY <1>3, <1>6
    <2> QED
      BY <1>3, <1>8, <2>1 DEF TypeOK
  <1>11. net' \in [Bookings -> Int]
    <2>1. used \in Nat
      BY <1>3, <1>6
    <2>2. refunded \in [Bookings -> Int]
      BY <1>2 DEF TypeOK
    <2> QED
      BY <1>2, <1>8, <2>1, <2>2
  <1>12. task' \in [Procs -> Task]
    BY <1>8, DoneType
  <1> QED
    BY <1>8, <1>9, <1>10, <1>11, <1>12 DEF TypeOK

LEMMA CheckInLoadType ==
    ASSUME TypeOK, NEW p \in Procs, NEW actor \in Users, NEW b \in Bookings,
           CheckInLoad(p, actor, b)
    PROVE  TypeOK'
  <1>1. [at |-> "checkin_loaded", bk |-> b] \in Task
    BY DEF Task, CheckInTask
  <1> QED
    BY <1>1, BecomeType, TaskOnlyType DEF CheckInLoad

LEMMA CheckInCommitType ==
    ASSUME TypeOK, TasksNameRows, NEW p \in Procs, CheckInCommit(p)
    PROVE  TypeOK'
  <1> DEFINE b == task[p].bk
  <1>1. task[p] \in CheckInTask /\ task[p].at = "checkin_loaded"
    BY TaskShape DEF CheckInCommit, TypeOK
  <1>2. b \in Bookings /\ bookings[b] \in Booking
    BY <1>1, RowType DEF CheckInTask, TasksNameRows
  <1>3. [bookings[b] EXCEPT !.status = "checked_in"] \in Booking
    BY <1>2 DEF Booking, LiveStatuses
  <1>4. bookings' \in [Bookings -> Booking \union {NoBooking}]
    BY <1>2, <1>3 DEF CheckInCommit, TypeOK
  <1>5. task' \in [Procs -> Task] /\ UNCHANGED <<now, blocks, remaining, ledger>>
    BY DoneType DEF CheckInCommit
  <1> QED
    BY <1>4, <1>5 DEF TypeOK, ledger

LEMMA ReleaseLoadType ==
    ASSUME TypeOK, NEW p \in Procs, ReleaseLoad(p)
    PROVE  TypeOK'
  <1> DEFINE t == [at |-> "release_loaded",
                   noShows |-> {b \in Bookings : NoShowDue(b)},
                   finished |-> {b \in Bookings : FinishedDue(b)},
                   charged |-> {b \in Bookings : NoShowDue(b) /\ bookings[b].used > 0}]
  <1>1. t \in Task
    BY DEF Task, ReleaseTask
  <1>2. Become(p, t) /\ UNCHANGED <<now, bookings, blocks, remaining, ledger>>
    BY DEF ReleaseLoad
  <1> QED
    BY <1>1, <1>2, BecomeType, TaskOnlyType

LEMMA ReleaseCommitType ==
    ASSUME TypeOK, TasksNameRows, NEW p \in Procs, ReleaseCommit(p)
    PROVE  TypeOK'
  <1> DEFINE t == task[p]
  <1>1. t \in ReleaseTask /\ t.at = "release_loaded"
    BY TaskShape DEF ReleaseCommit, TypeOK
  <1>2. \A b \in Bookings : b \in t.noShows \union t.finished => bookings[b] \in Booking
    BY <1>1, RowType DEF TasksNameRows
  <1>3. bookings' \in [Bookings -> Booking \union {NoBooking}]
    BY <1>2 DEF ReleaseCommit, TypeOK, Booking, TerminalStatuses
  <1>4. forfeited' \subseteq Bookings
    BY <1>1 DEF ReleaseCommit, TypeOK, ReleaseTask
  <1>5. task' \in [Procs -> Task] /\ UNCHANGED <<now, blocks, remaining, net, expired>>
    BY DoneType DEF ReleaseCommit
  <1> QED
    BY <1>3, <1>4, <1>5 DEF TypeOK

LEMMA ExpireLoadType ==
    ASSUME TypeOK, NEW p \in Procs, ExpireLoad(p)
    PROVE  TypeOK'
  <1> DEFINE t == [at |-> "expire_loaded",
                   left |-> [y \in Payers |-> IF Expirable(y) THEN remaining[y] ELSE 0]]
  <1>1. t \in Task
    BY DEF Task, ExpireTask, TypeOK
  <1>2. Become(p, t) /\ UNCHANGED <<now, bookings, blocks, remaining, ledger>>
    BY DEF ExpireLoad
  <1> QED
    BY <1>1, <1>2, BecomeType, TaskOnlyType

LEMMA ExpireCommitType ==
    ASSUME TypeOK, NEW p \in Procs, ExpireCommit(p)
    PROVE  TypeOK'
  <1>1. task[p] \in ExpireTask
    BY TaskShape DEF ExpireCommit, TypeOK
  <1>2. remaining' \in [Payers -> Nat] /\ expired' \in [Payers -> Nat]
    BY <1>1 DEF ExpireCommit, ExpireTask, TypeOK
  <1>3. task' \in [Procs -> Task] /\ UNCHANGED <<now, bookings, blocks, net, forfeited>>
    BY DoneType DEF ExpireCommit
  <1> QED
    BY <1>2, <1>3 DEF TypeOK

LEMMA BlockCheckType ==
    ASSUME TypeOK, NEW p \in Procs, NEW s \in Windows, BlockCheck(p, s)
    PROVE  TypeOK'
  <1>1. [at |-> "block_checked", room |-> s.room, from |-> s.from, to |-> s.to] \in Task
    BY StretchParts DEF Task, BlockTask
  <1> QED
    BY <1>1, BecomeType, TaskOnlyType DEF BlockCheck

LEMMA BlockCommitType ==
    ASSUME TypeOK, NEW p \in Procs, BlockCommit(p)
    PROVE  TypeOK'
  <1>1. task[p] \in BlockTask
    BY TaskShape DEF BlockCommit, TypeOK
  <1>2. blocks' \subseteq Stretch
    BY <1>1 DEF BlockCommit, BlockTask, Stretch, TypeOK
  <1>3. task' \in [Procs -> Task] /\ UNCHANGED <<now, bookings, remaining, ledger>>
    BY DoneType DEF BlockCommit
  <1> QED
    BY <1>2, <1>3 DEF TypeOK, ledger

LEMMA TickType ==
    ASSUME TypeOK, Tick
    PROVE  TypeOK'
  <1>1. now' \in Times
    BY SizesAreNaturals DEF Tick, Times, TypeOK
  <1> QED
    BY <1>1 DEF Tick, TypeOK, ledger

LEMMA FailType ==
    ASSUME TypeOK, NEW p \in Procs, Fail(p)
    PROVE  TypeOK'
  BY DoneType, TaskOnlyType DEF Fail, Abandon
-----------------------------------------------------------------------------
(* What a step may do to the tasks and the rows, whoever takes it.  Every      *)
(* action makes a good step, and a good step keeps the rest of the invariant.  *)

\* The task t that process p goes on with names existing rows, knows its room, and holds
\* no lock and no promise it may not hold.
Fresh(p, t) ==
    /\ t.at \in {"cancel_loaded", "cancel_refunding", "update_loaded",
                 "update_locked", "update_checked", "checkin_loaded"}
         => bookings[t.bk] # NoBooking
    /\ t.at = "release_loaded"
         => \A b \in t.noShows \union t.finished : bookings[b] # NoBooking
    /\ t.at \in {"update_loaded", "update_locked", "update_checked"}
         => t.bk \in Bookings /\ t.room = bookings[t.bk].room
    /\ t.at \in {"create_priced", "update_checked"}
         => /\ t.from < t.to
            /\ \A b \in Bookings :
                 /\ bookings'[b].status = "confirmed"
                 /\ t.at = "create_priced" \/ t.bk # b
                 => ~Overlap(bookings'[b], t)
    /\ t.at \in LockedStages
         => \/ task[p].at \in LockedStages /\ task[p].room = t.room
            \/ ~RoomIsLocked(t.room)

\* Rows are not deleted, and keep their room.
KeepsRows ==
    \A b \in Bookings :
        bookings[b] # NoBooking =>
            bookings'[b] # NoBooking /\ bookings'[b].room = bookings[b].room

\* Only the holder of a room's lock makes a confirmed booking there, or moves one.
MovesUnderLock(p) ==
    \A b \in Bookings :
        bookings'[b].status = "confirmed" =>
            \/ bookings'[b] = bookings[b]
            \/ task[p].at \in LockedStages /\ task[p].room = bookings'[b].room

GoodStep(p) ==
    /\ \E t \in Task : Become(p, t) /\ Fresh(p, t)
    /\ KeepsRows
    /\ MovesUnderLock(p)

LEMMA QuietStep ==
    ASSUME NEW p \in Procs, NEW t \in Task, Become(p, t), Fresh(p, t), bookings' = bookings
    PROVE  GoodStep(p)
  BY DEF GoodStep, KeepsRows, MovesUnderLock

LEMMA IdleIsFresh ==
    ASSUME NEW p
    PROVE  Idle \in Task /\ Fresh(p, Idle)
  BY DEF Task, Idle, Fresh, LockedStages

LEMMA DoneStep ==
    ASSUME NEW p \in Procs, Done(p), KeepsRows, MovesUnderLock(p)
    PROVE  GoodStep(p)
  BY IdleIsFresh DEF GoodStep, Done

LEMMA GoodStepKeepsRows ==
    ASSUME IInv, NEW p \in Procs, GoodStep(p)
    PROVE  TasksNameRows' /\ EditsLockTheirRoom'
  <1>1. PICK t \in Task : Become(p, t) /\ Fresh(p, t)
    BY DEF GoodStep
  <1>2. KeepsRows /\ TypeOK
    BY DEF GoodStep, IInv
  <1>3. task'[p] = t /\ \A q \in Procs : q # p => task'[q] = task[q]
    BY <1>1, <1>2 DEF Become, TypeOK
  <1>4. \A q \in Procs : task[q] \in Task
    BY <1>2 DEF TypeOK
  <1>5. ASSUME NEW u \in Task
        PROVE  /\ u.at \in {"cancel_loaded", "cancel_refunding", "update_loaded",
                            "update_locked", "update_checked", "checkin_loaded"}
                    => u.bk \in Bookings
               /\ u.at = "release_loaded" => u.noShows \union u.finished \subseteq Bookings
    BY <1>5, TaskShape DEF CancelTask, RefundTask, UpdateTask, RepriceTask, CheckInTask,
                           ReleaseTask
  <1>6. TasksNameRows'
    <2> SUFFICES ASSUME NEW q \in Procs
                 PROVE  /\ task'[q].at \in {"cancel_loaded", "cancel_refunding", "update_loaded",
                                           "update_locked", "update_checked", "checkin_loaded"}
                             => bookings'[task'[q].bk] # NoBooking
                        /\ task'[q].at = "release_loaded"
                             => \A b \in task'[q].noShows \union task'[q].finished :
                                   bookings'[b] # NoBooking
      BY DEF TasksNameRows, Procs, NoBooking
    <2>1. CASE q = p
      BY <1>1, <1>2, <1>3, <1>5, <2>1 DEF Fresh, KeepsRows
    <2>2. CASE q # p
      <3>1. task'[q] = task[q]
        BY <1>3, <2>2
      <3>2. TasksNameRows
        BY DEF IInv
      <3> QED
        BY <1>2, <1>4, <1>5, <3>1, <3>2 DEF TasksNameRows, KeepsRows
    <2> QED
      BY <2>1, <2>2
  <1>7. EditsLockTheirRoom'
    <2> SUFFICES ASSUME NEW q \in Procs,
                        task'[q].at \in {"update_loaded", "update_locked", "update_checked"}
                 PROVE  task'[q].room = bookings'[task'[q].bk].room
      BY DEF EditsLockTheirRoom, Procs
    <2>1. CASE q = p
      BY <1>1, <1>2, <1>3, <2>1 DEF Fresh, KeepsRows
    <2>2. CASE q # p
      <3>1. task'[q] = task[q]
        BY <1>3, <2>2
      <3>2. TasksNameRows /\ EditsLockTheirRoom
        BY DEF IInv
      <3>3. task[q].bk \in Bookings /\ bookings[task[q].bk] # NoBooking
        BY <1>4, <1>5, <3>1, <3>2 DEF TasksNameRows
      <3> QED
        BY <1>2, <3>1, <3>2, <3>3 DEF EditsLockTheirRoom, KeepsRows
    <2> QED
      BY <2>1, <2>2
  <1> QED
    BY <1>6, <1>7

LEMMA GoodStepKeepsLocks ==
    ASSUME IInv, NEW p \in Procs, GoodStep(p)
    PROVE  LockExclusive' /\ ChecksSawTheirWindow' /\ PromisedStretchKept'
  <1>1. PICK t \in Task : Become(p, t) /\ Fresh(p, t)
    BY DEF GoodStep
  <1>2. MovesUnderLock(p) /\ TypeOK /\ LockExclusive /\ PromisedStretchKept /\ ChecksSawTheirWindow
    BY DEF GoodStep, IInv
  <1>3. task'[p] = t /\ \A q \in Procs : q # p => task'[q] = task[q]
    BY <1>1, <1>2 DEF Become, TypeOK
  <1>4. LockExclusive'
    <2> SUFFICES ASSUME NEW q \in Procs, NEW r \in Procs, q # r,
                        task'[q].at \in LockedStages, task'[r].at \in LockedStages,
                        q # p
                 PROVE  task'[q].room # task'[r].room
      BY DEF LockExclusive, Procs, LockedStages
    <2>1. task'[q] = task[q]
      BY <1>3
    <2>2. CASE r = p
      BY <1>1, <1>2, <1>3, <2>1, <2>2 DEF Fresh, LockExclusive, RoomIsLocked
    <2>3. CASE r # p
      BY <1>2, <1>3, <2>1, <2>3 DEF LockExclusive
    <2> QED
      BY <2>2, <2>3
  <1>5. ChecksSawTheirWindow'
    BY <1>1, <1>2, <1>3 DEF ChecksSawTheirWindow, Fresh, Procs
  <1>6. PromisedStretchKept'
    <2> SUFFICES ASSUME NEW q \in Procs, NEW b \in Bookings,
                        bookings'[b].status = "confirmed",
                        \/ task'[q].at = "create_priced"
                        \/ task'[q].at = "update_checked" /\ task'[q].bk # b
                 PROVE  ~Overlap(bookings'[b], task'[q])
      BY DEF PromisedStretchKept, Procs, Overlap, Bookings
    <2>1. \/ bookings'[b] = bookings[b]
          \/ task[p].at \in LockedStages /\ task[p].room = bookings'[b].room
      BY <1>2 DEF MovesUnderLock
    <2>2. CASE q # p
      <3>1. task'[q] = task[q]
        BY <1>3, <2>2
      <3>2. CASE bookings'[b] = bookings[b]
        BY <1>2, <3>1, <3>2 DEF PromisedStretchKept
      <3>3. CASE task[p].at \in LockedStages /\ task[p].room = bookings'[b].room
        <4>1. task[q].at \in LockedStages
          BY <3>1 DEF LockedStages
        <4>2. task[q].room # task[p].room
          BY <1>2, <2>2, <3>3, <4>1 DEF LockExclusive
        <4> QED
          BY <3>1, <3>3, <4>2 DEF Overlap
      <3> QED
        BY <2>1, <3>2, <3>3
    <2>3. CASE q = p
      BY <1>1, <1>3, <2>3 DEF Fresh
    <2> QED
      BY <2>2, <2>3
  <1> QED
    BY <1>4, <1>5, <1>6
-----------------------------------------------------------------------------
(* Every action of a process makes a good step. *)

LEMMA CreateGood ==
    ASSUME IInv, NEW p \in Procs
    PROVE  /\ \A actor, who \in Users, waive \in BOOLEAN, s \in Windows :
                 CreateLock(p, actor, who, waive, s) => GoodStep(p)
           /\ CreatePrepare(p) => GoodStep(p)
           /\ CreateCommit(p) => GoodStep(p)
  <1> USE DEF IInv
  <1>1. ASSUME NEW actor \in Users, NEW who \in Users, NEW waive \in BOOLEAN,
               NEW s \in Windows, CreateLock(p, actor, who, waive, s)
        PROVE  GoodStep(p)
    <2> DEFINE t == [at |-> "create_locked", actor |-> actor, who |-> who, waive |-> waive,
                     room |-> s.room, from |-> s.from, to |-> s.to]
    <2>1. t \in Task
      BY StretchParts DEF Task, CreateTask
    <2>2. Become(p, t) /\ bookings' = bookings /\ ~RoomIsLocked(t.room)
      BY <1>1 DEF CreateLock
    <2>3. Fresh(p, t)
      BY <2>2 DEF Fresh
    <2> QED
      BY <2>1, <2>2, <2>3, QuietStep
  <1>2. ASSUME CreatePrepare(p)
        PROVE  GoodStep(p)
    <2>1. TypeOK' /\ task[p].at = "create_locked" /\ bookings' = bookings
      BY <1>2, CreatePrepareType DEF CreatePrepare
    <2>2. PICK t : /\ Become(p, t)
                   /\ t.at = "create_priced"
                   /\ t.room = task[p].room /\ t.from = task[p].from /\ t.to = task[p].to
      BY <1>2 DEF CreatePrepare
    <2>3. t \in Task
      BY <2>1, <2>2 DEF Become, TypeOK
    <2>4. t.from < t.to /\ ~Conflict(task[p], 0)
      BY <1>2, <2>2 DEF CreatePrepare, WindowIsValid
    <2>5. \A b \in Bookings : bookings[b].status = "confirmed" => ~Overlap(bookings[b], t)
      <3>1. \A b \in Bookings : b # 0
        BY SizesAreNaturals DEF Bookings
      <3> QED
        BY <2>2, <2>4, <3>1 DEF Conflict, Live, LiveStatuses, Overlap
    <2>6. Fresh(p, t)
      BY <2>1, <2>2, <2>4, <2>5 DEF Fresh, LockedStages
    <2> QED
      BY <2>1, <2>2, <2>3, <2>6, QuietStep
  <1>3. ASSUME CreateCommit(p)
        PROVE  GoodStep(p)
    <2> DEFINE t == task[p]
               row == [status |-> "confirmed", room |-> t.room, user |-> t.who,
                       from |-> t.from, to |-> t.to, used |-> t.used, cash |-> t.cash]
    <2>1. PICK b \in Bookings : NextId(b) /\ bookings' = [bookings EXCEPT ![b] = row]
      BY <1>3 DEF CreateCommit
    <2>2. \A c \in Bookings : bookings'[c] = IF c = b THEN row ELSE bookings[c]
      BY <2>1 DEF TypeOK
    <2>3. KeepsRows
      BY <2>1, <2>2 DEF KeepsRows, NextId
    <2>4. t.at \in LockedStages /\ Done(p)
      BY <1>3 DEF CreateCommit, LockedStages
    <2>5. MovesUnderLock(p)
      BY <2>2, <2>4 DEF MovesUnderLock
    <2> QED
      BY <2>3, <2>4, <2>5, DoneStep
  <1> QED
    BY <1>1, <1>2, <1>3

LEMMA CancelGood ==
    ASSUME IInv, NEW p \in Procs
    PROVE  /\ \A actor \in Users, b \in Bookings : CancelLoad(p, actor, b) => GoodStep(p)
           /\ CancelRefund(p) => GoodStep(p)
           /\ CancelCommit(p) => GoodStep(p)
  <1> USE DEF IInv
  <1>1. ASSUME NEW actor \in Users, NEW b \in Bookings, CancelLoad(p, actor, b)
        PROVE  GoodStep(p)
    <2> DEFINE t == [at |-> "cancel_loaded", bk |-> b, used |-> bookings[b].used]
    <2>1. Become(p, t) /\ bookings' = bookings /\ TypeOK'
      BY <1>1, CancelLoadType DEF CancelLoad
    <2>2. t \in Task
      BY <2>1 DEF Become, TypeOK
    <2>3. bookings[b] # NoBooking
      BY <1>1 DEF CancelLoad, Live, LiveStatuses, NoBooking
    <2>4. Fresh(p, t)
      BY <2>3 DEF Fresh, LockedStages
    <2> QED
      BY <2>1, <2>2, <2>4, QuietStep
  <1>2. ASSUME CancelRefund(p)
        PROVE  GoodStep(p)
    <2>1. TypeOK' /\ task[p].at = "cancel_loaded" /\ bookings' = bookings
      BY <1>2, CancelRefundType DEF CancelRefund
    <2>2. PICK t : Become(p, t) /\ t.at = "cancel_refunding" /\ t.bk = task[p].bk
      BY <1>2 DEF CancelRefund
    <2>3. t \in Task
      BY <2>1, <2>2 DEF Become, TypeOK
    <2>4. Fresh(p, t)
      BY <2>1, <2>2 DEF Fresh, LockedStages, TasksNameRows
    <2> QED
      BY <2>1, <2>2, <2>3, <2>4, QuietStep
  <1>3. ASSUME CancelCommit(p)
        PROVE  GoodStep(p)
    <2> DEFINE k == task[p].bk
    <2>1. task[p] \in RefundTask /\ task[p].at = "cancel_refunding"
      BY <1>3, TaskShape DEF CancelCommit, TypeOK
    <2>2. k \in Bookings /\ bookings[k] \in Booking
      BY <2>1, RowType DEF RefundTask, TasksNameRows
    <2>3. \A c \in Bookings : bookings'[c] =
             IF c = k THEN [bookings[k] EXCEPT !.status = "cancelled"] ELSE bookings[c]
      BY <1>3, <2>2 DEF CancelCommit, TypeOK
    <2>4. /\ bookings'[k].status = "cancelled"
          /\ bookings'[k].room = bookings[k].room
      BY <2>2, <2>3 DEF Booking
    <2>5. KeepsRows /\ MovesUnderLock(p)
      BY <2>3, <2>4 DEF KeepsRows, MovesUnderLock, NoBooking
    <2> QED
      BY <1>3, <2>5, DoneStep DEF CancelCommit
  <1> QED
    BY <1>1, <1>2, <1>3

LEMMA UpdateGood ==
    ASSUME IInv, NEW p \in Procs
    PROVE  /\ \A actor \in Users, b \in Bookings, s \in Windows :
                 UpdateLoad(p, actor, b, s) => GoodStep(p)
           /\ UpdateLock(p) => GoodStep(p)
           /\ UpdateCheck(p) => GoodStep(p)
           /\ UpdateCommit(p) => GoodStep(p)
  <1> USE DEF IInv
  <1>1. ASSUME NEW actor \in Users, NEW b \in Bookings, NEW s \in Windows,
               UpdateLoad(p, actor, b, s)
        PROVE  GoodStep(p)
    <2>1. TypeOK' /\ bookings' = bookings /\ bookings[b] # NoBooking
      BY <1>1, UpdateLoadType DEF UpdateLoad, NoBooking
    <2>2. PICK t : /\ Become(p, t) /\ t.at = "update_loaded"
                   /\ t.bk = b /\ t.room = bookings[b].room
      BY <1>1 DEF UpdateLoad
    <2>3. t \in Task
      BY <2>1, <2>2 DEF Become, TypeOK
    <2>4. Fresh(p, t)
      BY <2>1, <2>2 DEF Fresh, LockedStages
    <2> QED
      BY <2>1, <2>2, <2>3, <2>4, QuietStep
  <1>2. ASSUME UpdateLock(p)
        PROVE  GoodStep(p)
    <2> DEFINE t == [task[p] EXCEPT !.at = "update_locked"]
    <2>1. /\ TypeOK' /\ bookings' = bookings /\ Become(p, t)
          /\ task[p].at = "update_loaded" /\ ~RoomIsLocked(task[p].room)
      BY <1>2, UpdateLockType DEF UpdateLock
    <2>2. t \in Task
      BY <2>1 DEF Become, TypeOK
    <2>3. task[p] \in UpdateTask
      BY <2>1, TaskShape DEF TypeOK
    <2>4. /\ t.at = "update_locked" /\ t.bk = task[p].bk /\ t.room = task[p].room
          /\ t.bk \in Bookings
      BY <2>3 DEF UpdateTask
    <2>5. bookings[t.bk] # NoBooking /\ t.room = bookings[t.bk].room
      BY <2>1, <2>4 DEF TasksNameRows, EditsLockTheirRoom
    <2>6. Fresh(p, t)
      BY <2>1, <2>4, <2>5 DEF Fresh
    <2> QED
      BY <2>1, <2>2, <2>6, QuietStep
  <1>3. ASSUME UpdateCheck(p)
        PROVE  GoodStep(p)
    <2>1. TypeOK' /\ task[p].at = "update_locked" /\ bookings' = bookings
      BY <1>3, UpdateCheckType DEF UpdateCheck
    <2>2. PICK t : /\ Become(p, t) /\ t.at = "update_checked" /\ t.bk = task[p].bk
                   /\ t.room = task[p].room /\ t.from = task[p].from /\ t.to = task[p].to
      BY <1>3 DEF UpdateCheck
    <2>3. t \in Task
      BY <2>1, <2>2 DEF Become, TypeOK
    <2>4. task[p] \in UpdateTask
      BY <2>1, TaskShape DEF TypeOK
    <2>5. t.bk \in Bookings /\ bookings[t.bk] # NoBooking /\ t.room = bookings[t.bk].room
      BY <2>1, <2>2, <2>4 DEF UpdateTask, TasksNameRows, EditsLockTheirRoom
    <2>6. t.from < t.to /\ ~Conflict(task[p], t.bk)
      BY <1>3, <2>2 DEF UpdateCheck, WindowIsValid
    <2>7. \A b \in Bookings :
             bookings[b].status = "confirmed" /\ t.bk # b => ~Overlap(bookings[b], t)
      BY <2>2, <2>6 DEF Conflict, Live, LiveStatuses, Overlap
    <2>8. Fresh(p, t)
      BY <2>1, <2>2, <2>5, <2>6, <2>7 DEF Fresh, LockedStages
    <2> QED
      BY <2>1, <2>2, <2>3, <2>8, QuietStep
  <1>4. ASSUME UpdateCommit(p)
        PROVE  GoodStep(p)
    <2> DEFINE k == task[p].bk
    <2>1. TypeOK' /\ task[p].at = "update_checked" /\ Done(p)
      BY <1>4, UpdateCommitType DEF UpdateCommit
    <2>2. task[p] \in RepriceTask
      BY <2>1, TaskShape DEF TypeOK
    <2>3. k \in Bookings /\ bookings[k] \in Booking /\ task[p].room = bookings[k].room
      BY <2>1, <2>2, RowType DEF RepriceTask, TasksNameRows, EditsLockTheirRoom
    <2>4. PICK used, cash :
             bookings' = [bookings EXCEPT ![k] = Rewritten(task[p], bookings[k], used, cash)]
      BY <1>4 DEF UpdateCommit
    <2>5. /\ bookings'[k].room = bookings[k].room /\ bookings'[k].status = bookings[k].status
          /\ \A c \in Bookings : c # k => bookings'[c] = bookings[c]
      BY <2>3, <2>4 DEF Rewritten, Booking, TypeOK
    <2>6. KeepsRows
      BY <2>3, <2>5 DEF KeepsRows, NoBooking, Booking, LiveStatuses, TerminalStatuses
    <2>7. MovesUnderLock(p)
      BY <2>1, <2>3, <2>5 DEF MovesUnderLock, LockedStages
    <2> QED
      BY <2>1, <2>6, <2>7, DoneStep
  <1> QED
    BY <1>1, <1>2, <1>3, <1>4

LEMMA CheckInGood ==
    ASSUME IInv, NEW p \in Procs
    PROVE  /\ \A actor \in Users, b \in Bookings : CheckInLoad(p, actor, b) => GoodStep(p)
           /\ CheckInCommit(p) => GoodStep(p)
  <1> USE DEF IInv
  <1>1. ASSUME NEW actor \in Users, NEW b \in Bookings, CheckInLoad(p, actor, b)
        PROVE  GoodStep(p)
    <2> DEFINE t == [at |-> "checkin_loaded", bk |-> b]
    <2>1. Become(p, t) /\ bookings' = bookings
      BY <1>1 DEF CheckInLoad
    <2>2. t \in Task
      BY DEF Task, CheckInTask
    <2>3. bookings[b] # NoBooking
      BY <1>1 DEF CheckInLoad, NoBooking
    <2>4. Fresh(p, t)
      BY <2>3 DEF Fresh, LockedStages
    <2> QED
      BY <2>1, <2>2, <2>4, QuietStep
  <1>2. ASSUME CheckInCommit(p)
        PROVE  GoodStep(p)
    <2> DEFINE k == task[p].bk
    <2>1. task[p] \in CheckInTask /\ task[p].at = "checkin_loaded"
      BY <1>2, TaskShape DEF CheckInCommit, TypeOK
    <2>2. k \in Bookings /\ bookings[k] \in Booking
      BY <2>1, RowType DEF CheckInTask, TasksNameRows
    <2>3. \A c \in Bookings : bookings'[c] =
             IF c = k THEN [bookings[k] EXCEPT !.status = "checked_in"] ELSE bookings[c]
      BY <1>2, <2>2 DEF CheckInCommit, TypeOK
    <2>4. /\ bookings'[k].status = "checked_in"
          /\ bookings'[k].room = bookings[k].room
      BY <2>2, <2>3 DEF Booking
    <2>5. KeepsRows /\ MovesUnderLock(p)
      BY <2>3, <2>4 DEF KeepsRows, MovesUnderLock, NoBooking
    <2> QED
      BY <1>2, <2>5, DoneStep DEF CheckInCommit
  <1> QED
    BY <1>1, <1>2

LEMMA ReleaseGood ==
    ASSUME IInv, NEW p \in Procs
    PROVE  /\ ReleaseLoad(p) => GoodStep(p)
           /\ ReleaseCommit(p) => GoodStep(p)
  <1> USE DEF IInv
  <1>1. ASSUME ReleaseLoad(p)
        PROVE  GoodStep(p)
    <2> DEFINE t == [at |-> "release_loaded",
                     noShows |-> {b \in Bookings : NoShowDue(b)},
                     finished |-> {b \in Bookings : FinishedDue(b)},
                     charged |-> {b \in Bookings : NoShowDue(b) /\ bookings[b].used > 0}]
    <2>1. Become(p, t) /\ bookings' = bookings
      BY <1>1 DEF ReleaseLoad
    <2>2. t \in Task
      BY DEF Task, ReleaseTask
    <2>3. \A b \in t.noShows \union t.finished : bookings[b] # NoBooking
      BY DEF NoShowDue, FinishedDue, NoBooking
    <2>4. Fresh(p, t)
      BY <2>3 DEF Fresh, LockedStages
    <2> HIDE DEF t
    <2> QED
      BY <2>1, <2>2, <2>4, QuietStep
  <1>2. ASSUME ReleaseCommit(p)
        PROVE  GoodStep(p)
    <2> DEFINE t == task[p]
    <2>1. t \in ReleaseTask /\ t.at = "release_loaded"
      BY <1>2, TaskShape DEF ReleaseCommit, TypeOK
    <2>2. \A b \in t.noShows \union t.finished : bookings[b] # NoBooking
      BY <2>1 DEF TasksNameRows
    <2>3. ASSUME NEW c \in Bookings
          PROVE  /\ bookings[c] # NoBooking =>
                       bookings'[c] # NoBooking /\ bookings'[c].room = bookings[c].room
                 /\ bookings'[c].status = "confirmed" => bookings'[c] = bookings[c]
      <3>1. \/ c \in t.noShows /\ bookings'[c] = [bookings[c] EXCEPT !.status = "no_show"]
            \/ c \in t.finished /\ bookings'[c] = [bookings[c] EXCEPT !.status = "completed"]
            \/ bookings'[c] = bookings[c]
        BY <1>2, <2>3 DEF ReleaseCommit
      <3>2. CASE c \in t.noShows \union t.finished
        <4>1. bookings[c] \in Booking
          BY <2>2, <3>2, RowType
        <4> QED
          BY <3>1, <4>1 DEF Booking, NoBooking
      <3> QED
        BY <3>1, <3>2
    <2>4. KeepsRows /\ MovesUnderLock(p)
      BY <2>3 DEF KeepsRows, MovesUnderLock
    <2> QED
      BY <1>2, <2>4, DoneStep DEF ReleaseCommit
  <1> QED
    BY <1>1, <1>2

LEMMA ExpireGood ==
    ASSUME IInv, NEW p \in Procs
    PROVE  /\ ExpireLoad(p) => GoodStep(p)
           /\ ExpireCommit(p) => GoodStep(p)
  <1> USE DEF IInv
  <1>1. ASSUME ExpireLoad(p)
        PROVE  GoodStep(p)
    <2>1. TypeOK' /\ bookings' = bookings
      BY <1>1, ExpireLoadType DEF ExpireLoad
    <2>2. PICK t : Become(p, t) /\ t.at = "expire_loaded"
      BY <1>1 DEF ExpireLoad
    <2>3. t \in Task
      BY <2>1, <2>2 DEF Become, TypeOK
    <2>4. Fresh(p, t)
      BY <2>2 DEF Fresh, LockedStages
    <2> QED
      BY <2>1, <2>2, <2>3, <2>4, QuietStep
  <1>2. ASSUME ExpireCommit(p)
        PROVE  GoodStep(p)
    <2>1. bookings' = bookings /\ Done(p)
      BY <1>2 DEF ExpireCommit
    <2> QED
      BY <2>1, DoneStep DEF KeepsRows, MovesUnderLock
  <1> QED
    BY <1>1, <1>2

LEMMA BlockGood ==
    ASSUME IInv, NEW p \in Procs
    PROVE  /\ \A s \in Windows : BlockCheck(p, s) => GoodStep(p)
           /\ BlockCommit(p) => GoodStep(p)
           /\ Fail(p) => GoodStep(p)
  <1> USE DEF IInv
  <1>1. ASSUME NEW s \in Windows, BlockCheck(p, s)
        PROVE  GoodStep(p)
    <2> DEFINE t == [at |-> "block_checked", room |-> s.room, from |-> s.from, to |-> s.to]
    <2>1. Become(p, t) /\ bookings' = bookings
      BY <1>1 DEF BlockCheck
    <2>2. t \in Task
      BY StretchParts DEF Task, BlockTask
    <2>3. Fresh(p, t)
      BY DEF Fresh, LockedStages
    <2> QED
      BY <2>1, <2>2, <2>3, QuietStep
  <1>2. ASSUME BlockCommit(p) \/ Fail(p)
        PROVE  GoodStep(p)
    <2>1. bookings' = bookings /\ Done(p)
      BY <1>2 DEF BlockCommit, Fail, Abandon
    <2> QED
      BY <2>1, DoneStep DEF KeepsRows, MovesUnderLock
  <1> QED
    BY <1>1, <1>2
-----------------------------------------------------------------------------
(* The invariant is inductive. *)

\* A step that leaves the tasks and the rows alone keeps what is said of them.
LEMMA SameRowsSameTasks ==
    ASSUME IInv, UNCHANGED <<bookings, task>>, TypeOK'
    PROVE  IInv'
  BY DEF IInv, TasksNameRows, EditsLockTheirRoom, LockExclusive, ChecksSawTheirWindow,
         PromisedStretchKept, Procs, Bookings, NoBooking, LockedStages, Overlap

LEMMA GoodStepKeepsIInv ==
    ASSUME IInv, NEW p \in Procs, GoodStep(p), TypeOK'
    PROVE  IInv'
  BY GoodStepKeepsRows, GoodStepKeepsLocks DEF IInv

LEMMA InitIInv == Init => IInv
  <1> SUFFICES ASSUME Init
               PROVE  IInv
    OBVIOUS
  <1>1. TypeOK
    BY InitType
  <1>2. \A p \in Procs : task[p].at = "idle"
    BY DEF Init, Idle
  <1> QED
    BY <1>1, <1>2 DEF IInv, TasksNameRows, EditsLockTheirRoom, LockExclusive,
                      ChecksSawTheirWindow, PromisedStretchKept, LockedStages

LEMMA StepIInv ==
    ASSUME IInv, [Next]_vars
    PROVE  IInv'
  <1>0. TypeOK /\ TasksNameRows
    BY DEF IInv
  <1>1. CASE Tick
    BY <1>0, <1>1, TickType, SameRowsSameTasks DEF Tick
  <1>2. ASSUME NEW p \in Workers, Request(p)
        PROVE  IInv'
    <2>0. p \in Procs
      BY DEF Procs
    <2>1. CASE \E actor, who \in Users, waive \in BOOLEAN, s \in Windows :
                  CreateLock(p, actor, who, waive, s)
      <3>1. PICK actor, who \in Users, waive \in BOOLEAN, s \in Windows :
                  CreateLock(p, actor, who, waive, s)
        BY <2>1
      <3> QED
        BY <1>0, <2>0, <3>1, CreateLockType, CreateGood, GoodStepKeepsIInv
    <2>2. CASE CreatePrepare(p)
      BY <1>0, <2>0, <2>2, CreatePrepareType, CreateGood, GoodStepKeepsIInv
    <2>3. CASE CreateCommit(p)
      BY <1>0, <2>0, <2>3, CreateCommitType, CreateGood, GoodStepKeepsIInv
    <2>4. CASE \E actor \in Users, b \in Bookings : CancelLoad(p, actor, b)
      BY <1>0, <2>0, <2>4, CancelLoadType, CancelGood, GoodStepKeepsIInv
    <2>5. CASE CancelRefund(p)
      BY <1>0, <2>0, <2>5, CancelRefundType, CancelGood, GoodStepKeepsIInv
    <2>6. CASE CancelCommit(p)
      BY <1>0, <2>0, <2>6, CancelCommitType, CancelGood, GoodStepKeepsIInv
    <2>7. CASE \E actor \in Users, b \in Bookings, s \in Windows :
                  UpdateLoad(p, actor, b, s)
      <3>1. PICK actor \in Users, b \in Bookings, s \in Windows : UpdateLoad(p, actor, b, s)
        BY <2>7
      <3> QED
        BY <1>0, <2>0, <3>1, UpdateLoadType, UpdateGood, GoodStepKeepsIInv
    <2>8. CASE UpdateLock(p)
      BY <1>0, <2>0, <2>8, UpdateLockType, UpdateGood, GoodStepKeepsIInv
    <2>9. CASE UpdateCheck(p)
      BY <1>0, <2>0, <2>9, UpdateCheckType, UpdateGood, GoodStepKeepsIInv
    <2>10. CASE UpdateCommit(p)
      BY <1>0, <2>0, <2>10, UpdateCommitType, UpdateGood, GoodStepKeepsIInv DEF IInv
    <2>11. CASE \E actor \in Users, b \in Bookings : CheckInLoad(p, actor, b)
      BY <1>0, <2>0, <2>11, CheckInLoadType, CheckInGood, GoodStepKeepsIInv
    <2>12. CASE CheckInCommit(p)
      BY <1>0, <2>0, <2>12, CheckInCommitType, CheckInGood, GoodStepKeepsIInv
    <2>13. CASE \E s \in Windows : BlockCheck(p, s)
      BY <1>0, <2>0, <2>13, BlockCheckType, BlockGood, GoodStepKeepsIInv
    <2>14. CASE BlockCommit(p)
      BY <1>0, <2>0, <2>14, BlockCommitType, BlockGood, GoodStepKeepsIInv
    <2>15. CASE \E k \in blocks : BlockDelete(p, k)
      <3>1. blocks' \subseteq blocks /\ UNCHANGED <<now, bookings, remaining, ledger, task>>
        BY <2>15 DEF BlockDelete
      <3>2. TypeOK'
        BY <1>0, <3>1 DEF TypeOK, ledger, Procs
      <3> QED
        BY <3>1, <3>2, SameRowsSameTasks
    <2> QED
      BY <1>2, <2>1, <2>2, <2>3, <2>4, <2>5, <2>6, <2>7, <2>8, <2>9, <2>10, <2>11,
         <2>12, <2>13, <2>14, <2>15 DEF Request
  <1>3. ASSUME NEW p \in Crons, Job(p)
        PROVE  IInv'
    <2>0. p \in Procs
      BY DEF Procs
    <2>1. CASE ReleaseLoad(p)
      BY <1>0, <2>0, <2>1, ReleaseLoadType, ReleaseGood, GoodStepKeepsIInv
    <2>2. CASE ReleaseCommit(p)
      BY <1>0, <2>0, <2>2, ReleaseCommitType, ReleaseGood, GoodStepKeepsIInv
    <2>3. CASE ExpireLoad(p)
      BY <1>0, <2>0, <2>3, ExpireLoadType, ExpireGood, GoodStepKeepsIInv
    <2>4. CASE ExpireCommit(p)
      BY <1>0, <2>0, <2>4, ExpireCommitType, ExpireGood, GoodStepKeepsIInv
    <2> QED
      BY <1>3, <2>1, <2>2, <2>3, <2>4 DEF Job
  <1>4. ASSUME NEW p \in Procs, Fail(p)
        PROVE  IInv'
    BY <1>0, <1>4, FailType, BlockGood, GoodStepKeepsIInv
  <1>5. CASE UNCHANGED vars
    <2>1. UNCHANGED <<now, bookings, blocks, remaining, ledger, task>>
      BY <1>5 DEF vars, ledger
    <2>2. TypeOK'
      BY <1>0, <2>1 DEF TypeOK, ledger, Procs
    <2> QED
      BY <2>1, <2>2, SameRowsSameTasks
  <1> QED
    BY <1>1, <1>2, <1>3, <1>4, <1>5 DEF Next

LEMMA InvariantHolds == Spec => []IInv
  BY InitIInv, StepIInv, PTL DEF Spec

\* Every variable keeps its shape in every behaviour: no lot of credits ever goes below
\* zero (create_room_booking, _reprice_room_booking, refund_booking, expire_lots).
THEOREM TypeCorrect == Spec => []TypeOK
  <1>1. IInv => TypeOK
    BY DEF IInv
  <1> QED
    BY <1>1, InvariantHolds, PTL

\* The stretch a handler of create_room_booking or update_room_booking was promised by its
\* conflict check is still free of confirmed bookings when it commits.
THEOREM PromiseKept == Spec => []PromisedStretchKept
  <1>1. IInv => PromisedStretchKept
    BY DEF IInv
  <1> QED
    BY <1>1, InvariantHolds, PTL
-----------------------------------------------------------------------------
(* The live rows implement RoomCalendar: every step takes, moves or gives back claims, *)
(* or leaves the calendar alone.                                                        *)

\* The claim of booking b with row r, and whether r is a claim at all.
ClaimOf(b, r) == [who |-> b, room |-> r.room, from |-> r.from, to |-> r.to]
Claims(r) == r.status \in LiveStatuses /\ r.from < r.to

LEMMA HeldClaims ==
    /\ Held = {ClaimOf(b, bookings[b]) : b \in {c \in Bookings : Claims(bookings[c])}}
    /\ Held' = {ClaimOf(b, bookings'[b]) : b \in {c \in Bookings : Claims(bookings'[c])}}
  BY DEF Held, Live, ClaimOf, Claims, Bookings

\* A step that only drops claims gives them back.
LEMMA FewerClaims ==
    ASSUME Held' \subseteq Held
    PROVE  Calendar!Next
  <1>1. Held' = Held \ (Held \ Held')
    OBVIOUS
  <1>2. Calendar!GiveBack(Held \ Held')
    BY <1>1 DEF Calendar!GiveBack
  <1> QED
    BY <1>2 DEF Calendar!Next

LEMMA ClaimType ==
    ASSUME NEW b \in Bookings, NEW r \in Booking
    PROVE  ClaimOf(b, r) \in Calendar!Claim
  BY DEF ClaimOf, Booking, Calendar!Claim

\* A step that writes one row, to a stretch no other live row meets, takes or moves
\* a claim.
LEMMA OneRowWritten ==
    ASSUME TypeOK, NEW b \in Bookings, bookings'[b] \in Booking,
           \A c \in Bookings \ {b} : bookings'[c] = bookings[c],
           Claims(bookings'[b]) =>
             \A c \in Bookings \ {b} :
                Claims(bookings[c]) => ~Overlap(bookings[c], bookings'[b])
    PROVE  Calendar!Next
  <1> DEFINE new == ClaimOf(b, bookings'[b])
             old == ClaimOf(b, bookings[b])
  <1>1. new \in Calendar!Claim
    BY ClaimType
  <1>2. \A c \in Bookings : ClaimOf(c, bookings[c]).who = c
    BY DEF ClaimOf
  <1>3. CASE ~Claims(bookings'[b])
    <2>1. Held' \subseteq Held
      BY <1>3, HeldClaims
    <2> QED
      BY <2>1, FewerClaims
  <1>4. CASE Claims(bookings'[b])
    <2>1. ASSUME NEW d \in Held, d # old \/ ~Claims(bookings[b])
          PROVE  d.who # new.who /\ ~Calendar!Overlaps(new, d) /\ ~Calendar!Overlaps(d, new)
      <3>1. PICK c \in Bookings : Claims(bookings[c]) /\ d = ClaimOf(c, bookings[c])
        BY HeldClaims
      <3>2. c # b
        BY <2>1, <3>1
      <3>3. ~Overlap(bookings[c], bookings'[b])
        BY <1>4, <3>1, <3>2
      <3> QED
        BY <3>1, <3>2, <3>3 DEF ClaimOf, Overlap, Calendar!Overlaps
    <2>2. CASE Claims(bookings[b])
      <3>1. old \in Held
        BY <2>2, HeldClaims
      <3>2. Held' = (Held \ {old}) \union {new}
        <4>1. ASSUME NEW d \in Held' PROVE d \in (Held \ {old}) \union {new}
          <5>1. PICK c \in Bookings : Claims(bookings'[c]) /\ d = ClaimOf(c, bookings'[c])
            BY <4>1, HeldClaims
          <5>2. CASE c = b
            BY <5>1, <5>2
          <5>3. CASE c # b
            <6>1. d \in Held
              BY <5>1, <5>3, HeldClaims
            <6>2. d # old
              BY <5>1, <5>3 DEF ClaimOf
            <6> QED
              BY <6>1, <6>2
          <5> QED
            BY <5>2, <5>3
        <4>2. ASSUME NEW d \in Held, d # old PROVE d \in Held'
          <5>1. PICK c \in Bookings : Claims(bookings[c]) /\ d = ClaimOf(c, bookings[c])
            BY HeldClaims
          <5>2. c # b
            BY <4>2, <5>1
          <5> QED
            BY <5>1, <5>2, HeldClaims
        <4>3. new \in Held'
          BY <1>4, HeldClaims
        <4> QED
          BY <4>1, <4>2, <4>3
      <3>3. new.who = old.who
        BY DEF ClaimOf
      <3>4. Calendar!Move(old, new)
        BY <2>1, <3>2, <3>3 DEF Calendar!Move
      <3> HIDE DEF old, new
      <3> QED
        BY <1>1, <3>1, <3>4 DEF Calendar!Next
    <2>3. CASE ~Claims(bookings[b])
      <3>1. Held' = Held \union {new}
        <4>1. ASSUME NEW d \in Held' PROVE d \in Held \union {new}
          BY <4>1, HeldClaims
        <4>2. ASSUME NEW d \in Held PROVE d \in Held'
          BY <2>3, HeldClaims
        <4>3. new \in Held'
          BY <1>4, HeldClaims
        <4> QED
          BY <4>1, <4>2, <4>3
      <3>2. Calendar!Take(new)
        BY <2>1, <2>3, <3>1 DEF Calendar!Take
      <3> HIDE DEF new
      <3> QED
        BY <1>1, <3>2 DEF Calendar!Next
    <2> QED
      BY <2>2, <2>3
  <1> QED
    BY <1>3, <1>4

\* Steps that leave the rows alone leave the calendar alone.
LEMMA SameRowsSameCalendar ==
    ASSUME bookings' = bookings
    PROVE  Held' = Held
  BY HeldClaims

LEMMA CreateCommitTakes ==
    ASSUME TypeOK, NEW p \in Procs, CreateCommit(p)
    PROVE  Calendar!Next
  <1> DEFINE t == task[p]
             row == [status |-> "confirmed", room |-> t.room, user |-> t.who,
                     from |-> t.from, to |-> t.to, used |-> t.used, cash |-> t.cash]
  <1>1. t \in PricedTask
    BY TaskShape DEF CreateCommit, TypeOK
  <1>2. row \in Booking
    BY <1>1 DEF PricedTask, Booking, LiveStatuses
  <1>3. PICK b \in Bookings : ConstraintAllows(b, t) /\ bookings' = [bookings EXCEPT ![b] = row]
    BY DEF CreateCommit
  <1>4. bookings'[b] = row /\ \A c \in Bookings \ {b} : bookings'[c] = bookings[c]
    BY <1>3 DEF TypeOK
  <1>5. ASSUME Claims(row), NEW c \in Bookings \ {b}, Claims(bookings[c])
        PROVE  ~Overlap(bookings[c], row)
    BY <1>3, <1>5 DEF ConstraintAllows, RangesMeet, Claims, Live, Overlap
  <1> HIDE DEF row
  <1> QED
    BY <1>2, <1>4, <1>5, OneRowWritten

LEMMA UpdateCommitMoves ==
    ASSUME TypeOK, TypeOK', TasksNameRows, NEW p \in Procs, UpdateCommit(p)
    PROVE  Calendar!Next
  <1> DEFINE t == task[p]
             k == t.bk
  <1>1. t \in RepriceTask /\ t.at = "update_checked"
    BY TaskShape DEF UpdateCommit, TypeOK
  <1>2. k \in Bookings /\ bookings[k] \in Booking
    BY <1>1, RowType DEF RepriceTask, TasksNameRows
  <1>3. PICK used, cash :
           /\ Live(k) => ConstraintAllows(k, Rewritten(t, bookings[k], used, cash))
           /\ bookings' = [bookings EXCEPT ![k] = Rewritten(t, bookings[k], used, cash)]
    BY DEF UpdateCommit
  <1> DEFINE new == Rewritten(t, bookings[k], used, cash)
  <1>4. bookings'[k] = new /\ \A c \in Bookings \ {k} : bookings'[c] = bookings[c]
    BY <1>2, <1>3 DEF TypeOK
  <1>5. new.status = bookings[k].status
    BY <1>2 DEF Rewritten, Booking
  <1>6. bookings'[k] \in Booking
    <2>1. bookings'[k] # NoBooking
      BY <1>2, <1>4, <1>5 DEF Booking, NoBooking, LiveStatuses, TerminalStatuses
    <2> QED
      BY <1>2, <2>1 DEF TypeOK, Bookings
  <1>7. Live(k) => ConstraintAllows(k, new)
    BY <1>3
  <1> HIDE DEF new
  <1>8. ASSUME Claims(new), NEW c \in Bookings \ {k}, Claims(bookings[c])
        PROVE  ~Overlap(bookings[c], new)
    BY <1>5, <1>7, <1>8 DEF ConstraintAllows, RangesMeet, Claims, Live
  <1> QED
    BY <1>2, <1>4, <1>6, <1>8, OneRowWritten

LEMMA CancelCommitGivesBack ==
    ASSUME TypeOK, TasksNameRows, NEW p \in Procs, CancelCommit(p)
    PROVE  Calendar!Next
  <1> DEFINE k == task[p].bk
  <1>1. task[p] \in RefundTask /\ task[p].at = "cancel_refunding"
    BY TaskShape DEF CancelCommit, TypeOK
  <1>2. k \in Bookings /\ bookings[k] \in Booking
    BY <1>1, RowType DEF RefundTask, TasksNameRows
  <1>3. \A c \in Bookings : bookings'[c] =
           IF c = k THEN [bookings[k] EXCEPT !.status = "cancelled"] ELSE bookings[c]
    BY <1>2 DEF CancelCommit, TypeOK
  <1>4. \A c \in Bookings : Claims(bookings'[c]) => bookings'[c] = bookings[c]
    BY <1>2, <1>3 DEF Claims, LiveStatuses, Booking
  <1> QED
    BY <1>4, HeldClaims, FewerClaims

LEMMA CheckInCommitTakes ==
    ASSUME TypeOK, TasksNameRows, NEW p \in Procs, CheckInCommit(p)
    PROVE  Calendar!Next
  <1> DEFINE k == task[p].bk
             new == [bookings[k] EXCEPT !.status = "checked_in"]
  <1>1. task[p] \in CheckInTask /\ task[p].at = "checkin_loaded"
    BY TaskShape DEF CheckInCommit, TypeOK
  <1>2. k \in Bookings /\ bookings[k] \in Booking
    BY <1>1, RowType DEF CheckInTask, TasksNameRows
  <1>3. bookings'[k] = new /\ \A c \in Bookings \ {k} : bookings'[c] = bookings[c]
    BY <1>2 DEF CheckInCommit, TypeOK
  <1>4. new \in Booking /\ new.room = bookings[k].room
        /\ new.from = bookings[k].from /\ new.to = bookings[k].to
    BY <1>2 DEF Booking, LiveStatuses
  <1>5. ConstraintAllows(k, bookings[k])
    BY DEF CheckInCommit
  <1> HIDE DEF new
  <1>6. ASSUME Claims(new), NEW c \in Bookings \ {k}, Claims(bookings[c])
        PROVE  ~Overlap(bookings[c], new)
    BY <1>4, <1>5, <1>6 DEF ConstraintAllows, RangesMeet, Claims, Live, Overlap
  <1> QED
    BY <1>2, <1>3, <1>4, <1>6, OneRowWritten

LEMMA ReleaseCommitGivesBack ==
    ASSUME TypeOK, TasksNameRows, NEW p \in Procs, ReleaseCommit(p)
    PROVE  Calendar!Next
  <1> DEFINE t == task[p]
  <1>1. t \in ReleaseTask /\ t.at = "release_loaded"
    BY TaskShape DEF ReleaseCommit, TypeOK
  <1>2. \A b \in t.noShows \union t.finished : bookings[b] # NoBooking
    BY <1>1 DEF TasksNameRows
  <1>3. ASSUME NEW c \in Bookings, Claims(bookings'[c])
        PROVE  bookings'[c] = bookings[c]
    <2>1. \/ c \in t.noShows /\ bookings'[c] = [bookings[c] EXCEPT !.status = "no_show"]
          \/ c \in t.finished /\ bookings'[c] = [bookings[c] EXCEPT !.status = "completed"]
          \/ bookings'[c] = bookings[c]
      BY <1>3 DEF ReleaseCommit
    <2>2. c \in t.noShows \union t.finished => bookings[c] \in Booking
      BY <1>2, RowType
    <2> QED
      BY <1>3, <2>1, <2>2 DEF Booking, Claims, LiveStatuses
  <1> QED
    BY <1>3, HeldClaims, FewerClaims

LEMMA RefinementStep ==
    ASSUME IInv, IInv', [Next]_vars
    PROVE  [Calendar!Next]_Held
  <1>0. TypeOK /\ TypeOK' /\ TasksNameRows
    BY DEF IInv
  <1>1. CASE Tick \/ UNCHANGED vars
    BY <1>1, SameRowsSameCalendar DEF Tick, vars
  <1>2. ASSUME NEW p \in Workers, Request(p)
        PROVE  [Calendar!Next]_Held
    <2>0. p \in Procs
      BY DEF Procs
    <2>1. CASE CreateCommit(p)
      BY <1>0, <2>0, <2>1, CreateCommitTakes
    <2>2. CASE UpdateCommit(p)
      BY <1>0, <2>0, <2>2, UpdateCommitMoves
    <2>3. CASE CancelCommit(p)
      BY <1>0, <2>0, <2>3, CancelCommitGivesBack
    <2>4. CASE CheckInCommit(p)
      BY <1>0, <2>0, <2>4, CheckInCommitTakes
    <2>5. CASE ~CreateCommit(p) /\ ~UpdateCommit(p) /\ ~CancelCommit(p) /\ ~CheckInCommit(p)
      <3>1. bookings' = bookings
        BY <1>2, <2>5
           DEF Request, CreateLock, CreatePrepare, CancelLoad, CancelRefund, UpdateLoad,
               UpdateLock, UpdateCheck, CheckInLoad, BlockCheck, BlockCommit, BlockDelete
      <3> QED
        BY <3>1, SameRowsSameCalendar
    <2> QED
      BY <2>1, <2>2, <2>3, <2>4, <2>5
  <1>3. ASSUME NEW p \in Crons, Job(p)
        PROVE  [Calendar!Next]_Held
    <2>0. p \in Procs
      BY DEF Procs
    <2>1. CASE ReleaseCommit(p)
      BY <1>0, <2>0, <2>1, ReleaseCommitGivesBack
    <2>2. CASE ~ReleaseCommit(p)
      BY <1>3, <2>2, SameRowsSameCalendar DEF Job, ReleaseLoad, ExpireLoad, ExpireCommit
    <2> QED
      BY <2>1, <2>2
  <1>4. ASSUME NEW p \in Procs, Fail(p)
        PROVE  [Calendar!Next]_Held
    BY <1>4, SameRowsSameCalendar DEF Fail, Abandon
  <1> QED
    BY <1>1, <1>2, <1>3, <1>4 DEF Next

LEMMA RefinementInit == Init => Calendar!Init
  <1> SUFFICES ASSUME Init
               PROVE  Held = {}
    BY DEF Calendar!Init
  <1>1. \A b \in Bookings : ~Claims(bookings[b])
    BY DEF Init, Claims, NoBooking, LiveStatuses
  <1> QED
    BY <1>1, HeldClaims

\* The live rows of room_bookings are a calendar in which no two claims of a room overlap,
\* for any number of concurrent requests and jobs: what the exclusion constraint of the
\* migration adds to the row locks of create_room_booking and update_room_booking.
THEOREM NeverDoubleBooked == Spec => RoomsNeverDoubleBooked
  <1>1. Spec => Calendar!Init
    BY RefinementInit DEF Spec
  <1>2. IInv /\ IInv' /\ [Next]_vars => [Calendar!Next]_Held
    BY RefinementStep
  <1> QED
    BY <1>1, <1>2, InvariantHolds, PTL DEF Spec, RoomsNeverDoubleBooked, Calendar!Spec

(* What the refinement buys. *)

\* Overlapping is symmetric: it does not matter which of two claims came first.
LEMMA OverlapsSymmetric ==
    ASSUME NEW c, NEW d
    PROVE  Calendar!Overlaps(c, d) <=> Calendar!Overlaps(d, c)
  BY DEF Calendar!Overlaps

\* A step of a calendar keeps its claims apart.
LEMMA CalendarStepKeepsApart ==
    ASSUME Calendar!Exclusive(Held), [Calendar!Next]_Held
    PROVE  Calendar!Exclusive(Held')
  <1> USE DEF Calendar!Exclusive
  <1>1. CASE \E c \in Calendar!Claim : Calendar!Take(c)
    BY <1>1, OverlapsSymmetric DEF Calendar!Take
  <1>2. CASE \E old \in Held, new \in Calendar!Claim : Calendar!Move(old, new)
    <2>1. PICK old \in Held, new \in Calendar!Claim : Calendar!Move(old, new)
      BY <1>2
    <2>2. \A d \in Held \ {old} : d.who # new.who
      BY <2>1 DEF Calendar!Move
    <2> QED
      BY <2>1, <2>2, OverlapsSymmetric DEF Calendar!Move
  <1>3. CASE \E claims \in SUBSET Held : Calendar!GiveBack(claims)
    BY <1>3 DEF Calendar!GiveBack
  <1>4. CASE UNCHANGED Held
    BY <1>4
  <1> QED
    BY <1>1, <1>2, <1>3, <1>4 DEF Calendar!Next

\* No two live rows of a room ever overlap: what the conflict checks and the exclusion
\* constraint promise to whoever holds a room, over its whole history.
THEOREM LiveRowsNeverOverlap == Spec => []Calendar!Exclusive(Held)
  <1>1. Calendar!Init => Calendar!Exclusive(Held)
    BY DEF Calendar!Init, Calendar!Exclusive
  <1>2. Calendar!Exclusive(Held) /\ [Calendar!Next]_Held => Calendar!Exclusive(Held)'
    BY CalendarStepKeepsApart
  <1> QED
    BY <1>1, <1>2, NeverDoubleBooked, PTL DEF RoomsNeverDoubleBooked, Calendar!Spec
-----------------------------------------------------------------------------
(* Sums over the rows, for the ledger. *)

LEMMA Least ==
    ASSUME NEW S \in SUBSET Nat, S # {}
    PROVE  \E x \in S : \A y \in S : x <= y
  <1>1. PICK x \in S : \A y \in S : <<y, x>> \notin OpToRel(<, Nat)
    BY NatLessThanWellFounded, WFMin, Zenon
  <1>2. \A y \in S : ~(y < x)
    BY <1>1 DEF OpToRel
  <1> QED
    BY <1>2

(* Sums.  The element a fold takes next, and what is left. *)

Picked(S) == CHOOSE x \in S : TRUE
Rest(S) == S \ {Picked(S)}

\* Induction over finite sets, stated of a set of subsets.
LEMMA SetsByPicking ==
    ASSUME NEW S, IsFiniteSet(S), NEW F, {} \in F,
           \A T \in SUBSET S : T # {} /\ Rest(T) \in F => T \in F
    PROVE  \A T \in SUBSET S : T \in F
  <1> DEFINE Bad == {T \in SUBSET S : T \notin F}
             Counts == {Cardinality(T) : T \in Bad}
  <1>1. \A T \in SUBSET S : IsFiniteSet(T) /\ Cardinality(T) \in Nat
    BY FS_Subset, FS_CardinalityType
  <1>2. ASSUME Bad # {}
        PROVE  FALSE
    <2>1. Counts \in SUBSET Nat /\ Counts # {}
      BY <1>1, <1>2
    <2>2. PICK n \in Counts : \A m \in Counts : n <= m
      BY <2>1, Least
    <2>3. PICK T \in Bad : Cardinality(T) = n
      BY <2>2
    <2>4. T # {} /\ T \in SUBSET S
      BY <2>3
    <2>5. Picked(T) \in T
      BY <2>4 DEF Picked
    <2>6. Rest(T) \in SUBSET S /\ Cardinality(Rest(T)) = Cardinality(T) - 1
      BY <1>1, <2>4, <2>5, FS_RemoveElement DEF Rest
    <2>7. Cardinality(Rest(T)) \notin Counts
      BY <1>1, <2>1, <2>2, <2>3, <2>4, <2>6
    <2>8. Rest(T) \in F
      BY <2>6, <2>7
    <2> QED
      BY <2>3, <2>4, <2>8
  <1> QED
    BY <1>2

\* g is the fold of f over the subsets of S.
Fold(f, S, g) ==
    g = [s \in SUBSET S |-> IF s = {} THEN 0 ELSE f[Picked(s)] + g[Rest(s)]]

TheFold(f, S) == CHOOSE g : Fold(f, S, g)

LEMMA SumIsFold ==
    ASSUME NEW f, NEW S
    PROVE  SumFunctionOnSet(f, S) = TheFold(f, S)[S]
  BY Zenon DEF SumFunctionOnSet, FoldFunctionOnSet, MapThenFoldSet, TheFold, Fold, Picked, Rest


\* Folds over the subsets of at most n elements exist, of any n.
Small(S, n) == {T \in SUBSET S : Cardinality(T) <= n}
FoldTo(f, S, n, g) ==
    g = [s \in Small(S, n) |-> IF s = {} THEN 0 ELSE f[Picked(s)] + g[Rest(s)]]

LEMMA RestIsSmaller ==
    ASSUME NEW T, IsFiniteSet(T), T # {}
    PROVE  /\ Picked(T) \in T /\ IsFiniteSet(Rest(T)) /\ Rest(T) \subseteq T
           /\ Cardinality(T) \in Nat /\ Cardinality(Rest(T)) = Cardinality(T) - 1
  <1>1. Picked(T) \in T
    BY DEF Picked
  <1> QED
    BY <1>1, FS_RemoveElement, FS_CardinalityType, FS_Subset DEF Rest

LEMMA FoldExists ==
    ASSUME NEW f, NEW S, IsFiniteSet(S)
    PROVE  Fold(f, S, TheFold(f, S))
  <1> DEFINE Bad == {n \in Nat : ~\E g : FoldTo(f, S, n, g)}
  <1>0. \A T \in SUBSET S : IsFiniteSet(T) /\ Cardinality(T) \in Nat
    BY FS_Subset, FS_CardinalityType
  <1>1. FoldTo(f, S, 0, [s \in Small(S, 0) |-> 0])
    <2>1. \A s \in Small(S, 0) : s = {}
      BY <1>0, FS_EmptySet DEF Small
    <2> QED
      BY <2>1 DEF FoldTo
  <1>2. ASSUME NEW n \in Nat, NEW g, FoldTo(f, S, n, g)
        PROVE  \E h : FoldTo(f, S, n + 1, h)
    <2> DEFINE h == [s \in Small(S, n + 1) |-> IF s = {} THEN 0 ELSE f[Picked(s)] + g[Rest(s)]]
    <2>1. \A s \in Small(S, n) : s \in Small(S, n + 1)
      BY <1>0 DEF Small
    <2>2. \A s \in Small(S, n) : g[s] = IF s = {} THEN 0 ELSE f[Picked(s)] + g[Rest(s)]
      BY <1>2 DEF FoldTo
    <2>3. \A s \in Small(S, n) : h[s] = g[s]
      BY <2>1, <2>2
    <2>4. \A s \in Small(S, n + 1) : s # {} => Rest(s) \in Small(S, n)
      BY <1>0, RestIsSmaller DEF Small
    <2>5. \A s \in Small(S, n + 1) : h[s] = IF s = {} THEN 0 ELSE f[Picked(s)] + h[Rest(s)]
      BY <2>3, <2>4
    <2>6. h = [s \in Small(S, n + 1) |-> h[s]]
      OBVIOUS
    <2> HIDE DEF h
    <2> QED
      BY <2>5, <2>6 DEF FoldTo
  <1>3. Bad = {}
    <2> SUFFICES ASSUME Bad # {} PROVE FALSE
      OBVIOUS
    <2>1. PICK n \in Bad : \A m \in Bad : n <= m
      BY Least
    <2>2. n # 0
      BY <1>1
    <2>3. n - 1 \in Nat /\ n - 1 \notin Bad
      BY <2>1, <2>2
    <2>4. PICK g : FoldTo(f, S, n - 1, g)
      BY <2>3
    <2>5. \E h : FoldTo(f, S, (n - 1) + 1, h)
      BY <1>2, <2>3, <2>4
    <2>6. (n - 1) + 1 = n
      OBVIOUS
    <2> QED
      BY <2>5, <2>6
  <1>4. PICK g : FoldTo(f, S, Cardinality(S), g)
    BY <1>0, <1>3
  <1>5. Small(S, Cardinality(S)) = SUBSET S
    BY <1>0, FS_Subset DEF Small
  <1>6. Fold(f, S, g)
    BY <1>4, <1>5 DEF FoldTo, Fold
  <1> QED
    BY <1>6, Zenon DEF TheFold

LEMMA FoldUnique ==
    ASSUME NEW f, NEW S, IsFiniteSet(S), NEW g, Fold(f, S, g),
           NEW T \in SUBSET S, NEW h, Fold(f, T, h)
    PROVE  \A s \in SUBSET T : g[s] = h[s]
  <1> DEFINE F == {s \in SUBSET T : g[s] = h[s]}
  <1>1. \A s \in SUBSET S : g[s] = IF s = {} THEN 0 ELSE f[Picked(s)] + g[Rest(s)]
    BY DEF Fold
  <1>2. \A s \in SUBSET T : h[s] = IF s = {} THEN 0 ELSE f[Picked(s)] + h[Rest(s)]
    BY DEF Fold
  <1>3. {} \in F
    BY <1>1, <1>2
  <1>4. \A s \in SUBSET T : s # {} /\ Rest(s) \in F => s \in F
    BY <1>1, <1>2
  <1>5. IsFiniteSet(T)
    BY FS_Subset
  <1> HIDE DEF F
  <1>6. \A s \in SUBSET T : s \in F
    BY <1>3, <1>4, <1>5, SetsByPicking
  <1> QED
    BY <1>6 DEF F

LEMMA SumOfNone ==
    ASSUME NEW f
    PROVE  SumFunctionOnSet(f, {}) = 0
  <1>1. Fold(f, {}, TheFold(f, {}))
    BY FoldExists, FS_EmptySet
  <1> QED
    BY <1>1, SumIsFold DEF Fold

LEMMA SumByPicking ==
    ASSUME NEW f, NEW S, IsFiniteSet(S), S # {}
    PROVE  SumFunctionOnSet(f, S) = f[Picked(S)] + SumFunctionOnSet(f, Rest(S))
  <1> DEFINE g == TheFold(f, S)
             h == TheFold(f, Rest(S))
  <1>1. Rest(S) \in SUBSET S /\ IsFiniteSet(Rest(S))
    BY RestIsSmaller
  <1>2. Fold(f, S, g) /\ Fold(f, Rest(S), h)
    BY <1>1, FoldExists
  <1>3. SumFunctionOnSet(f, S) = g[S] /\ SumFunctionOnSet(f, Rest(S)) = h[Rest(S)]
    BY SumIsFold
  <1> HIDE DEF g, h
  <1>4. g[Rest(S)] = h[Rest(S)]
    BY <1>1, <1>2, FoldUnique
  <1>5. g[S] = f[Picked(S)] + g[Rest(S)]
    BY <1>2 DEF Fold
  <1> QED
    BY <1>3, <1>4, <1>5

LEMMA SumsAreNumbers ==
    ASSUME NEW f, NEW S, IsFiniteSet(S), \A x \in S : f[x] \in Int
    PROVE  /\ SumFunctionOnSet(f, S) \in Int
           /\ (\A x \in S : f[x] \in Nat) => SumFunctionOnSet(f, S) \in Nat
  <1> DEFINE F == {T \in SUBSET S : /\ SumFunctionOnSet(f, T) \in Int
                                    /\ (\A x \in T : f[x] \in Nat) => SumFunctionOnSet(f, T) \in Nat}
  <1>1. {} \in F
    BY SumOfNone
  <1>2. ASSUME NEW T \in SUBSET S, T # {}, Rest(T) \in F
        PROVE  T \in F
    <2> DEFINE rest == SumFunctionOnSet(f, Rest(T))
    <2>1. IsFiniteSet(T)
      BY FS_Subset
    <2>2. SumFunctionOnSet(f, T) = f[Picked(T)] + rest /\ Picked(T) \in T /\ Rest(T) \subseteq T
      BY <1>2, <2>1, SumByPicking, RestIsSmaller
    <2>3. rest \in Int /\ ((\A x \in T : f[x] \in Nat) => rest \in Nat)
      BY <1>2, <2>2
    <2> HIDE DEF rest
    <2> QED
      BY <2>2, <2>3
  <1> HIDE DEF F
  <1>3. S \in F
    BY <1>1, <1>2, SetsByPicking
  <1> QED
    BY <1>3 DEF F

LEMMA SumOfTheSame ==
    ASSUME NEW f, NEW g, NEW S, IsFiniteSet(S), \A x \in S : f[x] = g[x]
    PROVE  SumFunctionOnSet(f, S) = SumFunctionOnSet(g, S)
  <1> DEFINE F == {T \in SUBSET S : SumFunctionOnSet(f, T) = SumFunctionOnSet(g, T)}
  <1>1. {} \in F
    BY SumOfNone
  <1>2. ASSUME NEW T \in SUBSET S, T # {}, Rest(T) \in F
        PROVE  T \in F
    <2>1. IsFiniteSet(T)
      BY FS_Subset
    <2>2. /\ SumFunctionOnSet(f, T) = f[Picked(T)] + SumFunctionOnSet(f, Rest(T))
          /\ SumFunctionOnSet(g, T) = g[Picked(T)] + SumFunctionOnSet(g, Rest(T))
          /\ Picked(T) \in T
      BY <1>2, <2>1, SumByPicking, RestIsSmaller
    <2> QED
      BY <1>2, <2>2
  <1> HIDE DEF F
  <1>3. S \in F
    BY <1>1, <1>2, SetsByPicking
  <1> QED
    BY <1>3 DEF F

\* An element counts once, whichever is taken first.
Takes(f, T) == \A z \in T : SumFunctionOnSet(f, T) = f[z] + SumFunctionOnSet(f, T \ {z})

LEMMA SumWithout ==
    ASSUME NEW f, NEW S, IsFiniteSet(S), \A x \in S : f[x] \in Int, NEW y \in S
    PROVE  SumFunctionOnSet(f, S) = f[y] + SumFunctionOnSet(f, S \ {y})
  <1> DEFINE F == {T \in SUBSET S : \A V \in SUBSET S :
                      Cardinality(V) = Cardinality(T) => Takes(f, V)}
             Sum(T) == SumFunctionOnSet(f, T)
  <1>0. \A T \in SUBSET S : /\ IsFiniteSet(T) /\ Cardinality(T) \in Nat
                            /\ Cardinality(T) = 0 <=> T = {}
    BY FS_Subset, FS_CardinalityType, FS_EmptySet
  <1>1. {} \in F
    BY <1>0 DEF Takes
  <1>2. ASSUME NEW T \in SUBSET S, T # {}, Rest(T) \in F
        PROVE  T \in F
    <2> SUFFICES ASSUME NEW V \in SUBSET S, Cardinality(V) = Cardinality(T), NEW z \in V
                 PROVE  Sum(V) = f[z] + Sum(V \ {z})
      BY DEF Takes
    <2> DEFINE p == Picked(V)
               U == V \ {z}
               both == Rest(V) \ {z}
    <2>1. V # {} /\ IsFiniteSet(V)
      BY <1>0, <1>2
    <2>2. Sum(V) = f[p] + Sum(Rest(V)) /\ p \in V /\ Rest(V) = V \ {p}
      BY <2>1, SumByPicking, RestIsSmaller DEF Rest
    <2>3. Cardinality(Rest(V)) = Cardinality(Rest(T)) /\ Cardinality(U) = Cardinality(Rest(T))
      BY <1>0, <1>2, <2>1, RestIsSmaller, FS_RemoveElement
    <2>4. Takes(f, Rest(V)) /\ Takes(f, U)
      <3>1. Rest(V) \in SUBSET S /\ U \in SUBSET S
        BY <2>2
      <3> QED
        BY <1>2, <2>3, <3>1
    <2>5. CASE z = p
      BY <2>2, <2>5
    <2>6. CASE z # p
      <3>1. Sum(Rest(V)) = f[z] + Sum(both)
        BY <2>2, <2>4, <2>6 DEF Takes
      <3>2. p \in U /\ U \ {p} = both
        BY <2>2, <2>6
      <3>3. Sum(U) = f[p] + Sum(both)
        BY <2>4, <3>2 DEF Takes
      <3>4. Sum(both) \in Int
        <4>1. IsFiniteSet(both) /\ both \subseteq S
          BY <1>0, <2>2
        <4> QED
          BY <4>1, SumsAreNumbers
      <3>5. f[p] \in Int /\ f[z] \in Int
        BY <2>2
      <3> DEFINE n == Sum(both)
      <3> HIDE DEF n
      <3>6. Sum(V) = f[p] + (f[z] + n) /\ Sum(U) = f[p] + n
        BY <2>2, <3>1, <3>3 DEF n
      <3> QED
        BY <3>4, <3>5, <3>6 DEF n
    <2> QED
      BY <2>5, <2>6
  <1> HIDE DEF F
  <1>3. S \in F
    BY <1>1, <1>2, SetsByPicking
  <1> QED
    BY <1>3 DEF F, Takes

\* A sum one of whose terms changes.
LEMMA SumWithOneChanged ==
    ASSUME NEW f, NEW g, NEW S, IsFiniteSet(S), NEW y \in S,
           \A x \in S : f[x] \in Int /\ g[x] \in Int,
           \A x \in S \ {y} : g[x] = f[x]
    PROVE  /\ SumFunctionOnSet(f, S) \in Int
           /\ SumFunctionOnSet(g, S) = SumFunctionOnSet(f, S) - f[y] + g[y]
  <1> DEFINE others == SumFunctionOnSet(f, S \ {y})
  <1>1. IsFiniteSet(S \ {y})
    BY FS_Subset
  <1>2. others \in Int /\ others = SumFunctionOnSet(g, S \ {y})
    BY <1>1, SumsAreNumbers, SumOfTheSame
  <1>3. SumFunctionOnSet(f, S) = f[y] + others /\ SumFunctionOnSet(g, S) = g[y] + others
    BY <1>2, SumWithout
  <1>4. f[y] \in Int /\ g[y] \in Int
    OBVIOUS
  <1> HIDE DEF others
  <1> QED
    BY <1>2, <1>3, <1>4
-----------------------------------------------------------------------------
(* The credits, when requests do not overlap.  The balances and the end of a booking's *)
(* credits are not inductive by themselves: a commit writes what its task computed, so *)
(* the invariant says of every stage what its task knows of the rows, and of a booking *)
(* whose lot has expired what is then left of its price.                               *)

Payer(b) == PayerOf[bookings[b].user]

\* The ledger took what a live booking says it used; only once its lot has expired may it
\* say nothing was used (a move charges no expired lot) while the ledger keeps more.
Charged(b) ==
    \/ net[b] = -bookings[b].used
    \/ bookings[b].used = 0 /\ ~LotIsValid(Payer(b))

Priced(row) == row.from < row.to /\ (IsFree(row) \/ row.used + row.cash = Needed(row))

\* back is what refund_booking gives for booking b: all that it holds, or nothing once the
\* lot has expired.
Refunds(b, back) == back = -net[b] \/ (back = 0 /\ ~LotIsValid(Payer(b)))

RowAddsUp(b) ==
    /\ net[b] <= 0
    /\ Live(b) => Priced(bookings[b]) /\ Charged(b)
    /\ bookings[b].status = "cancelled" => net[b] = 0 \/ ~LotIsValid(Payer(b))
    /\ b \in forfeited => bookings[b].status = "no_show" /\ net[b] < 0

RowsAddUp == \A b \in Bookings : RowAddsUp(b)

\* What a process with task t knows is still so: what its handler has read or computed is
\* what the rows would tell it again.
Knows(t) ==
    /\ t.at = "create_locked" => (t.waive => t.actor \in Admins)
    /\ t.at = "create_priced" =>
         /\ Priced(t)
         /\ t.actor \in Admins \/ CompanyAllows(t.who, t.used, net)
    /\ t.at = "cancel_loaded" => Live(t.bk) /\ t.used = bookings[t.bk].used
    /\ t.at = "cancel_refunding" =>
         Live(t.bk) /\ Refunds(t.bk, t.back) /\ t.left = remaining[Payer(t.bk)] + t.back
    /\ t.at \in {"update_loaded", "update_locked", "update_checked"} =>
         bookings[t.bk].status = "confirmed" /\ t.was = bookings[t.bk]
    /\ t.at = "update_checked" =>
         Refunds(t.bk, t.back) /\ t.left = remaining[Payer(t.bk)] + t.back
    /\ t.at = "checkin_loaded" => bookings[t.bk].status = "confirmed"
    /\ t.at = "release_loaded" =>
         /\ \A b \in t.noShows : bookings[b].status = "confirmed"
         /\ \A b \in t.finished : bookings[b].status = "checked_in"
         /\ \A b \in t.charged : b \in t.noShows /\ bookings[b].used > 0
    /\ t.at = "expire_loaded" => \A y \in Payers : t.left[y] \in {0, remaining[y]}

TasksKnow == \A t \in {task[p] : p \in Procs} : Knows(t)

SerialInv ==
    /\ OneAtATime
    /\ LedgerExplainsBalance
    /\ RowsAddUp
    /\ TasksKnow

LEMMA SerialInvAccounts ==
    ASSUME TypeOK, SerialInv
    PROVE  CreditsAccounted
  <1>1. \A b \in Bookings : RowAddsUp(b)
    BY DEF SerialInv, RowsAddUp
  <1>2. PriceMatchesTime
    BY <1>1 DEF PriceMatchesTime, RowAddsUp, Priced, Charged, Payer
  <1>3. NoShowKeepsCreditsSpent
    BY <1>1 DEF NoShowKeepsCreditsSpent, RowAddsUp, TypeOK
  <1>4. CancelledIsRefunded
    BY <1>1 DEF CancelledIsRefunded, RowAddsUp, Payer
  <1> QED
    BY <1>2, <1>3, <1>4 DEF SerialInv, CreditsAccounted, CreditsFollowTheMeeting

(* What stays true while time passes and rows stay. *)

LEMMA ExpiredStaysExpired ==
    ASSUME TypeOK, TypeOK', now' >= now, NEW y \in Payers, ~LotIsValid(y)
    PROVE  ~LotIsValid(y)'
  BY LotsAreCounted, SizesAreNaturals DEF LotIsValid, TypeOK, Times

\* A row nobody writes.
LEMMA RowLater ==
    ASSUME TypeOK, TypeOK', now' >= now, NEW b \in Bookings,
           bookings'[b] = bookings[b], net'[b] = net[b], b \in forfeited' => b \in forfeited,
           RowAddsUp(b)
    PROVE  RowAddsUp(b)'
  <1>1. CASE bookings[b] = NoBooking
    BY <1>1 DEF RowAddsUp, Live, LiveStatuses, NoBooking
  <1>2. CASE bookings[b] # NoBooking
    <2>1. Payer(b) \in Payers /\ Payer(b)' = Payer(b)
      BY <1>2, PayerType DEF Payer
    <2>2. ~LotIsValid(Payer(b)) => ~LotIsValid(Payer(b))'
      BY <2>1, ExpiredStaysExpired DEF LotIsValid
    <2>3. Live(b)' = Live(b) /\ Priced(bookings[b])' = Priced(bookings[b])
      BY DEF Live, Priced, IsFree, Needed
    <2> QED
      BY <2>1, <2>2, <2>3 DEF RowAddsUp, Charged
  <1> QED
    BY <1>1, <1>2

SameData == /\ now' >= now
            /\ UNCHANGED <<bookings, remaining, net, expired, forfeited>>

LEMMA RowsLater ==
    ASSUME TypeOK, TypeOK', SameData, LedgerExplainsBalance, RowsAddUp
    PROVE  LedgerExplainsBalance' /\ RowsAddUp'
  <1>1. \A y : Spent(y)' = Spent(y)
    BY DEF SameData, Spent
  <1>2. LedgerExplainsBalance'
    BY <1>1 DEF SameData, LedgerExplainsBalance
  <1> QED
    BY <1>2, RowLater DEF SameData, RowsAddUp

LEMMA RefundsLater ==
    ASSUME TypeOK, TypeOK', SameData, NEW b \in Bookings, bookings[b] # NoBooking,
           NEW back, Refunds(b, back)
    PROVE  Refunds(b, back)'
  <1>1. Payer(b) \in Payers /\ Payer(b)' = Payer(b)
    BY PayerType DEF Payer, SameData
  <1>2. ~LotIsValid(Payer(b)) => ~LotIsValid(Payer(b))'
    BY <1>1, ExpiredStaysExpired DEF LotIsValid, SameData
  <1> QED
    BY <1>1, <1>2 DEF Refunds, SameData

LEMMA KnowsLater ==
    ASSUME TypeOK, TypeOK', SameData, NEW t \in Task, Knows(t)
    PROVE  Knows(t)'
  <1>1. t.at \in {"cancel_refunding", "update_checked"} => Refunds(t.bk, t.back)'
    <2> SUFFICES ASSUME t.at \in {"cancel_refunding", "update_checked"}
                 PROVE  Refunds(t.bk, t.back)'
      OBVIOUS
    <2>1. t.bk \in Bookings
      BY TaskShape DEF RefundTask, RepriceTask
    <2>2. Refunds(t.bk, t.back) /\ bookings[t.bk] # NoBooking
      BY DEF Knows, Live, LiveStatuses, NoBooking
    <2> QED
      BY <2>1, <2>2, RefundsLater
  <1>2. Live(t.bk)' = Live(t.bk) /\ Payer(t.bk)' = Payer(t.bk)
    BY DEF Live, SameData, Payer
  <1>3. CompanyAllows(t.who, t.used, net)' = CompanyAllows(t.who, t.used, net)
    BY DEF CompanyAllows, UsedBy, SameData
  <1>4. Priced(t)' = Priced(t)
    BY DEF Priced, IsFree, Needed
  <1> QED
    BY <1>1, <1>2, <1>3, <1>4 DEF Knows, SameData

(* Steps.  A process that goes on leaves the rows alone; one that commits or gives up is *)
(* the only one that was doing anything.                                                  *)

LEMMA WaitStep ==
    ASSUME IInv, TypeOK', SerialInv, SameData, task' = task
    PROVE  SerialInv'
  <1>1. TypeOK
    BY DEF IInv
  <1>2. LedgerExplainsBalance' /\ RowsAddUp'
    BY <1>1, RowsLater DEF SerialInv
  <1>3. TasksKnow'
    <2> SUFFICES ASSUME NEW t \in {task[p] : p \in Procs}
                 PROVE  Knows(t)'
      BY DEF TasksKnow
    <2>1. t \in Task /\ Knows(t)
      BY <1>1 DEF TypeOK, SerialInv, TasksKnow
    <2> QED
      BY <1>1, <2>1, KnowsLater
  <1> QED
    BY <1>2, <1>3 DEF SerialInv, OneAtATime

LEMMA LoadStep ==
    ASSUME IInv, TypeOK', SerialInv, OneAtATime', NEW p \in Procs, NEW new, Become(p, new),
           UNCHANGED <<now, bookings, blocks, remaining, ledger>>, Knows(new)
    PROVE  SerialInv'
  <1>1. TypeOK /\ SameData
    BY DEF IInv, SameData, TypeOK, Times, ledger
  <1>2. LedgerExplainsBalance' /\ RowsAddUp'
    BY <1>1, RowsLater DEF SerialInv
  <1>3. task'[p] = new /\ \A q \in Procs : q # p => task'[q] = task[q]
    BY <1>1 DEF Become, TypeOK
  <1>4. TasksKnow'
    <2> SUFFICES ASSUME NEW t \in {task'[q] : q \in Procs}
                 PROVE  Knows(t)'
      BY DEF TasksKnow
    <2>1. t \in Task
      BY DEF TypeOK
    <2>2. t = new \/ t \in {task[q] : q \in Procs}
      BY <1>3
    <2>3. Knows(t)
      BY <2>2 DEF SerialInv, TasksKnow
    <2> QED
      BY <1>1, <2>1, <2>3, KnowsLater
  <1> QED
    BY <1>2, <1>4 DEF SerialInv

LEMMA CommitStep ==
    ASSUME TypeOK, SerialInv, NEW p \in Procs, task[p] # Idle, Done(p),
           LedgerExplainsBalance', RowsAddUp'
    PROVE  SerialInv'
  <1>1. \A q \in Procs : task'[q] = Idle
    BY DEF SerialInv, OneAtATime, Done, Become, TypeOK
  <1>2. TasksKnow'
    <2> SUFFICES ASSUME NEW t \in {task'[q] : q \in Procs}
                 PROVE  Knows(t)'
      BY DEF TasksKnow
    <2>1. t = Idle
      BY <1>1
    <2> QED
      BY <2>1 DEF Knows, Idle
  <1> QED
    BY <1>1, <1>2 DEF SerialInv, OneAtATime

\* A commit that leaves the rows alone, and a process that gives up.
LEMMA QuietCommit ==
    ASSUME IInv, TypeOK', SerialInv, NEW p \in Procs, task[p] # Idle, Done(p), SameData
    PROVE  SerialInv'
  BY RowsLater, CommitStep DEF IInv, SerialInv

\* A commit that writes one row.
LEMMA OneRowCommit ==
    ASSUME TypeOK, TypeOK', SerialInv, NEW p \in Procs, task[p] # Idle, Done(p), now' = now,
           NEW b \in Bookings, NEW new, bookings' = [bookings EXCEPT ![b] = new],
           NEW n, net' = [net EXCEPT ![b] = n], forfeited' = forfeited,
           LedgerExplainsBalance', RowAddsUp(b)'
    PROVE  SerialInv'
  <1>1. now' >= now
    BY DEF TypeOK, Times
  <1>2. RowsAddUp'
    <2> SUFFICES ASSUME NEW c \in Bookings, c # b
                 PROVE  RowAddsUp(c)'
      BY DEF RowsAddUp
    <2>1. bookings'[c] = bookings[c] /\ net'[c] = net[c] /\ RowAddsUp(c)
      BY DEF TypeOK, SerialInv, RowsAddUp
    <2> QED
      BY <1>1, <2>1, RowLater
  <1> QED
    BY <1>2, CommitStep

(* What the ledger of a payer and of a user adds up to, when one row is written. *)

RowsOf(y) == {b \in Bookings : bookings[b] # NoBooking /\ PayerOf[bookings[b].user] = y}
RowsBy(u) == {b \in Bookings : bookings[b] # NoBooking /\ bookings[b].user = u}

LEMMA BookingsAreFinite ==
    \A S \in SUBSET Bookings : IsFiniteSet(S)
  <1>1. 1 \in Int /\ MaxBookings \in Int
    BY SizesAreNaturals
  <1>2. IsFiniteSet(1..MaxBookings)
    BY <1>1, FS_Interval
  <1> QED
    BY <1>2, FS_Subset DEF Bookings

\* The sum over S, of which f and g differ in b, where g has n.
SumMoves(f, g, S, b, n) ==
    /\ SumFunctionOnSet(f, S) \in Int
    /\ b \in S => SumFunctionOnSet(g, S) = SumFunctionOnSet(f, S) - f[b] + n
    /\ b \notin S => SumFunctionOnSet(g, S) = SumFunctionOnSet(f, S)
    /\ b \notin S => SumFunctionOnSet(g, S \union {b}) = SumFunctionOnSet(f, S) + n

LEMMA SumsOfRows ==
    ASSUME NEW f \in [Bookings -> Int], NEW g \in [Bookings -> Int], NEW S \in SUBSET Bookings,
           NEW b \in Bookings, NEW n \in Int, g[b] = n, \A x \in Bookings \ {b} : g[x] = f[x]
    PROVE  SumMoves(f, g, S, b, n)
  <1>1. IsFiniteSet(S) /\ \A x \in S : f[x] \in Int /\ g[x] \in Int
    BY BookingsAreFinite
  <1>2. \A x \in S \ {b} : g[x] = f[x]
    OBVIOUS
  <1>3. SumFunctionOnSet(f, S) \in Int
    BY <1>1, SumsAreNumbers
  <1>4. ASSUME b \in S
        PROVE  SumFunctionOnSet(g, S) = SumFunctionOnSet(f, S) - f[b] + n
    <2>2. SumFunctionOnSet(g, S) = SumFunctionOnSet(f, S) - f[b] + g[b]
      BY <1>1, <1>2, <1>4, SumWithOneChanged
    <2> QED
      BY <1>3, <2>2
  <1>5. ASSUME b \notin S
        PROVE  SumFunctionOnSet(g, S) = SumFunctionOnSet(f, S)
    <2>1. \A x \in S : f[x] = g[x]
      BY <1>2, <1>5
    <2>2. SumFunctionOnSet(f, S) = SumFunctionOnSet(g, S)
      BY <1>1, <2>1, SumOfTheSame
    <2> QED
      BY <2>2
  <1>6. ASSUME b \notin S
        PROVE  SumFunctionOnSet(g, S \union {b}) = SumFunctionOnSet(f, S) + n
    <2>0. PICK T : T = S \union {b}
      OBVIOUS
    <2>1. T \in SUBSET Bookings /\ IsFiniteSet(T) /\ b \in T /\ T \ {b} = S
      BY <1>6, <2>0, BookingsAreFinite
    <2>2. \A x \in T : g[x] \in Int
      BY <2>0
    <2>3. SumFunctionOnSet(g, T) = g[b] + SumFunctionOnSet(g, T \ {b})
      BY <2>1, <2>2, SumWithout
    <2>4. SumFunctionOnSet(g, T) = n + SumFunctionOnSet(f, S)
      BY <1>5, <1>6, <2>1, <2>3
    <2> QED
      BY <1>3, <2>0, <2>4
  <1> QED
    BY <1>3, <1>4, <1>5, <1>6 DEF SumMoves

LEMMA SpentOfRows ==
    ASSUME NEW y, NEW u, NEW f
    PROVE  Spent(y) = SumFunctionOnSet(net, RowsOf(y)) /\ UsedBy(u, f) = -SumFunctionOnSet(f, RowsBy(u))
  BY DEF Spent, UsedBy, RowsOf, RowsBy

LEMMA SpentIsInt ==
    ASSUME TypeOK, NEW y, NEW u
    PROVE  Spent(y) \in Int /\ UsedBy(u, net) \in Int
  <1>1. RowsOf(y) \in SUBSET Bookings /\ RowsBy(u) \in SUBSET Bookings
    BY DEF RowsOf, RowsBy
  <1>2. net \in [Bookings -> Int]
    BY DEF TypeOK
  <1>3. \A S \in SUBSET Bookings : SumFunctionOnSet(net, S) \in Int
    BY <1>2, BookingsAreFinite, SumsAreNumbers
  <1> QED
    BY <1>1, <1>3, SpentOfRows

LEMMA ExistingRows ==
    ASSUME NEW r \in Booking
    PROVE  r # NoBooking /\ r.user \in Users /\ r.used \in Nat
  BY DEF Booking, NoBooking, LiveStatuses, TerminalStatuses

\* One entry is written.
LEMMA EntriesAddUp ==
    ASSUME net \in [Bookings -> Int], NEW b \in Bookings, NEW n \in Int,
           net' = [net EXCEPT ![b] = n]
    PROVE  \A S \in SUBSET Bookings : SumMoves(net, net', S, b, n)
  <1>1. PICK f, g : f = net /\ g = net'
    OBVIOUS
  <1>2. f \in [Bookings -> Int] /\ g \in [Bookings -> Int] /\ g[b] = n
        /\ \A c \in Bookings \ {b} : g[c] = f[c]
    BY <1>1
  <1>3. \A S \in SUBSET Bookings : SumMoves(f, g, S, b, n)
    BY <1>2, SumsOfRows
  <1> QED
    BY <1>1, <1>3

\* A row is written over another of the same user.
LEMMA RowKept ==
    ASSUME TypeOK, NEW b \in Bookings, bookings[b] # NoBooking,
           NEW new \in Booking, new.user = bookings[b].user, bookings' = [bookings EXCEPT ![b] = new],
           NEW n \in Int, net' = [net EXCEPT ![b] = n]
    PROVE  /\ \A y : Spent(y)' = IF y = Payer(b) THEN Spent(y) - net[b] + n ELSE Spent(y)
           /\ \A u : UsedBy(u, net)' = IF u = bookings[b].user THEN UsedBy(u, net) + net[b] - n
                                                             ELSE UsedBy(u, net)
  <1>1. net \in [Bookings -> Int] /\ bookings \in [Bookings -> Booking \union {NoBooking}]
    BY DEF TypeOK
  <1>0. \A S \in SUBSET Bookings : SumMoves(net, net', S, b, n)
    BY <1>1, EntriesAddUp
  <1>2. \A c \in Bookings : /\ bookings'[c] # NoBooking <=> bookings[c] # NoBooking
                            /\ bookings[c] # NoBooking => bookings'[c].user = bookings[c].user
    BY <1>1, ExistingRows
  <1>3. \A y : RowsOf(y)' = RowsOf(y)
    BY <1>2 DEF RowsOf
  <1>4. \A u : RowsBy(u)' = RowsBy(u)
    BY <1>2 DEF RowsBy
  <1>5. ASSUME NEW y
        PROVE  Spent(y)' = IF y = Payer(b) THEN Spent(y) - net[b] + n ELSE Spent(y)
    <2>1. RowsOf(y) \in SUBSET Bookings /\ (b \in RowsOf(y) <=> y = Payer(b))
      BY DEF RowsOf, Payer
    <2>2. Spent(y) = SumFunctionOnSet(net, RowsOf(y)) /\ Spent(y)' = SumFunctionOnSet(net', RowsOf(y))
      BY <1>3 DEF Spent, RowsOf
    <2> QED
      BY <1>0, <1>1, <2>1, <2>2 DEF SumMoves
  <1>6. ASSUME NEW u
        PROVE  UsedBy(u, net)' = IF u = bookings[b].user THEN UsedBy(u, net) + net[b] - n
                                                         ELSE UsedBy(u, net)
    <2>1. RowsBy(u) \in SUBSET Bookings /\ (b \in RowsBy(u) <=> u = bookings[b].user)
      BY DEF RowsBy
    <2>2. /\ UsedBy(u, net) = -SumFunctionOnSet(net, RowsBy(u))
          /\ UsedBy(u, net)' = -SumFunctionOnSet(net', RowsBy(u))
      BY <1>4 DEF UsedBy, RowsBy
    <2>3. PICK before, after : /\ before = SumFunctionOnSet(net, RowsBy(u))
                               /\ after = SumFunctionOnSet(net', RowsBy(u))
      OBVIOUS
    <2>4. before \in Int /\ after = IF b \in RowsBy(u) THEN before - net[b] + n ELSE before
      BY <1>0, <1>1, <2>1, <2>3 DEF SumMoves
    <2>5. net[b] \in Int
      BY <1>1
    <2> QED
      BY <2>1, <2>2, <2>3, <2>4, <2>5
  <1> QED
    BY <1>5, <1>6

\* A row is inserted.
LEMMA RowAdded ==
    ASSUME TypeOK, NEW b \in Bookings, bookings[b] = NoBooking,
           NEW new \in Booking, bookings' = [bookings EXCEPT ![b] = new],
           NEW n \in Int, net' = [net EXCEPT ![b] = n]
    PROVE  /\ \A y : Spent(y)' = IF y = PayerOf[new.user] THEN Spent(y) + n ELSE Spent(y)
           /\ \A u : UsedBy(u, net)' = IF u = new.user THEN UsedBy(u, net) - n ELSE UsedBy(u, net)
  <1>1. net \in [Bookings -> Int] /\ bookings \in [Bookings -> Booking \union {NoBooking}]
    BY DEF TypeOK
  <1>0. \A S \in SUBSET Bookings : SumMoves(net, net', S, b, n)
    BY <1>1, EntriesAddUp
  <1>2. /\ bookings'[b] = new /\ new # NoBooking
        /\ \A c \in Bookings : c # b => bookings'[c] = bookings[c]
    BY <1>1, ExistingRows
  <1>3. \A y : RowsOf(y)' = IF y = PayerOf[new.user] THEN RowsOf(y) \union {b} ELSE RowsOf(y)
    BY <1>2 DEF RowsOf
  <1>4. \A u : RowsBy(u)' = IF u = new.user THEN RowsBy(u) \union {b} ELSE RowsBy(u)
    BY <1>2 DEF RowsBy
  <1>5. ASSUME NEW y
        PROVE  Spent(y)' = IF y = PayerOf[new.user] THEN Spent(y) + n ELSE Spent(y)
    <2>1. RowsOf(y) \in SUBSET Bookings /\ b \notin RowsOf(y)
      BY DEF RowsOf
    <2>2. Spent(y) = SumFunctionOnSet(net, RowsOf(y)) /\ Spent(y)' = SumFunctionOnSet(net', RowsOf(y)')
      BY DEF Spent, RowsOf
    <2> QED
      BY <1>0, <1>1, <1>3, <2>1, <2>2 DEF SumMoves
  <1>6. ASSUME NEW u
        PROVE  UsedBy(u, net)' = IF u = new.user THEN UsedBy(u, net) - n ELSE UsedBy(u, net)
    <2>1. RowsBy(u) \in SUBSET Bookings /\ b \notin RowsBy(u)
      BY DEF RowsBy
    <2>2. /\ UsedBy(u, net) = -SumFunctionOnSet(net, RowsBy(u))
          /\ UsedBy(u, net)' = -SumFunctionOnSet(net', RowsBy(u)')
      BY DEF UsedBy, RowsBy
    <2>3. PICK before, after : /\ before = SumFunctionOnSet(net, RowsBy(u))
                               /\ after = SumFunctionOnSet(net', RowsBy(u)')
      OBVIOUS
    <2>4. before \in Int /\ after = IF u = new.user THEN before + n ELSE before
      BY <1>0, <1>1, <1>4, <2>1, <2>3 DEF SumMoves
    <2> QED
      BY <2>2, <2>3, <2>4
  <1> QED
    BY <1>5, <1>6

\* No entry is written, and the rows keep their users.
LEMMA NothingSpent ==
    ASSUME net' = net,
           \A c \in Bookings : /\ bookings'[c] # NoBooking <=> bookings[c] # NoBooking
                               /\ bookings[c] # NoBooking => bookings'[c].user = bookings[c].user
    PROVE  \A y : Spent(y)' = Spent(y)
  <1>1. \A y : RowsOf(y)' = RowsOf(y)
    BY DEF RowsOf
  <1> QED
    BY <1>1 DEF Spent, RowsOf

\* A balance moves with the entry of a booking.
LEMMA LedgerOfOneRow ==
    ASSUME TypeOK, LedgerExplainsBalance, NEW b \in Bookings, bookings[b] # NoBooking,
           NEW new \in Booking, new.user = bookings[b].user, bookings' = [bookings EXCEPT ![b] = new],
           NEW n \in Int, net' = [net EXCEPT ![b] = n], expired' = expired,
           remaining' = [remaining EXCEPT ![Payer(b)] = @ + n - net[b]]
    PROVE  LedgerExplainsBalance'
  <1> SUFFICES ASSUME NEW y \in Payers
               PROVE  (remaining[y] = Granted[y] + Spent(y) - expired[y])'
    BY DEF LedgerExplainsBalance
  <1>0. remaining[y] = Granted[y] + Spent(y) - expired[y]
    BY DEF LedgerExplainsBalance
  <1>1. remaining[y] \in Int /\ expired[y] \in Int /\ Granted[y] \in Int /\ net[b] \in Int
    <2>1. remaining[y] \in Nat /\ expired[y] \in Nat /\ Granted[y] \in Nat /\ net[b] \in Int
      BY LotsAreCounted DEF TypeOK
    <2> QED
      BY <2>1
  <1>2. Spent(y) \in Int
    BY SpentIsInt
  <1>3. Spent(y)' = IF y = Payer(b) THEN Spent(y) - net[b] + n ELSE Spent(y)
    BY RowKept
  <1>4. remaining'[y] = IF y = Payer(b) THEN remaining[y] + n - net[b] ELSE remaining[y]
    BY DEF TypeOK
  <1> QED
    BY <1>0, <1>1, <1>2, <1>3, <1>4
-----------------------------------------------------------------------------
(* What each handler knows when it goes on. *)

LEMMA SerialFacts ==
    ASSUME IInv, SerialInv, NEW p \in Procs
    PROVE  /\ TypeOK /\ TasksNameRows /\ EditsLockTheirRoom /\ ChecksSawTheirWindow
           /\ task[p] \in Task /\ Knows(task[p])
           /\ \A b \in Bookings : RowAddsUp(b)
  BY DEF IInv, TypeOK, SerialInv, TasksKnow, RowsAddUp

LEMMA NeededType ==
    ASSUME NEW s, s.room \in Rooms, s.from \in Times, s.to \in Times, s.from < s.to
    PROVE  Needed(s) \in Nat
  <1>1. s.to - s.from \in Nat /\ CreditsPerSlot[s.room] \in Nat
    BY SizesAreNaturals, LotsAreCounted DEF Times
  <1> QED
    BY <1>1 DEF Needed

LEMMA CreateSerial ==
    ASSUME IInv, TypeOK', SerialInv, OneAtATime', NEW p \in Procs,
           \/ \E actor, who \in Users, waive \in BOOLEAN, s \in Windows :
                 CreateLock(p, actor, who, waive, s)
           \/ CreatePrepare(p)
    PROVE  SerialInv'
  <1>1. ASSUME NEW actor \in Users, NEW who \in Users, NEW waive \in BOOLEAN, NEW s \in Windows,
               CreateLock(p, actor, who, waive, s)
        PROVE  SerialInv'
    <2>1. PICK new : new = [at |-> "create_locked", actor |-> actor, who |-> who, waive |-> waive,
                            room |-> s.room, from |-> s.from, to |-> s.to]
      OBVIOUS
    <2>2. Become(p, new) /\ UNCHANGED <<now, bookings, blocks, remaining, ledger>>
      BY <1>1, <2>1 DEF CreateLock
    <2>3. Knows(new)
      BY <1>1, <2>1 DEF Knows, CreateLock
    <2> QED
      BY <2>2, <2>3, LoadStep
  <1>2. ASSUME CreatePrepare(p)
        PROVE  SerialInv'
    <2>1. PICK t : t = task[p]
      OBVIOUS
    <2>2. PICK available : available = Balance(remaining[PayerOf[t.who]], PayerOf[t.who])
      OBVIOUS
    <2>3. PICK used : used = IF t.waive THEN 0 ELSE QuoteUsed(t, available)
      OBVIOUS
    <2>4. PICK cash : cash = IF t.waive THEN 0 ELSE QuoteCash(t, available)
      OBVIOUS
    <2>5. PICK new : new = [at |-> "create_priced", actor |-> t.actor, who |-> t.who,
                            room |-> t.room, from |-> t.from, to |-> t.to,
                            used |-> used, cash |-> cash]
      OBVIOUS
    <2>6. /\ t.at = "create_locked" /\ WindowIsValid(t.from, t.to)
          /\ t.waive \/ t.actor \in Admins \/ CompanyAllows(t.who, used, net)
          /\ Become(p, new) /\ UNCHANGED <<now, bookings, blocks, remaining, ledger>>
      BY <1>2, <2>1, <2>2, <2>3, <2>4, <2>5 DEF CreatePrepare
    <2>7. t \in CreateTask /\ (t.waive => t.actor \in Admins)
      BY <2>1, <2>6, SerialFacts, TaskShape DEF Knows
    <2>8. /\ t.room \in Rooms /\ t.from \in Times /\ t.to \in Times /\ t.from < t.to
          /\ t.who \in Users /\ t.waive \in BOOLEAN
      BY <2>6, <2>7 DEF CreateTask, WindowIsValid
    <2>9. available \in Nat
      <3>1. PayerOf[t.who] \in Payers /\ remaining[PayerOf[t.who]] \in Nat
        BY <2>8, UsersHavePayers DEF IInv, TypeOK
      <3>2. PICK left \in Nat : left = remaining[PayerOf[t.who]]
        BY <3>1
      <3>3. Balance(left, PayerOf[t.who]) \in 0..left
        BY <3>1, AvailableType
      <3> QED
        BY <2>2, <3>2, <3>3
    <2>10. Needed(t) \in Nat
      BY <2>8, NeededType
    <2>11. t.waive \/ used + cash = Needed(t)
      BY <2>3, <2>4, <2>9, <2>10 DEF QuoteUsed, QuoteCash
    <2>12. Priced(new)
      <3>1. Needed(new) = Needed(t)
        BY <2>5 DEF Needed
      <3> QED
        BY <2>3, <2>4, <2>5, <2>8, <2>11, <3>1 DEF Priced, IsFree
    <2>13. Knows(new)
      BY <2>5, <2>6, <2>7, <2>12 DEF Knows
    <2> QED
      BY <2>6, <2>13, LoadStep
  <1> QED
    BY <1>1, <1>2

LEMMA RefundKnown ==
    ASSUME TypeOK, NEW b \in Bookings, RowAddsUp(b), Live(b)
    PROVE  /\ Refunds(b, RefundOf(b))
           /\ bookings[b].used = 0 => Refunds(b, 0)
  <1>1. net[b] \in Int /\ net[b] <= 0 /\ Charged(b)
    BY DEF TypeOK, RowAddsUp
  <1> QED
    BY <1>1 DEF Refunds, RefundOf, Charged, Payer

LEMMA CancelSerial ==
    ASSUME IInv, TypeOK', SerialInv, OneAtATime', NEW p \in Procs,
           \/ \E actor \in Users, b \in Bookings : CancelLoad(p, actor, b)
           \/ CancelRefund(p)
    PROVE  SerialInv'
  <1>1. ASSUME NEW actor \in Users, NEW b \in Bookings, CancelLoad(p, actor, b)
        PROVE  SerialInv'
    <2>1. PICK new : new = [at |-> "cancel_loaded", bk |-> b, used |-> bookings[b].used]
      OBVIOUS
    <2>2. Become(p, new) /\ UNCHANGED <<now, bookings, blocks, remaining, ledger>>
      BY <1>1, <2>1 DEF CancelLoad
    <2>3. Knows(new)
      BY <1>1, <2>1 DEF Knows, CancelLoad
    <2> QED
      BY <2>2, <2>3, LoadStep
  <1>2. ASSUME CancelRefund(p)
        PROVE  SerialInv'
    <2>1. PICK t : t = task[p]
      OBVIOUS
    <2>2. PICK back : back = IF t.used = 0 THEN 0 ELSE RefundOf(t.bk)
      OBVIOUS
    <2>3. PICK new : new = [at |-> "cancel_refunding", bk |-> t.bk, back |-> back,
                            left |-> remaining[Payer(t.bk)] + back]
      OBVIOUS
    <2>4. /\ t.at = "cancel_loaded" /\ Become(p, new)
          /\ UNCHANGED <<now, bookings, blocks, remaining, ledger>>
      BY <1>2, <2>1, <2>2, <2>3 DEF CancelRefund, Payer
    <2>5. t.bk \in Bookings /\ Live(t.bk) /\ t.used = bookings[t.bk].used
      BY <2>1, <2>4, SerialFacts, TaskShape DEF Knows, CancelTask
    <2>6. Refunds(t.bk, back)
      BY <2>2, <2>5, SerialFacts, RefundKnown
    <2>7. Knows(new)
      BY <2>3, <2>5, <2>6 DEF Knows
    <2> QED
      BY <2>4, <2>7, LoadStep
  <1> QED
    BY <1>1, <1>2

LEMMA UpdateSerial ==
    ASSUME IInv, TypeOK', SerialInv, OneAtATime', NEW p \in Procs,
           \/ \E actor \in Users, b \in Bookings, s \in Windows : UpdateLoad(p, actor, b, s)
           \/ UpdateLock(p)
           \/ UpdateCheck(p)
    PROVE  SerialInv'
  <1>1. ASSUME NEW actor \in Users, NEW b \in Bookings, NEW s \in Windows,
               UpdateLoad(p, actor, b, s)
        PROVE  SerialInv'
    <2>1. PICK new : new = [at |-> "update_loaded", actor |-> actor, bk |-> b,
                            room |-> bookings[b].room, from |-> s.from, to |-> s.to,
                            was |-> bookings[b]]
      OBVIOUS
    <2>2. /\ Become(p, new) /\ UNCHANGED <<now, bookings, blocks, remaining, ledger>>
          /\ bookings[b].status = "confirmed"
      BY <1>1, <2>1 DEF UpdateLoad
    <2>3. Knows(new)
      BY <2>1, <2>2 DEF Knows
    <2> QED
      BY <2>2, <2>3, LoadStep
  <1>2. ASSUME UpdateLock(p)
        PROVE  SerialInv'
    <2>1. PICK t : t = task[p]
      OBVIOUS
    <2>2. PICK new : new = [t EXCEPT !.at = "update_locked"]
      OBVIOUS
    <2>3. /\ t.at = "update_loaded" /\ Become(p, new)
          /\ UNCHANGED <<now, bookings, blocks, remaining, ledger>>
      BY <1>2, <2>1, <2>2 DEF UpdateLock
    <2>4. t \in UpdateTask /\ bookings[t.bk].status = "confirmed" /\ t.was = bookings[t.bk]
      BY <2>1, <2>3, SerialFacts, TaskShape DEF Knows
    <2>5. new.at = "update_locked" /\ new.bk = t.bk /\ new.was = t.was
      BY <2>2, <2>4 DEF UpdateTask
    <2>6. Knows(new)
      BY <2>4, <2>5 DEF Knows
    <2> QED
      BY <2>3, <2>6, LoadStep
  <1>3. ASSUME UpdateCheck(p)
        PROVE  SerialInv'
    <2>1. PICK t : t = task[p]
      OBVIOUS
    <2>2. PICK back : back = IF IsFree(t.was) THEN 0 ELSE RefundOf(t.bk)
      OBVIOUS
    <2>3. PICK new : new = [at |-> "update_checked", actor |-> t.actor, bk |-> t.bk,
                            room |-> t.room, from |-> t.from, to |-> t.to, was |-> t.was,
                            back |-> back, left |-> remaining[Payer(t.bk)] + back]
      OBVIOUS
    <2>4. /\ t.at = "update_locked" /\ Become(p, new)
          /\ UNCHANGED <<now, bookings, blocks, remaining, ledger>>
      BY <1>3, <2>1, <2>2, <2>3 DEF UpdateCheck, Payer
    <2>5. t.bk \in Bookings /\ bookings[t.bk].status = "confirmed" /\ t.was = bookings[t.bk]
      BY <2>1, <2>4, SerialFacts, TaskShape DEF Knows, UpdateTask
    <2>6. Live(t.bk)
      BY <2>5 DEF Live, LiveStatuses
    <2>7. Refunds(t.bk, back)
      BY <2>2, <2>5, <2>6, SerialFacts, RefundKnown DEF IsFree
    <2>8. Knows(new)
      BY <2>3, <2>5, <2>7 DEF Knows
    <2> QED
      BY <2>4, <2>8, LoadStep
  <1> QED
    BY <1>1, <1>2, <1>3

LEMMA CheckInSerial ==
    ASSUME IInv, TypeOK', SerialInv, OneAtATime', NEW p \in Procs,
           NEW actor \in Users, NEW b \in Bookings, CheckInLoad(p, actor, b)
    PROVE  SerialInv'
  <1>1. PICK new : new = [at |-> "checkin_loaded", bk |-> b]
    OBVIOUS
  <1>2. /\ Become(p, new) /\ UNCHANGED <<now, bookings, blocks, remaining, ledger>>
        /\ bookings[b].status = "confirmed"
    BY <1>1 DEF CheckInLoad
  <1>3. Knows(new)
    BY <1>1, <1>2 DEF Knows
  <1> QED
    BY <1>2, <1>3, LoadStep

LEMMA BlockSerial ==
    ASSUME IInv, TypeOK', SerialInv, OneAtATime', NEW p \in Procs,
           NEW s \in Windows, BlockCheck(p, s)
    PROVE  SerialInv'
  <1>1. PICK new : new = [at |-> "block_checked", room |-> s.room, from |-> s.from, to |-> s.to]
    OBVIOUS
  <1>2. Become(p, new) /\ UNCHANGED <<now, bookings, blocks, remaining, ledger>>
    BY <1>1 DEF BlockCheck
  <1>3. Knows(new)
    BY <1>1 DEF Knows
  <1> QED
    BY <1>2, <1>3, LoadStep

LEMMA JobSerial ==
    ASSUME IInv, TypeOK', SerialInv, OneAtATime', NEW p \in Procs,
           ReleaseLoad(p) \/ ExpireLoad(p)
    PROVE  SerialInv'
  <1>1. ASSUME ReleaseLoad(p)
        PROVE  SerialInv'
    <2>1. PICK new : new = [at |-> "release_loaded",
                            noShows |-> {b \in Bookings : NoShowDue(b)},
                            finished |-> {b \in Bookings : FinishedDue(b)},
                            charged |-> {b \in Bookings : NoShowDue(b) /\ bookings[b].used > 0}]
      OBVIOUS
    <2>2. Become(p, new) /\ UNCHANGED <<now, bookings, blocks, remaining, ledger>>
      BY <1>1, <2>1 DEF ReleaseLoad
    <2>3. Knows(new)
      BY <2>1 DEF Knows, NoShowDue, FinishedDue
    <2> QED
      BY <2>2, <2>3, LoadStep
  <1>2. ASSUME ExpireLoad(p)
        PROVE  SerialInv'
    <2>1. PICK new : new = [at |-> "expire_loaded",
                            left |-> [y \in Payers |-> IF Expirable(y) THEN remaining[y] ELSE 0]]
      OBVIOUS
    <2>2. Become(p, new) /\ UNCHANGED <<now, bookings, blocks, remaining, ledger>>
      BY <1>2, <2>1 DEF ExpireLoad
    <2>3. Knows(new)
      BY <2>1 DEF Knows
    <2> QED
      BY <2>2, <2>3, LoadStep
  <1> QED
    BY <1>1, <1>2
-----------------------------------------------------------------------------
(* Commits. *)

\* What CreateCommit does to a row and to the ledger.
CreateWrites(p, b, t, new) ==
    /\ t = task[p] /\ t.at = "create_priced" /\ Knows(t)
    /\ bookings[b] = NoBooking /\ bookings' = [bookings EXCEPT ![b] = new]
    /\ net' = [net EXCEPT ![b] = -t.used]
    /\ remaining' = [remaining EXCEPT ![PayerOf[t.who]] = @ - t.used]
    /\ UNCHANGED <<now, blocks, expired, forfeited>>
    /\ new.status = "confirmed" /\ new.room = t.room /\ new.user = t.who
    /\ new.from = t.from /\ new.to = t.to /\ new.used = t.used /\ new.cash = t.cash

LEMMA CreateCommitWrites ==
    ASSUME IInv, SerialInv, NEW p \in Procs, CreateCommit(p)
    PROVE  \E b \in Bookings, t \in PricedTask, new \in Booking : CreateWrites(p, b, t, new)
  <1>1. PICK t : t = task[p]
    OBVIOUS
  <1>2. t.at = "create_priced" /\ t \in PricedTask /\ Knows(t)
    BY <1>1, SerialFacts, TaskShape DEF CreateCommit
  <1>3. PICK new : new = [status |-> "confirmed", room |-> t.room, user |-> t.who,
                          from |-> t.from, to |-> t.to, used |-> t.used, cash |-> t.cash]
    OBVIOUS
  <1>4. new \in Booking
    BY <1>2, <1>3 DEF PricedTask, Booking, LiveStatuses
  <1>5. /\ remaining' = [remaining EXCEPT ![PayerOf[t.who]] = @ - t.used]
        /\ UNCHANGED <<now, blocks, expired, forfeited>>
        /\ \E b \in Bookings : /\ NextId(b) /\ bookings' = [bookings EXCEPT ![b] = new]
                               /\ net' = [net EXCEPT ![b] = -t.used]
    BY <1>1, <1>3 DEF CreateCommit
  <1>6. PICK b \in Bookings : /\ bookings[b] = NoBooking /\ bookings' = [bookings EXCEPT ![b] = new]
                              /\ net' = [net EXCEPT ![b] = -t.used]
    BY <1>5 DEF NextId
  <1> QED
    BY <1>1, <1>2, <1>3, <1>4, <1>5, <1>6 DEF CreateWrites

LEMMA CreateCommitSerial ==
    ASSUME IInv, TypeOK', SerialInv, NEW p \in Procs, CreateCommit(p)
    PROVE  SerialInv'
  <1>0. TypeOK /\ task[p] # Idle /\ Done(p)
    BY DEF IInv, CreateCommit, Idle
  <1>1. PICK b \in Bookings, t \in PricedTask, new \in Booking : CreateWrites(p, b, t, new)
    BY CreateCommitWrites
  <1> USE DEF CreateWrites
  <1>2. t.used \in Nat /\ t.cash \in Nat /\ Priced(t)
    BY <1>1 DEF PricedTask, Knows
  <1>3. bookings'[b] = new /\ net'[b] = -t.used
    BY <1>0, <1>1 DEF TypeOK
  <1>4. Priced(new)
    <2>1. Needed(new) = Needed(t)
      BY <1>1 DEF Needed
    <2> QED
      BY <1>1, <1>2, <2>1 DEF Priced, IsFree
  <1>5. RowAddsUp(b)'
    <2>1. b \notin forfeited
      <3>1. RowAddsUp(b)
        BY SerialFacts
      <3> QED
        BY <1>1, <3>1 DEF RowAddsUp, NoBooking
    <2>2. Priced(bookings[b])'
      BY <1>3, <1>4 DEF Priced, IsFree, Needed
    <2>3. Charged(b)'
      BY <1>1, <1>3 DEF Charged
    <2>4. (net[b] <= 0)' /\ (bookings[b].status # "cancelled")' /\ (b \notin forfeited)'
      BY <1>1, <1>2, <1>3, <2>1
    <2> QED
      BY <2>2, <2>3, <2>4 DEF RowAddsUp
  <1>6. LedgerExplainsBalance'
    <2> SUFFICES ASSUME NEW y \in Payers
                 PROVE  (remaining[y] = Granted[y] + Spent(y) - expired[y])'
      BY DEF LedgerExplainsBalance
    <2>1. remaining[y] = Granted[y] + Spent(y) - expired[y]
      BY DEF SerialInv, LedgerExplainsBalance
    <2>2. remaining[y] \in Nat /\ expired[y] \in Nat /\ Granted[y] \in Nat /\ Spent(y) \in Int
      BY <1>0, LotsAreCounted, SpentIsInt DEF TypeOK
    <2>3. PICK n \in Int : n = -t.used
      BY <1>2
    <2>4. Spent(y)' = IF y = PayerOf[t.who] THEN Spent(y) + n ELSE Spent(y)
      BY <1>0, <1>1, <2>3, RowAdded
    <2>5. remaining'[y] = IF y = PayerOf[t.who] THEN remaining[y] - t.used ELSE remaining[y]
      BY <1>0, <1>1 DEF TypeOK
    <2> QED
      BY <1>1, <1>2, <2>1, <2>2, <2>3, <2>4, <2>5
  <1> QED
    BY <1>0, <1>1, <1>5, <1>6, OneRowCommit

LEMMA CancelCommitSerial ==
    ASSUME IInv, TypeOK', SerialInv, NEW p \in Procs, CancelCommit(p)
    PROVE  SerialInv'
  <1>0. TypeOK /\ task[p] # Idle /\ Done(p) /\ LedgerExplainsBalance
    BY DEF IInv, CancelCommit, Idle, SerialInv
  <1>1. PICK t : t = task[p]
    OBVIOUS
  <1>2. PICK b : b = t.bk
    OBVIOUS
  <1>3. t.at = "cancel_refunding" /\ t \in RefundTask /\ Knows(t) /\ b \in Bookings
    BY <1>1, <1>2, SerialFacts, TaskShape DEF CancelCommit, RefundTask
  <1>4. Live(b) /\ Refunds(b, t.back) /\ t.left = remaining[Payer(b)] + t.back /\ t.back \in Nat
    BY <1>2, <1>3 DEF Knows, RefundTask
  <1>5. bookings[b] # NoBooking /\ bookings[b] \in Booking /\ RowAddsUp(b) /\ net[b] \in Int
    BY <1>0, <1>3, <1>4, SerialFacts DEF Live, LiveStatuses, NoBooking, TypeOK
  <1>6. PICK new : new = [bookings[b] EXCEPT !.status = "cancelled"]
    OBVIOUS
  <1>7. new \in Booking /\ new.status = "cancelled" /\ new.user = bookings[b].user
    BY <1>5, <1>6 DEF Booking, TerminalStatuses
  <1>8. PICK n \in Int : n = net[b] + t.back
    BY <1>4, <1>5
  <1>9. /\ bookings' = [bookings EXCEPT ![b] = new] /\ net' = [net EXCEPT ![b] = n]
        /\ remaining' = [remaining EXCEPT ![Payer(b)] = IF t.back > 0 THEN t.left ELSE @]
        /\ UNCHANGED <<now, blocks, expired, forfeited>>
    BY <1>1, <1>2, <1>6, <1>8 DEF CancelCommit, Payer
  <1>10. remaining' = [remaining EXCEPT ![Payer(b)] = @ + n - net[b]]
    <2>1. Payer(b) \in Payers /\ remaining[Payer(b)] \in Nat
      BY <1>0, <1>3, <1>5, PayerType DEF Payer, TypeOK
    <2>2. (IF t.back > 0 THEN t.left ELSE remaining[Payer(b)]) = remaining[Payer(b)] + n - net[b]
      BY <1>4, <1>5, <1>8, <2>1
    <2> QED
      BY <1>9, <2>2
  <1>11. LedgerExplainsBalance'
    BY <1>0, <1>3, <1>5, <1>7, <1>9, <1>10, LedgerOfOneRow
  <1>12. RowAddsUp(b)'
    <2>1. bookings'[b] = new /\ net'[b] = n
      BY <1>0, <1>3, <1>9 DEF TypeOK
    <2>2. b \notin forfeited
      BY <1>4, <1>5 DEF RowAddsUp, Live, LiveStatuses
    <2>3. net[b] <= 0
      BY <1>5 DEF RowAddsUp
    <2>4. n = 0 \/ (n = net[b] /\ ~LotIsValid(Payer(b)))
      BY <1>4, <1>5, <1>8 DEF Refunds
    <2>5. Payer(b)' = Payer(b) /\ (LotIsValid(Payer(b))' <=> LotIsValid(Payer(b)))
      BY <1>7, <1>9, <2>1 DEF Payer, LotIsValid
    <2> QED
      BY <1>7, <1>8, <1>9, <2>1, <2>2, <2>3, <2>4, <2>5 DEF RowAddsUp, Live, LiveStatuses
  <1> QED
    BY <1>0, <1>3, <1>9, <1>11, <1>12, OneRowCommit

\* When nobody wrote the row meanwhile, an edit writes what it computed.
LEMMA RewrittenFresh ==
    ASSUME NEW t, NEW row \in Booking, t.was = row, NEW used, NEW cash
    PROVE  LET new == Rewritten(t, row, used, cash)
           IN /\ new.from = t.from /\ new.to = t.to /\ new.used = used /\ new.cash = cash
              /\ new.status = row.status /\ new.room = row.room /\ new.user = row.user
  BY DEF Rewritten, Written, Booking

\* What UpdateCommit does to a row and to the ledger: the old credits come back, n is what
\* the booking then holds.
UpdateWrites(p, b, t, used, new, n) ==
    /\ t = task[p] /\ t.at = "update_checked" /\ Knows(t)
    /\ b = t.bk /\ bookings[b] # NoBooking /\ bookings' = [bookings EXCEPT ![b] = new]
    /\ n = net[b] + t.back - used /\ net' = [net EXCEPT ![b] = n]
    /\ remaining' = [remaining EXCEPT ![Payer(b)] = @ + n - net[b]]
    /\ UNCHANGED <<now, blocks, expired, forfeited>>
    /\ new.status = "confirmed" /\ new.user = bookings[b].user /\ new.used = used /\ Priced(new)
    /\ ~LotIsValid(Payer(b)) => used = 0
    /\ \/ used = 0
       \/ t.actor \in Admins
       \/ CompanyAllows(bookings[b].user, used, [net EXCEPT ![b] = net[b] + t.back])

LEMMA UpdateCommitWrites ==
    ASSUME IInv, SerialInv, NEW p \in Procs, UpdateCommit(p)
    PROVE  \E b \in Bookings, t \in RepriceTask, used \in Nat, new \in Booking, n \in Int :
             UpdateWrites(p, b, t, used, new, n)
  <1>0. TypeOK /\ ChecksSawTheirWindow /\ EditsLockTheirRoom
    BY DEF IInv
  <1>1. PICK t : t = task[p]
    OBVIOUS
  <1>2. PICK b : b = t.bk
    OBVIOUS
  <1>3. PICK row : row = bookings[b]
    OBVIOUS
  <1>4. t.at = "update_checked" /\ t \in RepriceTask /\ Knows(t) /\ b \in Bookings
    BY <1>1, <1>2, SerialFacts, TaskShape DEF UpdateCommit, RepriceTask
  <1>5. /\ row.status = "confirmed" /\ t.was = row /\ t.back \in Nat /\ Refunds(b, t.back)
        /\ t.left = remaining[Payer(b)] + t.back
    BY <1>2, <1>3, <1>4 DEF Knows, RepriceTask
  <1>6. row # NoBooking /\ row \in Booking /\ net[b] \in Int
    BY <1>0, <1>3, <1>4, <1>5, RowType DEF NoBooking, TypeOK
  <1>7. PICK y \in Payers : y = Payer(b)
    BY <1>0, <1>3, <1>4, <1>6, PayerType DEF Payer
  <1>8. PICK lot \in Nat : lot = IF t.back > 0 THEN t.left ELSE remaining[y]
    BY <1>0, <1>5, <1>7 DEF TypeOK
  <1>9. lot = remaining[y] + t.back /\ remaining[y] \in Nat
    BY <1>0, <1>5, <1>7, <1>8 DEF TypeOK
  <1>10. PICK available : available = Balance(lot, y)
    OBVIOUS
  <1>11. available \in Nat /\ (~LotIsValid(y) => available = 0)
    BY <1>8, <1>10 DEF Balance
  <1>12. t.room = row.room /\ t.from < t.to /\ t.room \in Rooms /\ t.from \in Times /\ t.to \in Times
    BY <1>0, <1>1, <1>2, <1>3, <1>4 DEF ChecksSawTheirWindow, EditsLockTheirRoom, RepriceTask
  <1>13. Needed(t) \in Nat
    BY <1>12, NeededType
  <1>14. PICK used : used = IF IsFree(t.was) THEN 0 ELSE QuoteUsed(t, available)
    OBVIOUS
  <1>15. PICK cash : cash = IF IsFree(t.was) THEN 0 ELSE QuoteCash(t, available)
    OBVIOUS
  <1>16. /\ used \in Nat /\ cash \in Nat /\ (~LotIsValid(y) => used = 0)
         /\ (used = 0 /\ cash = 0) \/ used + cash = Needed(t)
    BY <1>11, <1>13, <1>14, <1>15 DEF QuoteUsed, QuoteCash
  <1>17. PICK new : new = Rewritten(t, row, used, cash)
    OBVIOUS
  <1>18. new \in Booking
    BY <1>4, <1>6, <1>16, <1>17, RewrittenType
  <1>19. /\ new.from = t.from /\ new.to = t.to /\ new.used = used /\ new.cash = cash
         /\ new.status = row.status /\ new.room = row.room /\ new.user = row.user
    BY <1>5, <1>6, <1>17, RewrittenFresh
  <1>20. Priced(new)
    <2>1. Needed(new) = Needed(t)
      BY <1>12, <1>19 DEF Needed
    <2> QED
      BY <1>12, <1>16, <1>19, <2>1 DEF Priced, IsFree
  <1>21. PICK n \in Int : n = net[b] + t.back - used
    BY <1>5, <1>6, <1>16
  <1>22. PICK refunded : refunded = [net EXCEPT ![b] = net[b] + t.back]
    OBVIOUS
  <1>23. /\ bookings' = [bookings EXCEPT ![b] = new]
         /\ remaining' = [remaining EXCEPT ![y] = lot - used]
         /\ net' = [refunded EXCEPT ![b] = @ - used]
         /\ UNCHANGED <<now, blocks, expired, forfeited>>
         /\ IsFree(t.was) \/ t.actor \in Admins \/ CompanyAllows(row.user, used, refunded)
    BY <1>1, <1>2, <1>3, <1>7, <1>8, <1>10, <1>14, <1>15, <1>17, <1>22 DEF UpdateCommit, Payer
  <1>24. net' = [net EXCEPT ![b] = n]
    <2>1. net \in [Bookings -> Int]
      BY <1>0 DEF TypeOK
    <2>2. refunded[b] - used = n
      BY <1>4, <1>5, <1>6, <1>16, <1>21, <1>22, <2>1
    <2>3. net' = [refunded EXCEPT ![b] = n]
      BY <1>23, <2>2
    <2> QED
      BY <1>22, <2>1, <2>3
  <1>25. remaining' = [remaining EXCEPT ![Payer(b)] = @ + n - net[b]]
    <2>1. lot - used = remaining[y] + n - net[b]
      BY <1>5, <1>6, <1>9, <1>16, <1>21
    <2> QED
      BY <1>7, <1>23, <2>1
  <1>26. used = 0 \/ t.actor \in Admins \/ CompanyAllows(row.user, used, refunded)
    BY <1>14, <1>23
  <1>27. new.status = "confirmed" /\ new.user = row.user /\ new.used = used /\ (~LotIsValid(y) => used = 0)
    BY <1>5, <1>16, <1>19
  <1>28. UpdateWrites(p, b, t, used, new, n)
    BY <1>1, <1>2, <1>3, <1>4, <1>6, <1>7, <1>20, <1>21, <1>22, <1>23, <1>24, <1>25, <1>26, <1>27
       DEF UpdateWrites
  <1> QED
    BY <1>4, <1>16, <1>18, <1>28

LEMMA UpdateCommitSerial ==
    ASSUME IInv, TypeOK', SerialInv, NEW p \in Procs, UpdateCommit(p)
    PROVE  SerialInv'
  <1>0. TypeOK /\ task[p] # Idle /\ Done(p) /\ LedgerExplainsBalance
    <2>1. task[p].at = "update_checked" /\ Done(p)
      BY Zenon DEF UpdateCommit
    <2> QED
      BY <2>1 DEF IInv, Idle, SerialInv
  <1>1. PICK b \in Bookings, t \in RepriceTask, used \in Nat, new \in Booking, n \in Int :
          UpdateWrites(p, b, t, used, new, n)
    BY UpdateCommitWrites
  <1>2. /\ bookings' = [bookings EXCEPT ![b] = new] /\ net' = [net EXCEPT ![b] = n]
        /\ remaining' = [remaining EXCEPT ![Payer(b)] = @ + n - net[b]]
        /\ UNCHANGED <<now, blocks, expired, forfeited>>
        /\ bookings[b] # NoBooking /\ new.user = bookings[b].user
    BY <1>1 DEF UpdateWrites
  <1>3. LedgerExplainsBalance'
    BY <1>0, <1>1, <1>2, LedgerOfOneRow
  <1>4. RowAddsUp(b)'
    <2>1. bookings'[b] = new /\ net'[b] = n
      BY <1>0, <1>2 DEF TypeOK
    <2>2. /\ new.status = "confirmed" /\ new.used = used /\ Priced(new) /\ t.back \in Nat
          /\ n = net[b] + t.back - used /\ (~LotIsValid(Payer(b)) => used = 0)
          /\ Refunds(b, t.back) /\ bookings[b].status = "confirmed"
      BY <1>1 DEF UpdateWrites, Knows, RepriceTask
    <2>3. RowAddsUp(b) /\ net[b] \in Int
      BY <1>0, SerialFacts DEF TypeOK
    <2>4. b \notin forfeited /\ net[b] <= 0
      BY <2>2, <2>3 DEF RowAddsUp
    <2>5. Payer(b)' = Payer(b) /\ (LotIsValid(Payer(b))' <=> LotIsValid(Payer(b)))
      BY <1>2, <2>1 DEF Payer, LotIsValid
    <2>6. n = -used \/ (used = 0 /\ n = net[b] /\ ~LotIsValid(Payer(b)))
      BY <2>2, <2>3 DEF Refunds
    <2>7. Charged(b)'
      BY <2>1, <2>2, <2>5, <2>6 DEF Charged
    <2>8. Priced(bookings[b])'
      BY <2>1, <2>2 DEF Priced, IsFree, Needed
    <2>9. n <= 0
      BY <2>4, <2>6
    <2> QED
      BY <1>2, <2>1, <2>2, <2>4, <2>7, <2>8, <2>9 DEF RowAddsUp
  <1> QED
    BY <1>0, <1>1, <1>2, <1>3, <1>4, OneRowCommit

LEMMA CheckInCommitSerial ==
    ASSUME IInv, TypeOK', SerialInv, NEW p \in Procs, CheckInCommit(p)
    PROVE  SerialInv'
  <1>0. TypeOK /\ task[p] # Idle /\ Done(p) /\ LedgerExplainsBalance
    BY DEF IInv, CheckInCommit, Idle, SerialInv
  <1>1. PICK b : b = task[p].bk
    OBVIOUS
  <1>2. b \in Bookings /\ bookings[b].status = "confirmed"
    BY <1>1, SerialFacts, TaskShape DEF CheckInCommit, CheckInTask, Knows
  <1>3. bookings[b] # NoBooking /\ bookings[b] \in Booking /\ RowAddsUp(b)
    BY <1>0, <1>2, RowType, SerialFacts DEF NoBooking
  <1>4. PICK new : new = [bookings[b] EXCEPT !.status = "checked_in"]
    OBVIOUS
  <1>5. /\ new \in Booking /\ new.status = "checked_in" /\ new.user = bookings[b].user
        /\ new.room = bookings[b].room /\ new.from = bookings[b].from /\ new.to = bookings[b].to
        /\ new.used = bookings[b].used /\ new.cash = bookings[b].cash
    BY <1>3, <1>4 DEF Booking, LiveStatuses
  <1>6. /\ bookings' = [bookings EXCEPT ![b] = new]
        /\ UNCHANGED <<now, remaining, net, expired, forfeited>>
    BY <1>1, <1>4 DEF CheckInCommit, ledger
  <1>7. net' = [net EXCEPT ![b] = net[b]]
    BY <1>0, <1>6 DEF TypeOK
  <1>8. LedgerExplainsBalance'
    <2>1. \A c \in Bookings : /\ bookings'[c] # NoBooking <=> bookings[c] # NoBooking
                              /\ bookings[c] # NoBooking => bookings'[c].user = bookings[c].user
      BY <1>0, <1>3, <1>5, <1>6, ExistingRows DEF TypeOK
    <2>2. \A y : Spent(y)' = Spent(y)
      BY <1>6, <2>1, NothingSpent
    <2> QED
      BY <1>0, <1>6, <2>2 DEF LedgerExplainsBalance
  <1>9. RowAddsUp(b)'
    <2>1. bookings'[b] = new
      BY <1>0, <1>2, <1>6 DEF TypeOK
    <2>2. Live(b)
      BY <1>2 DEF Live, LiveStatuses
    <2>3. Priced(bookings[b])'
      BY <1>3, <1>5, <2>1, <2>2 DEF RowAddsUp, Priced, IsFree, Needed
    <2>4. Charged(b)'
      BY <1>3, <1>5, <1>6, <2>1, <2>2 DEF RowAddsUp, Charged, Payer, LotIsValid
    <2> QED
      BY <1>2, <1>3, <1>5, <1>6, <2>1, <2>3, <2>4 DEF RowAddsUp
  <1> QED
    BY <1>0, <1>2, <1>6, <1>7, <1>8, <1>9, OneRowCommit

LEMMA ReleaseCommitSerial ==
    ASSUME IInv, TypeOK', SerialInv, NEW p \in Procs, ReleaseCommit(p)
    PROVE  SerialInv'
  <1>0. TypeOK /\ task[p] # Idle /\ Done(p) /\ LedgerExplainsBalance
    BY DEF IInv, ReleaseCommit, Idle, SerialInv
  <1>1. PICK t : t = task[p]
    OBVIOUS
  <1>2. t.at = "release_loaded" /\ t \in ReleaseTask /\ Knows(t)
    BY <1>1, SerialFacts, TaskShape DEF ReleaseCommit
  <1>3. /\ \A b \in Bookings : bookings'[b] =
             IF b \in t.noShows THEN [bookings[b] EXCEPT !.status = "no_show"]
             ELSE IF b \in t.finished THEN [bookings[b] EXCEPT !.status = "completed"]
             ELSE bookings[b]
        /\ forfeited' = forfeited \union t.charged
        /\ UNCHANGED <<now, blocks, remaining, net, expired>>
    BY <1>1 DEF ReleaseCommit
  <1>4. /\ \A b \in t.noShows : b \in Bookings /\ bookings[b].status = "confirmed"
        /\ \A b \in t.finished : b \in Bookings /\ bookings[b].status = "checked_in"
        /\ \A b \in t.charged : b \in t.noShows /\ bookings[b].used > 0
    BY <1>2 DEF Knows, ReleaseTask
  <1>5. ASSUME NEW b \in Bookings
        PROVE  /\ bookings'[b] # NoBooking <=> bookings[b] # NoBooking
               /\ bookings[b] # NoBooking => bookings'[b].user = bookings[b].user
               /\ b \in t.noShows => bookings'[b].status = "no_show"
               /\ b \in t.finished /\ b \notin t.noShows => bookings'[b].status = "completed"
    <2>1. CASE b \in t.noShows \union t.finished
      <3>1. bookings[b] # NoBooking /\ bookings[b] \in Booking
        BY <1>0, <1>4, <2>1, RowType DEF NoBooking
      <3>2. bookings'[b].user = bookings[b].user /\ bookings'[b].status \in {"no_show", "completed"}
        BY <1>3, <2>1, <3>1 DEF Booking
      <3> QED
        BY <1>3, <2>1, <3>1, <3>2 DEF NoBooking, Booking
    <2>2. CASE b \notin t.noShows \union t.finished
      BY <1>3, <2>2
    <2> QED
      BY <2>1, <2>2
  <1>6. LedgerExplainsBalance'
    <2>1. \A y : Spent(y)' = Spent(y)
      BY <1>3, <1>5, NothingSpent
    <2> QED
      BY <1>0, <1>3, <2>1 DEF LedgerExplainsBalance
  <1>7. RowsAddUp'
    <2> SUFFICES ASSUME NEW b \in Bookings
                 PROVE  RowAddsUp(b)'
      BY DEF RowsAddUp
    <2>1. RowAddsUp(b) /\ net[b] \in Int
      BY <1>0, SerialFacts DEF TypeOK
    <2>2. CASE b \in t.noShows \union t.finished
      <3>1. Live(b) /\ bookings[b] # NoBooking /\ bookings[b].status # "no_show"
        BY <1>4, <2>2 DEF Live, LiveStatuses, NoBooking
      <3>2. /\ bookings'[b].status \in {"no_show", "completed"}
            /\ b \in t.noShows => bookings'[b].status = "no_show"
        BY <1>5, <2>2
      <3>3. b \in t.charged => net[b] < 0
        <4>1. b \in t.charged => bookings[b].used \in Nat /\ bookings[b].used > 0
          BY <1>0, <1>4, <3>1, RowType, ExistingRows
        <4> QED
          BY <2>1, <3>1, <4>1 DEF RowAddsUp, Charged
      <3> QED
        BY <1>3, <1>4, <2>1, <3>1, <3>2, <3>3 DEF RowAddsUp, Live, LiveStatuses
    <2>3. CASE b \notin t.noShows \union t.finished
      <3>1. bookings'[b] = bookings[b] /\ net'[b] = net[b] /\ now' >= now
        BY <1>0, <1>3, <2>3 DEF TypeOK, Times
      <3>2. b \in forfeited' => b \in forfeited
        BY <1>3, <1>4, <2>3
      <3> QED
        BY <1>0, <2>1, <3>1, <3>2, RowLater
    <2> QED
      BY <2>2, <2>3
  <1> QED
    BY <1>0, <1>6, <1>7, CommitStep

LEMMA ExpireCommitSerial ==
    ASSUME IInv, TypeOK', SerialInv, NEW p \in Procs, ExpireCommit(p)
    PROVE  SerialInv'
  <1>0. TypeOK /\ task[p] # Idle /\ Done(p) /\ LedgerExplainsBalance
    BY DEF IInv, ExpireCommit, Idle, SerialInv
  <1>1. PICK t : t = task[p]
    OBVIOUS
  <1>2. t.at = "expire_loaded" /\ t \in ExpireTask /\ Knows(t)
    BY <1>1, SerialFacts, TaskShape DEF ExpireCommit
  <1>3. /\ remaining' = [y \in Payers |-> IF t.left[y] > 0 THEN 0 ELSE remaining[y]]
        /\ expired' = [y \in Payers |-> expired[y] + t.left[y]]
        /\ UNCHANGED <<now, bookings, blocks, net, forfeited>>
    BY <1>1 DEF ExpireCommit
  <1>4. LedgerExplainsBalance'
    <2> SUFFICES ASSUME NEW y \in Payers
                 PROVE  (remaining[y] = Granted[y] + Spent(y) - expired[y])'
      BY DEF LedgerExplainsBalance
    <2>1. remaining[y] = Granted[y] + Spent(y) - expired[y]
      BY <1>0 DEF LedgerExplainsBalance
    <2>2. remaining[y] \in Nat /\ expired[y] \in Nat /\ Granted[y] \in Nat /\ Spent(y) \in Int
      BY <1>0, LotsAreCounted, SpentIsInt DEF TypeOK
    <2>3. t.left[y] \in {0, remaining[y]}
      BY <1>2 DEF Knows
    <2>4. Spent(y)' = Spent(y)
      BY <1>3 DEF Spent
    <2>5. remaining'[y] = remaining[y] - t.left[y] /\ expired'[y] = expired[y] + t.left[y]
      BY <1>3, <2>2, <2>3
    <2> QED
      BY <2>1, <2>2, <2>3, <2>4, <2>5
  <1>5. RowsAddUp'
    <2>1. now' >= now
      BY <1>0, <1>3 DEF TypeOK, Times
    <2> QED
      BY <1>0, <1>3, <2>1, RowLater, SerialFacts DEF RowsAddUp
  <1> QED
    BY <1>0, <1>4, <1>5, CommitStep
-----------------------------------------------------------------------------
LEMMA InitSerial == Init => SerialInv
  <1> SUFFICES ASSUME Init
               PROVE  SerialInv
    OBVIOUS
  <1>1. /\ \A p \in Procs : task[p] = Idle
        /\ \A b \in Bookings : bookings[b] = NoBooking /\ net[b] = 0 /\ b \notin forfeited
        /\ \A y \in Payers : remaining[y] = Granted[y] /\ expired[y] = 0
    BY DEF Init
  <1>2. RowsAddUp
    BY <1>1 DEF RowsAddUp, RowAddsUp, Live, LiveStatuses, NoBooking
  <1>3. LedgerExplainsBalance
    <2>1. ASSUME NEW y
          PROVE  Spent(y) = 0
      <3>1. RowsOf(y) = {}
        BY <1>1 DEF RowsOf
      <3> QED
        BY <3>1, SumOfNone DEF Spent, RowsOf
    <2> QED
      BY <1>1, <2>1, LotsAreCounted DEF LedgerExplainsBalance
  <1>4. TasksKnow
    BY <1>1 DEF TasksKnow, Knows, Idle
  <1> QED
    BY <1>1, <1>2, <1>3, <1>4 DEF SerialInv, OneAtATime

LEMMA StepSerial ==
    ASSUME IInv, IInv', SerialInv, [Next /\ OneAtATime']_vars
    PROVE  SerialInv'
  <1>0. TypeOK /\ TypeOK'
    BY DEF IInv
  <1>1. CASE Tick
    <2>1. SameData /\ task' = task
      BY <1>0, <1>1 DEF Tick, SameData, ledger, TypeOK, Times
    <2> QED
      BY <1>0, <2>1, WaitStep
  <1>2. ASSUME NEW p \in Workers, Request(p), OneAtATime'
        PROVE  SerialInv'
    <2>0. p \in Procs
      BY DEF Procs
    <2>1. CASE \/ \E actor, who \in Users, waive \in BOOLEAN, s \in Windows :
                     CreateLock(p, actor, who, waive, s)
               \/ CreatePrepare(p)
      BY <1>0, <1>2, <2>0, <2>1, CreateSerial
    <2>2. CASE CreateCommit(p)
      BY <1>0, <2>0, <2>2, CreateCommitSerial
    <2>3. CASE \/ \E actor \in Users, b \in Bookings : CancelLoad(p, actor, b)
               \/ CancelRefund(p)
      BY <1>0, <1>2, <2>0, <2>3, CancelSerial
    <2>4. CASE CancelCommit(p)
      BY <1>0, <2>0, <2>4, CancelCommitSerial
    <2>5. CASE \/ \E actor \in Users, b \in Bookings, s \in Windows : UpdateLoad(p, actor, b, s)
               \/ UpdateLock(p)
               \/ UpdateCheck(p)
      BY <1>0, <1>2, <2>0, <2>5, UpdateSerial
    <2>6. CASE UpdateCommit(p)
      BY <1>0, <2>0, <2>6, UpdateCommitSerial
    <2>7. CASE \E actor \in Users, b \in Bookings : CheckInLoad(p, actor, b)
      BY <1>0, <1>2, <2>0, <2>7, CheckInSerial
    <2>8. CASE CheckInCommit(p)
      BY <1>0, <2>0, <2>8, CheckInCommitSerial
    <2>9. CASE \E s \in Windows : BlockCheck(p, s)
      BY <1>0, <1>2, <2>0, <2>9, BlockSerial
    <2>10. CASE BlockCommit(p)
      <3>1. SameData /\ Done(p) /\ task[p] # Idle
        BY <1>0, <2>10 DEF BlockCommit, SameData, ledger, TypeOK, Times, Idle
      <3> QED
        BY <1>0, <2>0, <3>1, QuietCommit
    <2>11. CASE \E k \in blocks : BlockDelete(p, k)
      <3>1. SameData /\ task' = task
        BY <1>0, <2>11 DEF BlockDelete, SameData, ledger, TypeOK, Times
      <3> QED
        BY <1>0, <3>1, WaitStep
    <2> QED
      BY <1>2, <2>1, <2>2, <2>3, <2>4, <2>5, <2>6, <2>7, <2>8, <2>9, <2>10, <2>11 DEF Request
  <1>3. ASSUME NEW p \in Crons, Job(p), OneAtATime'
        PROVE  SerialInv'
    <2>0. p \in Procs
      BY DEF Procs
    <2>1. CASE ReleaseLoad(p) \/ ExpireLoad(p)
      BY <1>0, <1>3, <2>0, <2>1, JobSerial
    <2>2. CASE ReleaseCommit(p)
      BY <1>0, <2>0, <2>2, ReleaseCommitSerial
    <2>3. CASE ExpireCommit(p)
      BY <1>0, <2>0, <2>3, ExpireCommitSerial
    <2> QED
      BY <1>3, <2>1, <2>2, <2>3 DEF Job
  <1>4. ASSUME NEW p \in Procs, Fail(p)
        PROVE  SerialInv'
    <2>1. SameData /\ Done(p) /\ task[p] # Idle
      BY <1>0, <1>4 DEF Fail, Abandon, SameData, ledger, TypeOK, Times
    <2> QED
      BY <1>0, <2>1, QuietCommit
  <1>5. CASE UNCHANGED vars
    <2>1. SameData /\ task' = task
      BY <1>0, <1>5 DEF vars, SameData, ledger, TypeOK, Times
    <2> QED
      BY <1>0, <2>1, WaitStep
  <1> QED
    BY <1>1, <1>2, <1>3, <1>4, <1>5 DEF Next

LEMMA SerialHolds == SerialSpec => [](IInv /\ SerialInv)
  <1>1. Init => IInv /\ SerialInv
    BY InitIInv, InitSerial
  <1>2. IInv /\ SerialInv /\ [Next /\ OneAtATime']_vars => (IInv /\ SerialInv)'
    <2> SUFFICES ASSUME IInv, SerialInv, [Next /\ OneAtATime']_vars
                 PROVE  IInv' /\ SerialInv'
      OBVIOUS
    <2>1. [Next]_vars
      OBVIOUS
    <2>2. IInv'
      BY <2>1, StepIInv
    <2> QED
      BY <2>2, StepSerial
  <1> QED
    BY <1>1, <1>2, PTL DEF SerialSpec

\* Whatever requests and jobs run one after the other, any number of them in any order and
\* any of them cut short: every balance is what its ledger adds up to ("every change is a
\* ledger entry"), a live booking's credits are those of its time, a no-show's stay spent,
\* and a cancelled booking's are back unless their lot has expired (spend, refund_booking,
\* forfeit_booking, expire_lots, _reprice_room_booking).
THEOREM CreditsAreAccountedFor == SerialSpec => []CreditsAccounted
  <1>1. IInv /\ SerialInv => CreditsAccounted
    BY SerialInvAccounts DEF IInv
  <1> QED
    BY <1>1, SerialHolds, PTL
-----------------------------------------------------------------------------
(* The cap *)

LEMMA RulesHold ==
    ASSUME NEW u, PayerOf[u] \in Companies, u \notin CompanyAdmins, NEW credits, NEW f,
           CompanyAllows(u, credits, f)
    PROVE  credits = 0 \/ UsedBy(u, f) + credits <= Cap
  BY DEF CompanyAllows

LEMMA UsedByOther ==
    ASSUME TypeOK, NEW b \in Bookings, bookings[b] # NoBooking, NEW n \in Int
    PROVE  /\ UsedBy(bookings[b].user, net) \in Int
           /\ UsedBy(bookings[b].user, [net EXCEPT ![b] = n])
                = UsedBy(bookings[b].user, net) + net[b] - n
  <1>1. PICK u : u = bookings[b].user
    OBVIOUS
  <1>2. PICK g : g = [net EXCEPT ![b] = n]
    OBVIOUS
  <1>3. net \in [Bookings -> Int]
    BY DEF TypeOK
  <1>4. g \in [Bookings -> Int] /\ g[b] = n /\ \A c \in Bookings \ {b} : g[c] = net[c]
    BY <1>2, <1>3
  <1>5. RowsBy(u) \in SUBSET Bookings /\ b \in RowsBy(u)
    BY <1>1 DEF RowsBy
  <1>6. SumMoves(net, g, RowsBy(u), b, n)
    BY <1>3, <1>4, <1>5, SumsOfRows
  <1>7. UsedBy(u, net) = -SumFunctionOnSet(net, RowsBy(u)) /\ UsedBy(u, g) = -SumFunctionOnSet(g, RowsBy(u))
    BY DEF UsedBy, RowsBy
  <1>8. net[b] \in Int
    BY <1>3
  <1> QED
    BY <1>1, <1>2, <1>5, <1>6, <1>7, <1>8 DEF SumMoves

LEMMA CreateUnderCap ==
    ASSUME IInv, SerialInv, NEW p \in Procs, CreateCommit(p), task[p].actor \notin Admins,
           NEW u, u = BookedFor(task[p]), PayerOf[u] \in Companies, u \notin CompanyAdmins
    PROVE  UsedBy(u, net)' <= Cap \/ UsedBy(u, net)' <= UsedBy(u, net)
  <1>1. PICK b \in Bookings, t \in PricedTask, new \in Booking : CreateWrites(p, b, t, new)
    BY CreateCommitWrites
  <1>2. TypeOK /\ t.used \in Nat
    BY DEF IInv, PricedTask
  <1>3. PICK n \in Int : n = -t.used
    BY <1>2
  <1>4. /\ bookings[b] = NoBooking /\ bookings' = [bookings EXCEPT ![b] = new]
        /\ net' = [net EXCEPT ![b] = n] /\ u = new.user
        /\ CompanyAllows(u, t.used, net)
    BY <1>1, <1>3 DEF CreateWrites, BookedFor, Knows
  <1>5. UsedBy(u, net)' = UsedBy(u, net) - n
    BY <1>1, <1>2, <1>4, RowAdded
  <1>6. t.used = 0 \/ UsedBy(u, net) + t.used <= Cap
    BY <1>4, RulesHold
  <1>7. UsedBy(u, net) \in Int
    BY <1>2, SpentIsInt
  <1> QED
    BY <1>2, <1>3, <1>5, <1>6, <1>7

LEMMA UpdateUnderCap ==
    ASSUME IInv, SerialInv, NEW p \in Procs, UpdateCommit(p), task[p].actor \notin Admins,
           NEW u, u = BookedFor(task[p]), PayerOf[u] \in Companies, u \notin CompanyAdmins
    PROVE  UsedBy(u, net)' <= Cap \/ UsedBy(u, net)' <= UsedBy(u, net)
  <1>1. PICK b \in Bookings, t \in RepriceTask, used \in Nat, new \in Booking, n \in Int :
          UpdateWrites(p, b, t, used, new, n)
    BY UpdateCommitWrites
  <1>2. TypeOK /\ t.back \in Nat
    BY DEF IInv, RepriceTask
  <1>3. /\ bookings[b] # NoBooking /\ bookings' = [bookings EXCEPT ![b] = new]
        /\ new.user = bookings[b].user /\ n = net[b] + t.back - used
        /\ net' = [net EXCEPT ![b] = n] /\ u = bookings[b].user
        /\ used = 0 \/ CompanyAllows(u, used, [net EXCEPT ![b] = net[b] + t.back])
    BY <1>1 DEF UpdateWrites, BookedFor
  <1>4. net[b] \in Int /\ UsedBy(u, net) \in Int
    BY <1>2, SpentIsInt DEF TypeOK
  <1>5. UsedBy(u, net)' = UsedBy(u, net) + net[b] - n
    BY <1>1, <1>2, <1>3, RowKept
  <1>6. CASE used = 0
    BY <1>2, <1>3, <1>4, <1>5, <1>6
  <1>7. CASE used # 0
    <2>1. PICK m \in Int : m = net[b] + t.back
      BY <1>2, <1>4
    <2>2. UsedBy(u, [net EXCEPT ![b] = m]) + used <= Cap
      BY <1>3, <1>7, <2>1, RulesHold
    <2>3. UsedBy(u, [net EXCEPT ![b] = m]) = UsedBy(u, net) + net[b] - m
      BY <1>1, <1>2, <1>3, UsedByOther
    <2> QED
      BY <1>2, <1>3, <1>4, <1>5, <2>1, <2>2, <2>3
  <1> QED
    BY <1>6, <1>7

LEMMA OnlyCommitsWrite ==
    ASSUME Next, bookings' # bookings
    PROVE  \E q \in Procs : \/ CreateCommit(q) \/ CancelCommit(q) \/ UpdateCommit(q)
                            \/ CheckInCommit(q) \/ ReleaseCommit(q)
  <1>1. ~Tick
    BY DEF Tick
  <1>2. ASSUME NEW q \in Workers, Request(q)
        PROVE  CreateCommit(q) \/ CancelCommit(q) \/ UpdateCommit(q) \/ CheckInCommit(q)
    <2>1. /\ \A actor, who \in Users, waive \in BOOLEAN, s \in Windows :
                ~CreateLock(q, actor, who, waive, s)
          /\ ~CreatePrepare(q)
      BY DEF CreateLock, CreatePrepare
    <2>2. /\ \A actor \in Users, b \in Bookings : ~CancelLoad(q, actor, b)
          /\ ~CancelRefund(q)
      BY DEF CancelLoad, CancelRefund
    <2>3. /\ \A actor \in Users, b \in Bookings, s \in Windows : ~UpdateLoad(q, actor, b, s)
          /\ ~UpdateLock(q) /\ ~UpdateCheck(q)
      BY DEF UpdateLoad, UpdateLock, UpdateCheck
    <2>4. \A actor \in Users, b \in Bookings : ~CheckInLoad(q, actor, b)
      BY DEF CheckInLoad
    <2>5. /\ \A s \in Windows : ~BlockCheck(q, s)
          /\ ~BlockCommit(q) /\ \A k \in blocks : ~BlockDelete(q, k)
      BY DEF BlockCheck, BlockCommit, BlockDelete
    <2> QED
      BY <1>2, <2>1, <2>2, <2>3, <2>4, <2>5 DEF Request
  <1>3. ASSUME NEW q \in Crons, Job(q)
        PROVE  ReleaseCommit(q)
    BY <1>3 DEF Job, ReleaseLoad, ExpireLoad, ExpireCommit
  <1>4. \A q \in Procs : ~Fail(q)
    BY DEF Fail, Abandon
  <1> QED
    BY <1>1, <1>2, <1>3, <1>4 DEF Next, Procs

\* Only two steps end a handler that had priced a booking and change a row.
LEMMA WhoCommits ==
    ASSUME TypeOK, Next, NEW p \in Procs, task[p].at \in {"create_priced", "update_checked"},
           task'[p] = Idle, bookings' # bookings
    PROVE  CreateCommit(p) \/ UpdateCommit(p)
  <1>1. PICK q \in Procs : \/ CreateCommit(q) \/ CancelCommit(q) \/ UpdateCommit(q)
                           \/ CheckInCommit(q) \/ ReleaseCommit(q)
    BY OnlyCommitsWrite
  <1>2. Done(q)
    BY <1>1, Zenon DEF CreateCommit, CancelCommit, UpdateCommit, CheckInCommit, ReleaseCommit
  <1>3. q = p
    BY <1>2 DEF Done, Become, TypeOK, Idle
  <1>4. ~CancelCommit(p) /\ ~CheckInCommit(p) /\ ~ReleaseCommit(p)
    BY DEF CancelCommit, CheckInCommit, ReleaseCommit
  <1> QED
    BY <1>1, <1>3, <1>4

LEMMA StepUnderCap ==
    ASSUME IInv, SerialInv, Next
    PROVE  StaysUnderCap
  <1> SUFFICES ASSUME NEW p \in Procs, NEW u \in Users,
                      task[p].at \in {"create_priced", "update_checked"},
                      task[p].actor \notin Admins,
                      task'[p] = Idle, bookings' # bookings,
                      u = BookedFor(task[p]),
                      PayerOf[u] \in Companies, u \notin CompanyAdmins
               PROVE  UsedBy(u, net)' <= Cap \/ UsedBy(u, net)' <= UsedBy(u, net)
    BY DEF StaysUnderCap
  <1>1. CreateCommit(p) \/ UpdateCommit(p)
    BY WhoCommits DEF IInv
  <1> QED
    BY <1>1, CreateUnderCap, UpdateUnderCap

\* The company's cap, whatever requests and jobs run one after the other: no booking and no
\* move that an employee makes, or a company admin makes for one, takes the employee over
\* per_employee_monthly_cap (check_company_rules, quote_room and spend in
\* create_room_booking and _reprice_room_booking).
THEOREM CapIsRespected == SerialSpec => CapRespected
  <1>1. IInv /\ SerialInv /\ [Next /\ OneAtATime']_vars => [StaysUnderCap]_vars
    BY StepUnderCap
  <1> QED
    BY <1>1, SerialHolds, PTL DEF SerialSpec, CapRespected
=============================================================================
