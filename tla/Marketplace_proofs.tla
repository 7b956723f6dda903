-------------------------- MODULE Marketplace_proofs --------------------------
(***************************************************************************)
(* Proofs about Marketplace, for any number of processes, bookings and     *)
(* members' meetings, every window, price and bound: its type invariant,   *)
(* the refinement of RoomCalendar, and what each booking keeps of its      *)
(* block, its commission and its photo ID.                                 *)
(***************************************************************************)
EXTENDS Marketplace, TLAPS

(* The inductive invariant.  A handler that has loaded rows knows of their status what it checked, *)
(* and they are still there with the slot they had; a row names no block but one of its booking.   *)

Methods == {"venue", "upi"}

OwnBlock(b, r) == r.block \in {NoBlock} \union ({b} \X Workers)

\* The status a handler has checked.
LoadedBy(op) ==
    CASE op \in {"approve", "decline", "unlist"} -> {"requested"}
      [] op \in {"submit", "confirm"} -> {"held"}
      [] op \in {"check_in", "no_show", "turn_away"} -> {"confirmed"}
      [] op = "complete" -> {"confirmed", "checked_in"}
      [] op = "upload" -> {"requested", "held", "confirmed"}
      [] op = "cancel" -> Active \ {"checked_in"}
      [] op = "expire" -> {"requested", "held"}
      [] op = "review" -> Active \union Ended

\* What a task has loaded of a booking.
LoadedRow(t, b, r) ==
    /\ r \in Row /\ OwnBlock(b, r)
    /\ r.status \in LoadedBy(t.at)
    /\ t.at = "cancel" => t.pct = 100 \/ r.status = "confirmed"
    /\ t.at = "submit" => r.pay = "unpaid"

TaskOf(t) ==
    /\ DOMAIN t = {"at", "was", "now", "how", "pct", "slot"}
    /\ t.at \in Busy /\ t.now \in Times /\ t.pct \in 0..100
    /\ DOMAIN t.was \subseteq Bookings
    /\ t.at \notin {"expire", "unlist"} => \E b \in Bookings : DOMAIN t.was = {b}
    /\ t.at = "review" => t.how \in {"approved", "rejected"}
    /\ t.at = "cancel" => \/ t.how \in {"customer", "operator"} /\ t.pct = 100
                          \/ t.how = "customer" /\ t.pct = LateRefund
    /\ t.at = "turn_away" => t.how = "operator" /\ t.pct \in VenueRefunds
    /\ t.at = "create" =>
          /\ t.slot \in Offered /\ t.how \in Methods
          /\ \A b \in DOMAIN t.was : t.was[b] = NoRow
    /\ t.at # "create" => \A b \in DOMAIN t.was : LoadedRow(t, b, t.was[b])

SlotStands(p) ==
    task[p].at # "create" => \A b \in Loaded(p) : Exists(b) /\ Was(p, b).slot = rows[b].slot

Tasks ==
    /\ task = [p \in Workers |-> task[p]]
    /\ \A p \in Workers : task[p] = Idle \/ (TaskOf(task[p]) /\ SlotStands(p))

RowsTyped ==
    /\ rows \in [Bookings -> Row \union {NoRow}]
    /\ \A b \in Bookings : Exists(b) => OwnBlock(b, rows[b])
    /\ blocks \subseteq Block
    /\ \A k \in blocks : Exists(k[1])

RestTyped ==
    /\ now \in Times /\ apart \in BOOLEAN
    /\ listing \in {"live", "paused", "unlisted"}
    /\ lifted \subseteq Bookings
    /\ meetings \in [Meetings -> Offered \union {NoMeeting}]
    /\ ledger \in [Bookings -> [accrued: BOOLEAN, net: Nat]]

MarketInv == Tasks /\ RowsTyped /\ RestTyped
-----------------------------------------------------------------------------
(* Rows and tasks *)

LEMMA IdleIsNotBusy == Idle.at = "idle" /\ "idle" \notin Busy
  BY DEF Idle, Busy

LEMMA NoRowIsNoRow == NoRow.status = "none" /\ NoRow \notin Row
  <1>1. NoRow.status = "none"
    BY DEF NoRow
  <1>2. \A r \in Row : r.status # "none"
    BY DEF Row, Active, Ended, Occupying
  <1> QED
    BY <1>1, <1>2

LEMMA RowThere ==
    ASSUME RowsTyped, NEW b \in Bookings, Exists(b)
    PROVE  rows[b] \in Row
  BY DEF RowsTyped, Exists

LEMMA DuesKnown ==
    ASSUME NEW at \in Times
    PROVE  /\ at + RequestWindow \in Dues /\ at + InstantHold \in Dues
           /\ at + PayWindow \in Dues /\ Never \in Dues
  BY WindowsAreNaturals DEF Times, Dues, Never

LEMMA BusyTask ==
    ASSUME Tasks, NEW p \in Workers, task[p].at \in Busy
    PROVE  TaskOf(task[p]) /\ SlotStands(p) /\ task[p] # Idle
  BY IdleIsNotBusy DEF Tasks

\* An UPDATE of the columns that were changed.
LEMMA MergedRow ==
    ASSUME NEW stored \in Row, NEW was \in Row, NEW new \in Row
    PROVE  LET m == Merged(stored, was, new)
           IN /\ m \in Row
              /\ m.block \in {stored.block, new.block}
              /\ new.slot = was.slot => m.slot = stored.slot
              /\ stored = was => m = new
  <1> DEFINE columns == {"status", "slot", "method", "pay", "due", "id", "image", "withdrawn", "block"}
             m == Merged(stored, was, new)
  <1>1. DOMAIN stored = columns /\ DOMAIN new = columns
    BY DEF Row
  <1>2. m = [c \in columns |-> IF new[c] = was[c] THEN stored[c] ELSE new[c]]
    BY <1>1, NoRowIsNoRow DEF Merged
  <1>3. \A c \in columns : m[c] \in {stored[c], new[c]}
    BY <1>2
  <1>4. m = [status |-> m.status, slot |-> m.slot, method |-> m.method, pay |-> m.pay,
             due |-> m.due, id |-> m.id, image |-> m.image, withdrawn |-> m.withdrawn,
             block |-> m.block]
    BY <1>2
  <1>5. m \in Row
    BY <1>3, <1>4 DEF Row
  <1>6. new.slot = was.slot => m.slot = stored.slot
    BY <1>2
  <1>7. ASSUME stored = was PROVE m = new
    <2>1. \A c \in columns : m[c] = new[c]
      BY <1>2, <1>7
    <2>2. new = [c \in columns |-> new[c]]
      BY <1>1 DEF Row
    <2> QED
      BY <1>2, <2>1, <2>2
  <1> HIDE DEF m
  <1>8. m.block \in {stored.block, new.block}
    BY <1>3
  <1> QED
    BY <1>5, <1>6, <1>7, <1>8 DEF m
-----------------------------------------------------------------------------
(* What a handler stores *)

\* What a handler leaves of the rows it has loaded.
FitFor(p, new) ==
    \A b \in Loaded(p) :
        /\ new[b] \in Row /\ OwnBlock(b, new[b])
        /\ Exists(b) => Was(p, b) \in Row /\ new[b].slot = Was(p, b).slot

\* Rows stay, with the slot they have.
SlotsStay ==
    \A b \in Bookings : Exists(b) => (rows[b])' # NoRow /\ (rows[b])'.slot = rows[b].slot

LEMMA StoreKeeps ==
    ASSUME RowsTyped, NEW p \in Workers, Loaded(p) \subseteq Bookings, NEW new,
           FitFor(p, new), Store(p, new)
    PROVE  /\ rows' \in [Bookings -> Row \union {NoRow}]
           /\ \A b \in Bookings : rows'[b] # NoRow => OwnBlock(b, rows'[b])
           /\ SlotsStay
           /\ \A b \in Loaded(p) :
                 /\ rows'[b] # NoRow
                 /\ rows[b] = NoRow \/ rows[b] = Was(p, b) => rows'[b] = new[b]
           /\ \A b \in Bookings \ Loaded(p) : rows'[b] = rows[b]
  <1>1. rows' = [b \in Bookings |->
                   IF b \in Loaded(p) THEN Merged(rows[b], Was(p, b), new[b]) ELSE rows[b]]
    BY DEF Store
  <1>2. \A b \in Bookings \ Loaded(p) : rows'[b] = rows[b]
    BY <1>1
  <1>3. \A b \in Bookings \ Loaded(p) :
           /\ rows'[b] \in Row \union {NoRow}
           /\ rows'[b] # NoRow => OwnBlock(b, rows'[b])
           /\ rows[b] # NoRow => rows'[b] # NoRow /\ rows'[b].slot = rows[b].slot
    BY <1>2 DEF RowsTyped, Exists
  <1>4. ASSUME NEW b \in Loaded(p)
        PROVE  /\ rows'[b] \in Row
               /\ OwnBlock(b, rows'[b])
               /\ rows[b] # NoRow => rows'[b].slot = rows[b].slot
               /\ rows[b] = NoRow \/ rows[b] = Was(p, b) => rows'[b] = new[b]
    <2>1. b \in Bookings /\ rows'[b] = Merged(rows[b], Was(p, b), new[b])
      BY <1>1
    <2>2. new[b] \in Row /\ OwnBlock(b, new[b])
      BY DEF FitFor
    <2>3. CASE rows[b] = NoRow
      <3>1. rows'[b] = new[b]
        BY <2>1, <2>3 DEF Merged
      <3> QED
        BY <2>2, <2>3, <3>1
    <2>4. CASE rows[b] # NoRow
      <3>1. rows[b] \in Row /\ OwnBlock(b, rows[b])
        BY <2>1, <2>4 DEF RowsTyped, Exists
      <3>2. Was(p, b) \in Row /\ new[b].slot = Was(p, b).slot
        BY <2>4 DEF FitFor, Exists
      <3> DEFINE m == Merged(rows[b], Was(p, b), new[b])
      <3>3. /\ m \in Row
            /\ m.block \in {rows[b].block, new[b].block}
            /\ m.slot = rows[b].slot
            /\ rows[b] = Was(p, b) => m = new[b]
        BY <2>2, <3>1, <3>2, MergedRow
      <3> HIDE DEF m
      <3>4. OwnBlock(b, m)
        BY <2>2, <3>1, <3>3 DEF OwnBlock
      <3>5. rows'[b] = m
        BY <2>1 DEF m
      <3> QED
        BY <2>4, <3>3, <3>4, <3>5
    <2> QED
      BY <2>3, <2>4
  <1>5. \A b \in Bookings :
           /\ rows'[b] \in Row \union {NoRow}
           /\ rows'[b] # NoRow => OwnBlock(b, rows'[b])
           /\ rows[b] # NoRow => rows'[b] # NoRow /\ rows'[b].slot = rows[b].slot
    BY <1>3, <1>4, NoRowIsNoRow
  <1>6. rows' \in [Bookings -> Row \union {NoRow}]
    <2> DEFINE f == [b \in Bookings |->
                       IF b \in Loaded(p) THEN Merged(rows[b], Was(p, b), new[b]) ELSE rows[b]]
    <2>1. rows' = f /\ f = [b \in Bookings |-> f[b]]
      BY <1>1
    <2> HIDE DEF f
    <2> QED
      BY <1>5, <2>1
  <1>7. SlotsStay
    BY <1>5 DEF SlotsStay, Exists
  <1>8. \A b \in Loaded(p) :
           rows'[b] # NoRow /\ (rows[b] = NoRow \/ rows[b] = Was(p, b) => rows'[b] = new[b])
    BY <1>4, NoRowIsNoRow
  <1> QED
    BY <1>2, <1>5, <1>6, <1>7, <1>8

\* A handler that ends leaves the others what they have.
LEMMA TasksEnd ==
    ASSUME Tasks, NEW p \in Workers, Done(p), SlotsStay
    PROVE  Tasks'
  <1>1. task' = [q \in Workers |-> IF q = p THEN Idle ELSE task[q]]
    BY DEF Tasks, Done
  <1>2. task' = [q \in Workers |-> task'[q]]
    BY <1>1
  <1>3. ASSUME NEW q \in Workers, task'[q] # Idle
        PROVE  TaskOf(task'[q]) /\ SlotStands(q)'
    <2>1. task'[q] = task[q] /\ TaskOf(task[q]) /\ SlotStands(q)
      BY <1>1, <1>3 DEF Tasks
    <2>2. DOMAIN task[q].was \subseteq Bookings
      BY <2>1 DEF TaskOf
    <2>3. SlotStands(q)'
      BY <2>1, <2>2 DEF SlotStands, SlotsStay, Loaded, Was, Exists
    <2> QED
      BY <2>1, <2>3
  <1> QED
    BY <1>2, <1>3 DEF Tasks

LEMMA TasksKeep ==
    ASSUME Tasks, UNCHANGED task, SlotsStay
    PROVE  Tasks'
  <1>1. ASSUME NEW q \in Workers, task[q] # Idle
        PROVE  SlotStands(q)'
    <2>1. DOMAIN task[q].was \subseteq Bookings
      BY <1>1 DEF TaskOf, Tasks
    <2> QED
      BY <1>1, <2>1 DEF Tasks, SlotStands, SlotsStay, Loaded, Was, Exists
  <1> QED
    BY <1>1 DEF Tasks, TaskOf, LoadedRow

LEMMA TasksStart ==
    ASSUME Tasks, NEW p \in Workers, NEW t, task' = [task EXCEPT ![p] = t], UNCHANGED rows,
           TaskOf(t), t.at # "create" => \A b \in DOMAIN t.was : Exists(b) /\ t.was[b] = rows[b]
    PROVE  Tasks'
  <1>1. task' = [q \in Workers |-> IF q = p THEN t ELSE task[q]]
    BY DEF Tasks
  <1>2. task' = [q \in Workers |-> task'[q]]
    BY <1>1
  <1>3. TaskOf(task'[p]) /\ SlotStands(p)'
    BY <1>1 DEF SlotStands, Loaded, Was, Exists
  <1>4. ASSUME NEW q \in Workers, q # p, task'[q] # Idle
        PROVE  TaskOf(task'[q]) /\ SlotStands(q)'
    <2>1. task'[q] = task[q] /\ TaskOf(task[q]) /\ SlotStands(q)
      BY <1>1, <1>4 DEF Tasks
    <2> QED
      BY <2>1 DEF SlotStands, Loaded, Was, Exists
  <1> QED
    BY <1>2, <1>3, <1>4 DEF Tasks
-----------------------------------------------------------------------------
(* The rows that handlers make *)

Statuses == Active \union Ended
IdStates == {"not_required", "pending_upload", "pending_review", "approved", "rejected"}
PayStates == {"unpaid", "pending_verification"} \union Paid

LEMMA RequestedRow ==
    ASSUME NEW b \in Bookings, NEW slot \in Offered, NEW method \in Methods, NEW at \in Times
    PROVE  LET r == Requested(b, slot, method, at)
           IN  /\ r \in Row /\ r.status = "requested" /\ r.slot = slot /\ r.pay = "unpaid"
               /\ r.block = NoBlock /\ ~r.image
  <1> DEFINE r == Requested(b, slot, method, at)
             id == IF b \in IdRequired THEN "pending_upload" ELSE "not_required"
  <1>1. r = [status |-> "requested", slot |-> slot, method |-> method, pay |-> "unpaid",
             due |-> at + RequestWindow, id |-> id, image |-> FALSE, withdrawn |-> FALSE,
             block |-> NoBlock]
    BY DEF Requested
  <1>2. id \in IdStates
    BY DEF IdStates
  <1> HIDE DEF id, r
  <1>3. at + RequestWindow \in Dues
    BY DuesKnown
  <1>4. r \in Row
    BY <1>1, <1>2, <1>3 DEF Row, IdStates, Methods, Active
  <1>5. r.status = "requested" /\ r.slot = slot /\ r.pay = "unpaid" /\ r.block = NoBlock
    BY <1>1
  <1>6. ~r.image
    BY <1>1
  <1> QED
    BY <1>4, <1>5, <1>6 DEF r

LEMMA AdvancedRow ==
    ASSUME NEW r \in Row, NEW k \in Block, NEW mode, NEW at \in Times
    PROVE  LET n == Advanced(r, k, mode, at)
           IN  /\ n \in Row /\ n.slot = r.slot /\ n.block = k
               /\ n.status = (IF r.method = "venue" THEN "confirmed" ELSE "held")
               /\ n.pay = r.pay /\ n.method = r.method
               /\ (n.image => r.image)
  <1> DEFINE status == IF r.method = "venue" THEN "confirmed" ELSE "held"
             due == IF r.method = "venue" THEN Never
                    ELSE at + (IF mode = "instant" THEN InstantHold ELSE PayWindow)
             n == Advanced(r, k, mode, at)
  <1>1. n = [r EXCEPT !.block = k, !.status = status, !.due = due]
    BY DEF Advanced
  <1>2. due \in Dues
    BY DuesKnown
  <1>3. status \in Statuses
    BY DEF Statuses, Active, Occupying
  <1>4. (IF r.method = "venue" THEN "confirmed" ELSE "held") = status
    OBVIOUS
  <1> HIDE DEF due, status, n
  <1>5. n \in Row
    BY <1>1, <1>2, <1>3 DEF Row, Statuses
  <1>6. n.slot = r.slot /\ n.block = k /\ n.status = status /\ n.pay = r.pay
          /\ n.method = r.method
    BY <1>1 DEF Row
  <1>7. n.image => r.image
    BY <1>1 DEF Row
  <1> QED
    BY <1>4, <1>5, <1>6, <1>7 DEF n

\* Handlers that take no slot and no money: every column but these stays.
StatusAfter(op, r) ==
    CASE op = "decline" -> "declined" [] op = "check_in" -> "checked_in"
      [] op = "no_show" -> "no_show" [] op = "complete" -> "completed"
      [] op \in {"submit", "upload", "review"} -> r.status

LEMMA ChangedRow ==
    ASSUME NEW op \in {"decline", "submit", "check_in", "no_show", "complete", "upload", "review"},
           NEW how, op = "review" => how \in {"approved", "rejected"}, NEW r \in Row
    PROVE  LET n == Changed(op, how, r)
           IN  /\ n \in Row /\ n.slot = r.slot /\ n.block = r.block
               /\ n.status = StatusAfter(op, r) /\ n.method = r.method
               /\ n.pay = IF op = "submit" THEN "pending_verification" ELSE r.pay
               /\ n.withdrawn = r.withdrawn
               /\ op \in {"decline", "no_show", "complete"} => ~n.image
               /\ op # "upload" /\ n.image => r.image
  <1>1. Never \in Dues
    BY WindowsAreNaturals DEF Never, Dues
  <1>2. CASE op = "decline"
    <2>1. Changed(op, how, r) = [r EXCEPT !.status = "declined", !.due = Never, !.image = FALSE]
      BY <1>2 DEF Changed, Declined, Purged, Row
    <2> QED
      BY <1>1, <1>2, <2>1 DEF Row, Ended, StatusAfter
  <1>3. CASE op = "submit"
    <2>1. Changed(op, how, r) = [r EXCEPT !.pay = "pending_verification"]
      BY <1>3 DEF Changed
    <2> QED
      BY <1>3, <2>1 DEF Row, StatusAfter
  <1>4. CASE op = "check_in"
    <2>1. Changed(op, how, r) = [r EXCEPT !.status = "checked_in"]
      BY <1>4 DEF Changed
    <2> QED
      BY <1>4, <2>1 DEF Row, StatusAfter, Active, Occupying
  <1>5. CASE op = "no_show"
    <2>1. Changed(op, how, r) = [r EXCEPT !.status = "no_show", !.image = FALSE]
      BY <1>5 DEF Changed, Purged, Row
    <2> QED
      BY <1>5, <2>1 DEF Row, StatusAfter, Ended
  <1>6. CASE op = "complete"
    <2>1. Changed(op, how, r) = [r EXCEPT !.status = "completed", !.image = FALSE]
      BY <1>6 DEF Changed, Purged, Row
    <2> QED
      BY <1>6, <2>1 DEF Row, StatusAfter, Ended
  <1>7. CASE op = "upload"
    <2>1. Changed(op, how, r) = [r EXCEPT !.image = TRUE, !.id = "pending_review"]
      BY <1>7 DEF Changed
    <2> QED
      BY <1>7, <2>1 DEF Row, StatusAfter
  <1>8. CASE op = "review"
    <2>1. Changed(op, how, r) = [r EXCEPT !.id = how]
      BY <1>8 DEF Changed
    <2> QED
      BY <1>8, <2>1 DEF Row, StatusAfter
  <1> QED
    BY <1>2, <1>3, <1>4, <1>5, <1>6, <1>7, <1>8
LEMMA ConfirmedRow ==
    ASSUME NEW r \in Row
    PROVE  LET n == [r EXCEPT !.status = "confirmed", !.pay = "paid", !.due = Never]
           IN  /\ n \in Row /\ n.slot = r.slot /\ n.block = r.block
               /\ n.status = "confirmed" /\ n.pay = "paid" /\ (n.image => r.image)
  <1>1. Never \in Dues
    BY WindowsAreNaturals DEF Never, Dues
  <1> QED
    BY <1>1 DEF Row, Active, Occupying, Paid

LEMMA CancelledRow ==
    ASSUME NEW r \in Row, NEW t, t.how \in {"customer", "operator"}
    PROVE  LET n == Cancelled(r, t)
           IN  /\ n \in Row /\ n.slot = r.slot /\ n.block = NoBlock
               /\ n.status \in {"cancelled_customer", "cancelled_operator"}
               /\ n.pay = Refunded(r, t.pct)
               /\ ~n.image
  <1> DEFINE status == IF t.how = "customer" THEN "cancelled_customer" ELSE "cancelled_operator"
             pay == Refunded(r, t.pct)
             id == IF t.at = "turn_away" THEN "rejected" ELSE r.id
             n == Cancelled(r, t)
  <1>1. n = [r EXCEPT !.status = status, !.pay = pay, !.due = Never, !.block = NoBlock,
                      !.id = id, !.image = FALSE]
    BY DEF Cancelled, Purged, Row
  <1>2. status \in {"cancelled_customer", "cancelled_operator"}
    OBVIOUS
  <1>3. pay \in PayStates
    BY DEF Refunded, Row, PayStates, Paid
  <1>4. id \in IdStates
    BY DEF Row, IdStates
  <1>5. Never \in Dues
    BY WindowsAreNaturals DEF Never, Dues
  <1>6. Refunded(r, t.pct) = pay
    OBVIOUS
  <1> HIDE DEF status, pay, id, n
  <1>7. n \in Row
    BY <1>1, <1>2, <1>3, <1>4, <1>5 DEF Row, Ended, PayStates, IdStates
  <1>8. n.slot = r.slot /\ n.block = NoBlock /\ n.status = status /\ n.pay = pay
    BY <1>1 DEF Row
  <1>9. ~n.image
    BY <1>1 DEF Row
  <1> QED
    BY <1>2, <1>6, <1>7, <1>8, <1>9 DEF n

LEMMA ExpiredRow ==
    ASSUME NEW r \in Row
    PROVE  LET n == Purged([r EXCEPT !.status = "expired", !.due = Never, !.block = NoBlock])
           IN  /\ n \in Row /\ n.slot = r.slot /\ n.block = NoBlock
               /\ n.status = "expired" /\ n.pay = r.pay /\ ~n.image
  <1> DEFINE n == Purged([r EXCEPT !.status = "expired", !.due = Never, !.block = NoBlock])
  <1>1. n = [r EXCEPT !.status = "expired", !.due = Never, !.block = NoBlock, !.image = FALSE]
    BY DEF Purged, Row
  <1>2. Never \in Dues
    BY WindowsAreNaturals DEF Never, Dues
  <1> HIDE DEF n
  <1>3. n \in Row
    BY <1>1, <1>2 DEF Row, Ended
  <1>4. n.slot = r.slot /\ n.block = NoBlock /\ n.status = "expired" /\ n.pay = r.pay
    BY <1>1 DEF Row
  <1>5. ~n.image
    BY <1>1 DEF Row
  <1> QED
    BY <1>3, <1>4, <1>5 DEF n

LEMMA RefusedRow ==
    ASSUME NEW r \in Row
    PROVE  LET n == [r EXCEPT !.status = "declined", !.withdrawn = TRUE]
           IN  /\ n \in Row /\ n.slot = r.slot /\ n.block = r.block
               /\ n.status = "declined" /\ n.pay = r.pay /\ n.withdrawn
  BY DEF Row, Ended

\* What a refund in percent reverses of an amount is at most the amount, all of it at one hundred,
\* and leaves the rest of it to the nearest whole.
LEMMA PartOf ==
    ASSUME NEW n \in Nat, NEW pct \in 0..100
    PROVE  /\ Rounded(n * pct) \in 0..n
           /\ pct = 100 => Rounded(n * pct) = n
           /\ n = 0 => Rounded(n * pct) = 0
           /\ -50 <= 100 * (n - Rounded(n * pct)) - n * (100 - pct)
           /\ 100 * (n - Rounded(n * pct)) - n * (100 - pct) < 50
  <1> DEFINE q == n * pct
             d == Rounded(q)
  <1>1. q \in Nat /\ q <= n * 100
    OBVIOUS
  <1>2. pct = 100 => q = n * 100
    OBVIOUS
  <1>3. n * (100 - pct) = 100 * n - q
    OBVIOUS
  <1>4. n = 0 => q = 0
    OBVIOUS
  <1> HIDE DEF q
  <1>5. d \in Int /\ 200 * d <= 2 * q + 100 /\ 2 * q + 100 < 200 * d + 200
    BY <1>1 DEF Rounded
  <1>6. Rounded(q) = d
    OBVIOUS
  <1> HIDE DEF d
  <1>7. d \in 0..n /\ (pct = 100 => d = n) /\ (n = 0 => d = 0)
    BY <1>1, <1>2, <1>4, <1>5
  <1>8. -50 <= 100 * (n - d) - (100 * n - q) /\ 100 * (n - d) - (100 * n - q) < 50
    BY <1>1, <1>5
  <1> QED
    BY <1>3, <1>6, <1>7, <1>8 DEF q

Ledgers == [Bookings -> [accrued: BOOLEAN, net: Nat]]

LEMMA LedgerReversed ==
    ASSUME ledger \in Ledgers, NEW b \in Bookings, NEW pct \in 0..100
    PROVE  LET l == Reversed(b, pct)
           IN  /\ l \in Ledgers
               /\ \A c \in Bookings \ {b} : l[c] = ledger[c]
               /\ l[b].accrued = ledger[b].accrued
               /\ pct = 100 \/ Net(b) = 0 => l[b].net = 0
               /\ Net(b) = Commission => IsShareLeft(l[b].net, pct)
  <1> DEFINE part == Rounded(Net(b) * pct)
             l == [ledger EXCEPT ![b].net = @ - part]
  <1>1. ledger[b] \in [accrued: BOOLEAN, net: Nat] /\ Net(b) \in Nat
    BY DEF Ledgers, Net
  <1>2. /\ part \in 0..Net(b) /\ (pct = 100 => part = Net(b)) /\ (Net(b) = 0 => part = 0)
        /\ -50 <= 100 * (Net(b) - part) - Net(b) * (100 - pct)
        /\ 100 * (Net(b) - part) - Net(b) * (100 - pct) < 50
    BY <1>1, PartOf
  <1>3. Reversed(b, pct) = l
    BY DEF Reversed, Net
  <1> HIDE DEF part
  <1>4. l = [c \in Bookings |-> IF c = b THEN [ledger[b] EXCEPT !.net = Net(b) - part]
                                ELSE ledger[c]]
    BY DEF Ledgers, Net
  <1>5. Net(b) - part \in Nat
    <2>1. part \in 0..Net(b)
      BY <1>2
    <2> QED
      BY <1>1, <2>1
  <1>6. /\ l[b].net = Net(b) - part /\ l[b] \in [accrued: BOOLEAN, net: Nat]
        /\ l[b].accrued = ledger[b].accrued
    BY <1>1, <1>4, <1>5
  <1> HIDE DEF l
  <1>7. \A c \in Bookings \ {b} : l[c] = ledger[c]
    BY <1>4
  <1>8. l \in Ledgers
    <2>1. l = [c \in Bookings |-> l[c]]
      BY <1>4
    <2>2. \A c \in Bookings : l[c] \in [accrued: BOOLEAN, net: Nat]
      BY <1>6, <1>7 DEF Ledgers
    <2> QED
      BY <2>1, <2>2 DEF Ledgers
  <1>9. pct = 100 \/ Net(b) = 0 => l[b].net = 0
    BY <1>1, <1>2, <1>6
  <1>10. Net(b) = Commission => IsShareLeft(l[b].net, pct)
    BY <1>2, <1>6 DEF IsShareLeft
  <1> QED
    BY <1>3, <1>6, <1>7, <1>8, <1>9, <1>10

LEMMA LedgerAccrued ==
    ASSUME ledger \in Ledgers, NEW b \in Bookings
    PROVE  LET l == Accrued(b)
           IN  /\ l \in Ledgers
               /\ \A c \in Bookings \ {b} : l[c] = ledger[c]
               /\ l[b].accrued
               /\ ~ledger[b].accrued /\ Net(b) = 0 => l[b].net = Commission
  <1>1. ledger[b] \in [accrued: BOOLEAN, net: Nat] /\ Net(b) = ledger[b].net
    BY DEF Ledgers, Net
  <1>2. CASE ledger[b].accrued
    BY <1>2 DEF Accrued
  <1>3. CASE ~ledger[b].accrued
    <2> DEFINE e == [accrued |-> TRUE, net |-> Net(b) + Commission]
               l == [c \in Bookings |-> IF c = b THEN e ELSE ledger[c]]
    <2>1. Accrued(b) = l
      BY <1>3 DEF Accrued, Ledgers, Net
    <2>2. e \in [accrued: BOOLEAN, net: Nat] /\ e.net = Net(b) + Commission /\ e.accrued
      BY <1>1, WindowsAreNaturals
    <2> HIDE DEF e
    <2>3. l \in Ledgers
      BY <2>2 DEF Ledgers
    <2>4. Net(b) = 0 => e.net = Commission
      BY <1>1, <2>2, WindowsAreNaturals
    <2>5. \A c \in Bookings \ {b} : l[c] = ledger[c]
      OBVIOUS
    <2>6. l[b] = e
      OBVIOUS
    <2> HIDE DEF l
    <2> QED
      BY <1>1, <1>3, <2>1, <2>2, <2>3, <2>4, <2>5, <2>6
  <1> QED
    BY <1>2, <1>3
-----------------------------------------------------------------------------
(* The steps *)

LEMMA MarketInit == Init => MarketInv
  <1> SUFFICES ASSUME Init PROVE MarketInv
    OBVIOUS
  <1>1. Tasks
    BY DEF Init, Tasks
  <1>2. RowsTyped
    BY DEF Init, RowsTyped, Exists
  <1>3. ledger \in [Bookings -> [accrued: BOOLEAN, net: Nat]]
    BY DEF Init
  <1>4. RestTyped
    BY <1>3, WindowsAreNaturals DEF Init, RestTyped, Times
  <1> QED
    BY <1>1, <1>2, <1>4 DEF MarketInv

\* A handler ends: it has stored what it made of the rows it had loaded.
LEMMA HandlerEnds ==
    ASSUME MarketInv, NEW p \in Workers, Loaded(p) \subseteq Bookings, NEW new,
           FitFor(p, new), Store(p, new), Done(p),
           blocks' \subseteq blocks \union {k \in Block : k[1] \in Loaded(p)}
    PROVE  Tasks' /\ RowsTyped'
  <1>1. /\ rows' \in [Bookings -> Row \union {NoRow}]
        /\ \A b \in Bookings : rows'[b] # NoRow => OwnBlock(b, rows'[b])
        /\ SlotsStay
        /\ \A b \in Loaded(p) : rows'[b] # NoRow
    BY StoreKeeps DEF MarketInv
  <1>2. Tasks'
    BY <1>1, TasksEnd DEF MarketInv
  <1>3. \A k \in blocks' : k \in Block /\ rows'[k[1]] # NoRow
    <2> TAKE k \in blocks'
    <2>1. CASE k \in blocks
      <3>1. k \in Block /\ k[1] \in Bookings /\ Exists(k[1])
        BY <2>1 DEF MarketInv, RowsTyped, Block
      <3> QED
        BY <1>1, <3>1 DEF SlotsStay
    <2>2. CASE k \in Block /\ k[1] \in Loaded(p)
      BY <1>1, <2>2
    <2> QED
      BY <2>1, <2>2
  <1>4. RowsTyped'
    BY <1>1, <1>3 DEF RowsTyped, Exists, OwnBlock
  <1> QED
    BY <1>2, <1>4

LEMMA CreateStep ==
    ASSUME MarketInv, NEW p \in Procs, CreateCommit(p)
    PROVE  MarketInv'
  <1> DEFINE t == task[p]
             wanted(b) == Requested(b, t.slot, t.how, t.now)
             new(b, mode) == IF mode = "instant" THEN Advanced(wanted(b), <<b, p>>, mode, t.now)
                             ELSE wanted(b)
  <1>1. p \in Workers /\ t.at = "create" /\ t.at \in Busy
    BY DEF CreateCommit, Busy, Workers
  <1>2. TaskOf(t) /\ t # Idle
    BY <1>1, BusyTask DEF MarketInv
  <1>3. Loaded(p) \subseteq Bookings /\ t.now \in Times /\ t.slot \in Offered /\ t.how \in Methods
    BY <1>1, <1>2 DEF TaskOf, Loaded
  <1>4. PICK b \in Loaded(p), mode \in Approvals :
           /\ ~Exists(b)
           /\ Store(p, [c \in {b} |-> new(b, mode)])
           /\ blocks' = IF mode = "instant" THEN blocks \union {<<b, p>>} ELSE blocks
           /\ ledger' = AccruedIf(b, new(b, mode))
    BY DEF CreateCommit
  <1>5. b \in Bookings /\ <<b, p>> \in Block /\ Loaded(p) = {b}
    <2>1. b \in Bookings /\ <<b, p>> \in Block
      BY <1>1, <1>3 DEF Block
    <2>2. \E c \in Bookings : Loaded(p) = {c}
      BY <1>1, <1>2 DEF TaskOf, Loaded
    <2> QED
      BY <1>4, <2>1, <2>2
  <1>6. wanted(b) \in Row /\ wanted(b).block = NoBlock
    BY <1>3, <1>5, RequestedRow
  <1>7. new(b, mode) \in Row /\ OwnBlock(b, new(b, mode))
    <2>1. Advanced(wanted(b), <<b, p>>, mode, t.now) \in Row
            /\ Advanced(wanted(b), <<b, p>>, mode, t.now).block = <<b, p>>
      BY <1>3, <1>5, <1>6, AdvancedRow
    <2> QED
      BY <1>1, <1>6, <2>1 DEF OwnBlock
  <1> DEFINE n == [c \in {b} |-> new(b, mode)]
  <1>8. n[b] = new(b, mode)
    OBVIOUS
  <1> HIDE DEF new, wanted, n
  <1>9. FitFor(p, n)
    BY <1>4, <1>5, <1>7, <1>8 DEF FitFor
  <1>10. Store(p, n) /\ Done(p)
    BY <1>4 DEF n, CreateCommit
  <1>11. blocks' \subseteq blocks \union {k \in Block : k[1] \in Loaded(p)}
    BY <1>4, <1>5
  <1>12. Tasks' /\ RowsTyped'
    BY <1>1, <1>3, <1>9, <1>10, <1>11, HandlerEnds
  <1>13. ledger' \in Ledgers
    BY <1>4, <1>5, LedgerAccrued DEF AccruedIf, MarketInv, RestTyped, Ledgers
  <1>14. RestTyped'
    BY <1>13 DEF MarketInv, RestTyped, CreateCommit, Ledgers, Times
  <1> QED
    BY <1>12, <1>14 DEF MarketInv

LEMMA ApproveStep ==
    ASSUME MarketInv, NEW p \in Procs, ApproveCommit(p)
    PROVE  MarketInv'
  <1> DEFINE t == task[p]
             new(b, mode) == Advanced(Was(p, b), <<b, p>>, mode, t.now)
  <1>1. p \in Workers /\ t.at = "approve" /\ t.at \in Busy
    BY DEF ApproveCommit, Busy, Workers
  <1>2. TaskOf(t) /\ SlotStands(p) /\ t # Idle
    BY <1>1, BusyTask DEF MarketInv
  <1>3. Loaded(p) \subseteq Bookings /\ t.now \in Times
    BY <1>1, <1>2 DEF TaskOf, Loaded
  <1>4. PICK b \in Loaded(p), mode \in Approvals :
           /\ Store(p, [c \in {b} |-> new(b, mode)])
           /\ blocks' = blocks \union {<<b, p>>}
           /\ ledger' = AccruedIf(b, new(b, mode))
    BY DEF ApproveCommit
  <1>5. b \in Bookings /\ <<b, p>> \in Block /\ Loaded(p) = {b}
    <2>1. b \in Bookings /\ <<b, p>> \in Block
      BY <1>1, <1>3 DEF Block
    <2>2. \E c \in Bookings : Loaded(p) = {c}
      BY <1>1, <1>2 DEF TaskOf, Loaded
    <2> QED
      BY <1>4, <2>1, <2>2
  <1>6. Was(p, b) \in Row
    BY <1>1, <1>2, <1>4 DEF TaskOf, Loaded, Was, LoadedRow
  <1>7. new(b, mode) \in Row /\ OwnBlock(b, new(b, mode)) /\ new(b, mode).slot = Was(p, b).slot
    <2>1. new(b, mode) \in Row /\ new(b, mode).block = <<b, p>>
            /\ new(b, mode).slot = Was(p, b).slot
      BY <1>3, <1>5, <1>6, AdvancedRow
    <2> QED
      BY <1>1, <2>1 DEF OwnBlock
  <1> DEFINE n == [c \in {b} |-> new(b, mode)]
  <1>8. n[b] = new(b, mode)
    OBVIOUS
  <1> HIDE DEF new, n
  <1>9. FitFor(p, n)
    BY <1>5, <1>6, <1>7, <1>8 DEF FitFor
  <1>10. Store(p, n) /\ Done(p)
    BY <1>4 DEF n, ApproveCommit
  <1>11. blocks' \subseteq blocks \union {k \in Block : k[1] \in Loaded(p)}
    BY <1>4, <1>5
  <1>12. Tasks' /\ RowsTyped'
    BY <1>1, <1>3, <1>9, <1>10, <1>11, HandlerEnds
  <1>13. ledger' \in Ledgers
    BY <1>4, <1>5, LedgerAccrued DEF AccruedIf, MarketInv, RestTyped, Ledgers
  <1>14. RestTyped'
    BY <1>13 DEF MarketInv, RestTyped, ApproveCommit, Ledgers, Times
  <1> QED
    BY <1>12, <1>14 DEF MarketInv

\* The task of a handler that did not make its booking.
LEMMA TaskAtWork ==
    ASSUME MarketInv, NEW p \in Workers, task[p].at \in Busy \ {"create"}
    PROVE  /\ TaskOf(task[p]) /\ SlotStands(p)
           /\ Loaded(p) \subseteq Bookings
           /\ task[p].now \in Times /\ task[p].pct \in 0..100
           /\ \A b \in Loaded(p) :
                 /\ LoadedRow(task[p], b, Was(p, b)) /\ Was(p, b) \in Row
                 /\ OwnBlock(b, Was(p, b))
                 /\ Exists(b)
  <1>1. TaskOf(task[p]) /\ SlotStands(p)
    BY BusyTask DEF MarketInv
  <1> QED
    BY <1>1 DEF TaskOf, SlotStands, Loaded, Was, LoadedRow

LEMMA ChangeStep ==
    ASSUME MarketInv, NEW p \in Procs, ChangeCommit(p)
    PROVE  MarketInv'
  <1> DEFINE t == task[p]
             new == [b \in Loaded(p) |-> Changed(t.at, t.how, Was(p, b))]
  <1>1. /\ t.at \in {"decline", "submit", "check_in", "no_show", "complete", "upload", "review"}
        /\ p \in Workers /\ t.at \in Busy \ {"create"}
    BY DEF ChangeCommit, Busy, Workers
  <1>2. /\ TaskOf(t) /\ Loaded(p) \subseteq Bookings
        /\ \A b \in Loaded(p) : Was(p, b) \in Row /\ OwnBlock(b, Was(p, b))
    BY <1>1, TaskAtWork
  <1>3. ASSUME NEW b \in Loaded(p)
        PROVE  new[b] \in Row /\ new[b].slot = Was(p, b).slot /\ new[b].block = Was(p, b).block
    <2>1. t.at = "review" => t.how \in {"approved", "rejected"}
      BY <1>2 DEF TaskOf
    <2> QED
      BY <1>1, <1>2, <2>1, ChangedRow
  <1>4. Store(p, new) /\ Done(p)
    BY DEF ChangeCommit
  <1> HIDE DEF new
  <1>5. FitFor(p, new)
    BY <1>2, <1>3 DEF FitFor, OwnBlock
  <1>6. Tasks' /\ RowsTyped'
    BY <1>1, <1>2, <1>4, <1>5, HandlerEnds DEF ChangeCommit
  <1>7. RestTyped'
    BY DEF MarketInv, RestTyped, ChangeCommit, Times
  <1> QED
    BY <1>6, <1>7 DEF MarketInv

LEMMA ConfirmStep ==
    ASSUME MarketInv, NEW p \in Procs, ConfirmCommit(p)
    PROVE  MarketInv'
  <1> DEFINE t == task[p]
             new(c) == [Was(p, c) EXCEPT !.status = "confirmed", !.pay = "paid", !.due = Never]
  <1>1. t.at = "confirm" /\ p \in Workers /\ t.at \in Busy \ {"create"}
    BY DEF ConfirmCommit, Busy, Workers
  <1>2. /\ TaskOf(t) /\ Loaded(p) \subseteq Bookings
        /\ \A b \in Loaded(p) : Was(p, b) \in Row /\ OwnBlock(b, Was(p, b))
    BY <1>1, TaskAtWork
  <1>3. PICK b \in Loaded(p) : Store(p, [c \in {b} |-> new(c)]) /\ ledger' = Accrued(b)
    BY DEF ConfirmCommit
  <1>4. Loaded(p) = {b} /\ b \in Bookings
    <2>1. \E c \in Bookings : Loaded(p) = {c}
      BY <1>1, <1>2 DEF TaskOf, Loaded
    <2> QED
      BY <1>3, <2>1
  <1>5. new(b) \in Row /\ new(b).slot = Was(p, b).slot /\ new(b).block = Was(p, b).block
    BY <1>2, ConfirmedRow
  <1> DEFINE n == [c \in {b} |-> new(c)]
  <1>6. n[b] = new(b)
    OBVIOUS
  <1>7. Store(p, n) /\ Done(p)
    BY <1>3 DEF ConfirmCommit
  <1> HIDE DEF new, n
  <1>8. FitFor(p, n)
    BY <1>2, <1>4, <1>5, <1>6 DEF FitFor, OwnBlock
  <1>9. Tasks' /\ RowsTyped'
    BY <1>1, <1>2, <1>7, <1>8, HandlerEnds DEF ConfirmCommit
  <1>10. ledger' \in Ledgers
    BY <1>3, <1>4, LedgerAccrued DEF MarketInv, RestTyped, Ledgers
  <1>11. RestTyped'
    BY <1>10 DEF MarketInv, RestTyped, ConfirmCommit, Ledgers, Times
  <1> QED
    BY <1>9, <1>11 DEF MarketInv

LEMMA CancelStep ==
    ASSUME MarketInv, NEW p \in Procs, CancelCommit(p)
    PROVE  MarketInv'
  <1> DEFINE t == task[p]
  <1>1. t.at \in {"cancel", "turn_away"} /\ p \in Workers /\ t.at \in Busy \ {"create"}
    BY DEF CancelCommit, Busy, Workers
  <1>2. /\ TaskOf(t) /\ Loaded(p) \subseteq Bookings /\ t.pct \in 0..100
        /\ \A b \in Loaded(p) : Was(p, b) \in Row /\ OwnBlock(b, Was(p, b))
    BY <1>1, TaskAtWork
  <1>3. PICK b \in Loaded(p) :
           Store(p, [c \in {b} |-> Cancelled(Was(p, c), t)]) /\ ledger' = Reversed(b, t.pct)
    BY DEF CancelCommit
  <1>4. Loaded(p) = {b} /\ b \in Bookings
    <2>1. \E c \in Bookings : Loaded(p) = {c}
      BY <1>1, <1>2 DEF TaskOf, Loaded
    <2> QED
      BY <1>3, <2>1
  <1> DEFINE new == Cancelled(Was(p, b), t)
             n == [c \in {b} |-> Cancelled(Was(p, c), t)]
  <1>5. new \in Row /\ new.slot = Was(p, b).slot /\ new.block = NoBlock
    <2>1. t.how \in {"customer", "operator"}
      BY <1>1, <1>2 DEF TaskOf
    <2> QED
      BY <1>2, <2>1, CancelledRow
  <1>6. n[b] = new
    OBVIOUS
  <1>7. Store(p, n) /\ Done(p)
    BY <1>3 DEF CancelCommit
  <1> HIDE DEF new, n
  <1>8. FitFor(p, n)
    BY <1>2, <1>4, <1>5, <1>6 DEF FitFor, OwnBlock
  <1>9. blocks' \subseteq blocks
    BY DEF CancelCommit, Release
  <1>10. Tasks' /\ RowsTyped'
    BY <1>1, <1>2, <1>7, <1>8, <1>9, HandlerEnds
  <1>11. ledger' \in Ledgers
    BY <1>2, <1>3, <1>4, LedgerReversed DEF MarketInv, RestTyped, Ledgers
  <1>12. RestTyped'
    BY <1>11 DEF MarketInv, RestTyped, CancelCommit, Ledgers, Times
  <1> QED
    BY <1>10, <1>12 DEF MarketInv

LEMMA ExpireStep ==
    ASSUME MarketInv, NEW p \in Crons, ExpireCommit(p)
    PROVE  MarketInv'
  <1> DEFINE new == [b \in Loaded(p) |->
                       Purged([Was(p, b) EXCEPT !.status = "expired", !.due = Never,
                                                !.block = NoBlock])]
  <1>1. task[p].at = "expire" /\ p \in Workers /\ task[p].at \in Busy \ {"create"}
    BY DEF ExpireCommit, Busy, Workers
  <1>2. /\ Loaded(p) \subseteq Bookings
        /\ \A b \in Loaded(p) : Was(p, b) \in Row /\ OwnBlock(b, Was(p, b))
    BY <1>1, TaskAtWork
  <1>3. ASSUME NEW b \in Loaded(p)
        PROVE  new[b] \in Row /\ new[b].slot = Was(p, b).slot /\ new[b].block = NoBlock
    BY <1>2, ExpiredRow
  <1>4. Store(p, new) /\ Done(p)
    BY DEF ExpireCommit
  <1> HIDE DEF new
  <1>5. FitFor(p, new)
    BY <1>2, <1>3 DEF FitFor, OwnBlock
  <1>6. blocks' \subseteq blocks
    BY DEF ExpireCommit, Release
  <1>7. Tasks' /\ RowsTyped'
    BY <1>1, <1>2, <1>4, <1>5, <1>6, HandlerEnds
  <1>8. RestTyped'
    BY DEF MarketInv, RestTyped, ExpireCommit, Times
  <1> QED
    BY <1>7, <1>8 DEF MarketInv

LEMMA UnlistStep ==
    ASSUME MarketInv, NEW p \in Procs, UnlistCommit(p)
    PROVE  MarketInv'
  <1> DEFINE new == [b \in Loaded(p) |-> [Was(p, b) EXCEPT !.status = "declined", !.withdrawn = TRUE]]
  <1>1. task[p].at = "unlist" /\ p \in Workers /\ task[p].at \in Busy \ {"create"}
    BY DEF UnlistCommit, Busy, Workers
  <1>2. /\ Loaded(p) \subseteq Bookings
        /\ \A b \in Loaded(p) : Was(p, b) \in Row /\ OwnBlock(b, Was(p, b))
    BY <1>1, TaskAtWork
  <1>3. ASSUME NEW b \in Loaded(p)
        PROVE  new[b] \in Row /\ new[b].slot = Was(p, b).slot /\ new[b].block = Was(p, b).block
    BY <1>2, RefusedRow
  <1>4. Store(p, new) /\ Done(p)
    BY DEF UnlistCommit
  <1> HIDE DEF new
  <1>5. FitFor(p, new)
    BY <1>2, <1>3 DEF FitFor, OwnBlock
  <1>6. Tasks' /\ RowsTyped'
    BY <1>1, <1>2, <1>4, <1>5, HandlerEnds DEF UnlistCommit
  <1>7. RestTyped'
    BY DEF MarketInv, RestTyped, UnlistCommit, Times
  <1> QED
    BY <1>6, <1>7 DEF MarketInv

LEMMA HandlerStarts ==
    ASSUME MarketInv, NEW p \in Workers, NEW op, NEW was, NEW how, NEW pct, NEW slot,
           Start(p, op, was, how, pct, slot),
           TaskOf([at |-> op, was |-> was, now |-> now, how |-> how, pct |-> pct, slot |-> slot]),
           op # "create" => \A b \in DOMAIN was : Exists(b) /\ was[b] = rows[b]
    PROVE  MarketInv'
  <1> DEFINE t == [at |-> op, was |-> was, now |-> now, how |-> how, pct |-> pct, slot |-> slot]
  <1>1. /\ task' = [task EXCEPT ![p] = t]
        /\ UNCHANGED <<now, apart, listing, rows, blocks, lifted, meetings, ledger>>
    BY DEF Start
  <1>2. t.at = op /\ t.was = was
    OBVIOUS
  <1>3. TaskOf(t)
    OBVIOUS
  <1> HIDE DEF t
  <1>4. Tasks'
    BY <1>1, <1>2, <1>3, TasksStart DEF MarketInv
  <1>5. RowsTyped' /\ RestTyped'
    BY <1>1 DEF MarketInv, RowsTyped, RestTyped, Exists, OwnBlock, Times
  <1> QED
    BY <1>4, <1>5 DEF MarketInv

\* Handlers of one booking: what they check of its row is what LoadedBy says.
LEMMA OneLoaded ==
    ASSUME MarketInv, NEW p \in Workers, NEW op \in Busy \ {"create", "expire", "unlist"},
           NEW b \in Bookings, Exists(b), rows[b].status \in LoadedBy(op),
           NEW how, NEW pct \in 0..100,
           Start(p, op, [c \in {b} |-> rows[c]], how, pct, NoMeeting),
           op = "review" => how \in {"approved", "rejected"},
           op = "cancel" => \/ how \in {"customer", "operator"} /\ pct = 100
                            \/ /\ how = "customer" /\ pct = LateRefund
                               /\ rows[b].status = "confirmed",
           op = "turn_away" => how = "operator" /\ pct \in VenueRefunds,
           op = "submit" => rows[b].pay = "unpaid"
    PROVE  MarketInv'
  <1> DEFINE was == [c \in {b} |-> rows[c]]
             t == [at |-> op, was |-> was, now |-> now, how |-> how, pct |-> pct,
                   slot |-> NoMeeting]
  <1>1. DOMAIN was = {b} /\ was[b] = rows[b]
    OBVIOUS
  <1>2. /\ DOMAIN t = {"at", "was", "now", "how", "pct", "slot"}
        /\ t.at = op /\ t.was = was /\ t.now = now /\ t.how = how /\ t.pct = pct
    OBVIOUS
  <1>3. rows[b] \in Row /\ OwnBlock(b, rows[b])
    BY RowThere DEF MarketInv, RowsTyped
  <1>4. Start(p, op, was, how, pct, NoMeeting)
    OBVIOUS
  <1> HIDE DEF was
  <1>5. LoadedRow(t, b, rows[b])
    BY <1>2, <1>3 DEF LoadedRow
  <1>6. now \in Times
    BY DEF MarketInv, RestTyped
  <1>7. TaskOf(t)
    BY <1>1, <1>2, <1>5, <1>6 DEF TaskOf
  <1> QED
    BY <1>1, <1>4, <1>7, HandlerStarts

LEMMA PercentOfNothing == 0 \in 0..100
  OBVIOUS

\* Handlers of every row of a query.
LEMMA ManyLoaded ==
    ASSUME MarketInv, NEW p \in Workers, NEW op \in {"expire", "unlist"}, NEW ids,
           \A b \in ids : b \in Bookings /\ Exists(b) /\ rows[b].status \in LoadedBy(op),
           Load(p, op, ids, "")
    PROVE  MarketInv'
  <1> DEFINE was == [b \in ids |-> rows[b]]
             t == [at |-> op, was |-> was, now |-> now, how |-> "", pct |-> 0, slot |-> NoMeeting]
  <1>1. DOMAIN was = ids /\ \A b \in ids : was[b] = rows[b]
    OBVIOUS
  <1>2. /\ DOMAIN t = {"at", "was", "now", "how", "pct", "slot"}
        /\ t.at = op /\ t.was = was /\ t.now = now /\ t.how = "" /\ t.pct = 0
    OBVIOUS
  <1>3. \A b \in ids : rows[b] \in Row /\ OwnBlock(b, rows[b])
    BY RowThere DEF MarketInv, RowsTyped
  <1>4. Start(p, op, was, "", 0, NoMeeting)
    BY DEF Load
  <1> HIDE DEF was
  <1>5. \A b \in ids : LoadedRow(t, b, rows[b])
    BY <1>2, <1>3 DEF LoadedRow
  <1>6. now \in Times
    BY DEF MarketInv, RestTyped
  <1> HIDE DEF t
  <1>9. t.pct \in 0..100
    <2>1. t.pct = 0
      BY <1>2
    <2> QED
      BY <2>1, PercentOfNothing
  <1>7. t.at \in Busy /\ t.at # "create" /\ t.at \in {"expire", "unlist"}
    <2>1. op \in Busy /\ op # "create"
      BY DEF Busy
    <2> QED
      BY <1>2, <2>1
  <1>8. TaskOf(t)
    BY <1>1, <1>2, <1>5, <1>6, <1>7, <1>9 DEF TaskOf
  <1> QED
    BY <1>1, <1>2, <1>4, <1>8, HandlerStarts DEF t

LEMMA CustomerStarts ==
    ASSUME MarketInv, NEW p \in Procs, Customer(p)
    PROVE  MarketInv'
  <1>1. p \in Workers
    BY DEF Workers
  <1>2. ASSUME NEW b \in Bookings, NEW s \in Offered, NEW m \in {"venue", "upi"},
               CreateLoad(p, b, s, m)
        PROVE  MarketInv'
    <2> DEFINE was == [c \in {b} |-> NoRow]
               t == [at |-> "create", was |-> was, now |-> now, how |-> m, pct |-> 0, slot |-> s]
    <2>1. DOMAIN was = {b} /\ was[b] = NoRow
      OBVIOUS
    <2>2. /\ DOMAIN t = {"at", "was", "now", "how", "pct", "slot"}
          /\ t.at = "create" /\ t.was = was /\ t.now = now /\ t.how = m /\ t.pct = 0 /\ t.slot = s
      OBVIOUS
    <2>3. Start(p, "create", was, m, 0, s)
      BY <1>2 DEF CreateLoad
    <2> HIDE DEF was
    <2>4. TaskOf(t)
      BY <2>1, <2>2 DEF TaskOf, Busy, Methods, MarketInv, RestTyped
    <2> QED
      BY <1>1, <2>3, <2>4, HandlerStarts
  <1>3. ASSUME NEW b \in Bookings, SubmitLoad(p, b)
        PROVE  MarketInv'
    <2>1. /\ Exists(b) /\ rows[b].status \in LoadedBy("submit") /\ rows[b].pay = "unpaid"
          /\ Start(p, "submit", [c \in {b} |-> rows[c]], "", 0, NoMeeting)
      BY <1>3 DEF SubmitLoad, Load, LoadedBy
    <2>2. "submit" \in Busy \ {"create", "expire", "unlist"} /\ 0 \in 0..100
      BY DEF Busy
    <2> QED
      BY <1>1, <2>1, <2>2, OneLoaded
  <1>4. ASSUME NEW b \in Bookings, UploadLoad(p, b)
        PROVE  MarketInv'
    <2>1. /\ Exists(b) /\ rows[b].status \in LoadedBy("upload")
          /\ Start(p, "upload", [c \in {b} |-> rows[c]], "", 0, NoMeeting)
      BY <1>4 DEF UploadLoad, Load, LoadedBy
    <2>2. "upload" \in Busy \ {"create", "expire", "unlist"} /\ 0 \in 0..100
      BY DEF Busy
    <2> QED
      BY <1>1, <2>1, <2>2, OneLoaded
  <1>5. ASSUME NEW b \in Bookings, NEW by \in {"customer", "operator"}, CancelLoad(p, b, by)
        PROVE  MarketInv'
    <2> DEFINE pct == RefundPct(rows[b], by, now)
    <2>1. /\ pct \in 0..100
          /\ \/ by \in {"customer", "operator"} /\ pct = 100
             \/ by = "customer" /\ pct = LateRefund /\ rows[b].status = "confirmed"
      BY Percentages DEF RefundPct
    <2>2. /\ Exists(b) /\ rows[b].status \in LoadedBy("cancel")
          /\ Start(p, "cancel", [c \in {b} |-> rows[b]], by, pct, NoMeeting)
      BY <1>5 DEF CancelLoad, LoadedBy
    <2>3. [c \in {b} |-> rows[b]] = [c \in {b} |-> rows[c]]
      OBVIOUS
    <2> HIDE DEF pct
    <2> QED
      BY <1>1, <2>1, <2>2, <2>3, OneLoaded DEF Busy
  <1> QED
    BY <1>2, <1>3, <1>4, <1>5 DEF Customer

LEMMA OperatorStarts ==
    ASSUME MarketInv, NEW p \in Procs, Operator(p)
    PROVE  MarketInv'
  <1>1. p \in Workers
    BY DEF Workers
  <1>2. ASSUME NEW b \in Bookings, NEW op \in {"approve", "decline", "confirm", "check_in",
                                               "no_show", "complete"},
               Exists(b), rows[b].status \in LoadedBy(op), Load(p, op, {b}, "")
        PROVE  MarketInv'
    <2>1. Start(p, op, [c \in {b} |-> rows[c]], "", 0, NoMeeting)
      BY <1>2 DEF Load
    <2>2. op \in Busy \ {"create", "expire", "unlist"}
      BY DEF Busy
    <2>3. op \notin {"review", "cancel", "turn_away", "submit"} /\ 0 \in 0..100
      OBVIOUS
    <2> QED
      BY <1>1, <1>2, <2>1, <2>2, <2>3, OneLoaded
  <1>3. ASSUME NEW b \in Bookings,
               \/ ApproveLoad(p, b) \/ DeclineLoad(p, b) \/ ConfirmLoad(p, b)
               \/ CheckInLoad(p, b) \/ NoShowLoad(p, b) \/ CompleteLoad(p, b)
        PROVE  MarketInv'
    BY <1>2, <1>3 DEF ApproveLoad, DeclineLoad, ConfirmLoad, CheckInLoad, NoShowLoad,
                      CompleteLoad, LoadedBy
  <1>4. ASSUME NEW b \in Bookings, NEW v \in {"approved", "rejected"}, ReviewLoad(p, b, v)
        PROVE  MarketInv'
    <2>1. Exists(b) /\ Start(p, "review", [c \in {b} |-> rows[c]], v, 0, NoMeeting)
      BY <1>4 DEF ReviewLoad, Load
    <2>2. rows[b].status \in LoadedBy("review")
      BY <2>1, RowThere DEF MarketInv, Row, LoadedBy
    <2> QED
      BY <1>1, <2>1, <2>2, OneLoaded DEF Busy
  <1>5. ASSUME NEW b \in Bookings, NEW pct \in VenueRefunds, TurnAwayLoad(p, b, pct)
        PROVE  MarketInv'
    <2>1. /\ Exists(b) /\ rows[b].status \in LoadedBy("turn_away")
          /\ Start(p, "turn_away", [c \in {b} |-> rows[b]], "operator", pct, NoMeeting)
      BY <1>5 DEF TurnAwayLoad, LoadedBy
    <2>2. [c \in {b} |-> rows[b]] = [c \in {b} |-> rows[c]]
      OBVIOUS
    <2>3. pct \in 0..100
      BY Percentages
    <2> QED
      BY <1>1, <2>1, <2>2, <2>3, OneLoaded DEF Busy
  <1>6. ASSUME NEW b \in Bookings, CancelLoad(p, b, "operator")
        PROVE  MarketInv'
    <2> DEFINE pct == RefundPct(rows[b], "operator", now)
    <2>1. pct \in 0..100 /\ pct = 100
      BY DEF RefundPct
    <2>2. /\ Exists(b) /\ rows[b].status \in LoadedBy("cancel")
          /\ Start(p, "cancel", [c \in {b} |-> rows[b]], "operator", pct, NoMeeting)
      BY <1>6 DEF CancelLoad, LoadedBy
    <2>3. [c \in {b} |-> rows[b]] = [c \in {b} |-> rows[c]]
      OBVIOUS
    <2> HIDE DEF pct
    <2> QED
      BY <1>1, <2>1, <2>2, <2>3, OneLoaded DEF Busy
  <1>7. ASSUME UnlistLoad(p)
        PROVE  MarketInv'
    <2> DEFINE ids == {b \in Bookings : Exists(b) /\ rows[b].status = "requested"}
    <2>1. \A b \in ids : b \in Bookings /\ Exists(b) /\ rows[b].status \in LoadedBy("unlist")
      BY DEF LoadedBy
    <2>2. Load(p, "unlist", ids, "")
      BY <1>7 DEF UnlistLoad
    <2> HIDE DEF ids
    <2> QED
      BY <1>1, <2>1, <2>2, ManyLoaded
  <1> QED
    BY <1>3, <1>4, <1>5, <1>6, <1>7 DEF Operator

LEMMA JobStarts ==
    ASSUME MarketInv, NEW p \in Crons, ExpireLoad(p)
    PROVE  MarketInv'
  <1> DEFINE ids == {b \in Bookings : Overdue(b)}
  <1>1. \A b \in ids : b \in Bookings /\ Exists(b) /\ rows[b].status \in LoadedBy("expire")
    BY DEF Overdue, OpenHolds, LoadedBy
  <1>2. Load(p, "expire", ids, "")
    BY DEF ExpireLoad
  <1> HIDE DEF ids
  <1> QED
    BY <1>1, <1>2, ManyLoaded DEF Workers

LEMMA BlockLifted ==
    ASSUME MarketInv, NEW k \in Block, LiftBlock(k)
    PROVE  MarketInv' /\ SlotsStay
  <1> DEFINE new(b) == IF Exists(b) /\ rows[b].block = k THEN [rows[b] EXCEPT !.block = NoBlock]
                       ELSE rows[b]
  <1>1. rows' = [b \in Bookings |-> new(b)]
    BY DEF LiftBlock
  <1>2. ASSUME NEW b \in Bookings
        PROVE  /\ new(b) \in Row \union {NoRow}
               /\ new(b) # NoRow => OwnBlock(b, new(b)) /\ Exists(b)
               /\ Exists(b) => new(b) # NoRow /\ new(b).slot = rows[b].slot
    <2>1. CASE Exists(b) /\ rows[b].block = k
      <3>1. rows[b] \in Row
        BY <2>1, RowThere DEF MarketInv
      <3>2. new(b) = [rows[b] EXCEPT !.block = NoBlock]
        BY <2>1
      <3>3. new(b) \in Row /\ new(b).slot = rows[b].slot /\ new(b).block = NoBlock
        BY <3>1, <3>2 DEF Row
      <3> HIDE DEF new
      <3> QED
        BY <2>1, <3>3, NoRowIsNoRow DEF OwnBlock
    <2>2. CASE ~(Exists(b) /\ rows[b].block = k)
      <3>1. new(b) = rows[b]
        BY <2>2
      <3> HIDE DEF new
      <3> QED
        BY <3>1 DEF MarketInv, RowsTyped, Exists
    <2> QED
      BY <2>1, <2>2
  <1> HIDE DEF new
  <1>3. \A b \in Bookings : rows'[b] = new(b)
    BY <1>1
  <1>4. SlotsStay
    BY <1>2, <1>3 DEF SlotsStay
  <1>5. Tasks'
    BY <1>4, TasksKeep DEF MarketInv, LiftBlock
  <1>6. rows' \in [Bookings -> Row \union {NoRow}]
    BY <1>1, <1>2
  <1>7. \A b \in Bookings : rows'[b] # NoRow => OwnBlock(b, rows'[b])
    BY <1>2, <1>3
  <1>8. blocks' \subseteq blocks
    BY DEF LiftBlock
  <1>9. \A c \in blocks' : c \in Block /\ rows'[c[1]] # NoRow
    <2> TAKE c \in blocks'
    <2>1. c \in Block /\ c[1] \in Bookings /\ Exists(c[1])
      BY <1>8 DEF MarketInv, RowsTyped, Block
    <2> QED
      BY <1>4, <2>1 DEF SlotsStay
  <1>10. RowsTyped'
    BY <1>6, <1>7, <1>9 DEF RowsTyped, Exists, OwnBlock
  <1>11. lifted' \subseteq Bookings
    BY DEF LiftBlock, MarketInv, RestTyped, Block
  <1>12. RestTyped'
    BY <1>11 DEF LiftBlock, MarketInv, RestTyped, Times
  <1> QED
    BY <1>4, <1>5, <1>10, <1>12 DEF MarketInv

LEMMA RowsUntouched ==
    ASSUME MarketInv, UNCHANGED <<rows, blocks, task>>
    PROVE  Tasks' /\ RowsTyped'
  <1>1. SlotsStay
    BY DEF SlotsStay, Exists
  <1> QED
    BY <1>1, TasksKeep DEF MarketInv, RowsTyped, Exists, OwnBlock

LEMMA CalendarStep == MarketInv /\ Calendar => MarketInv'
  <1> SUFFICES ASSUME MarketInv, Calendar PROVE MarketInv'
    OBVIOUS
  <1>1. ASSUME NEW m \in Meetings, NEW s \in Offered, BookMeeting(m, s) PROVE MarketInv'
    <2>1. RestTyped'
      BY <1>1 DEF BookMeeting, MarketInv, RestTyped, Times
    <2> QED
      BY <1>1, <2>1, RowsUntouched DEF BookMeeting, MarketInv
  <1>2. ASSUME NEW m \in Meetings, CancelMeeting(m) PROVE MarketInv'
    <2>1. RestTyped'
      BY <1>2 DEF CancelMeeting, MarketInv, RestTyped, Times
    <2> QED
      BY <1>2, <2>1, RowsUntouched DEF CancelMeeting, MarketInv
  <1>3. ASSUME NEW status \in Switches, SetListing(status) PROVE MarketInv'
    <2>1. RestTyped'
      BY <1>3, RowsAndStatuses DEF SetListing, MarketInv, RestTyped, Times
    <2> QED
      BY <1>3, <2>1, RowsUntouched DEF SetListing, MarketInv
  <1> QED
    BY <1>1, <1>2, <1>3, BlockLifted DEF Calendar

LEMMA MarketStep == MarketInv /\ [Next]_vars => MarketInv'
  <1> SUFFICES ASSUME MarketInv, [Next]_vars PROVE MarketInv'
    OBVIOUS
  <1>1. CASE Tick
    <2>1. RestTyped'
      BY <1>1, WindowsAreNaturals DEF Tick, MarketInv, RestTyped, Times
    <2> QED
      BY <1>1, <2>1, RowsUntouched DEF Tick, MarketInv
  <1>2. CASE Calendar
    BY <1>2, CalendarStep
  <1>3. ASSUME NEW p \in Procs, Customer(p) \/ Operator(p) PROVE MarketInv'
    BY <1>3, CustomerStarts, OperatorStarts
  <1>4. ASSUME NEW p \in Procs, Commit(p) PROVE MarketInv'
    BY <1>4, CreateStep, ApproveStep, ChangeStep, ConfirmStep, CancelStep, UnlistStep DEF Commit
  <1>5. ASSUME NEW p \in Crons, Job(p) PROVE MarketInv'
    BY <1>5, JobStarts, ExpireStep DEF Job
  <1>6. ASSUME NEW p \in Workers, Fail(p) PROVE MarketInv'
    <2>1. SlotsStay
      BY <1>6 DEF Fail, SlotsStay, Exists
    <2>2. Tasks'
      BY <1>6, <2>1, TasksEnd DEF Fail, MarketInv
    <2>3. RowsTyped' /\ RestTyped'
      BY <1>6 DEF Fail, MarketInv, RowsTyped, RestTyped, Exists, OwnBlock, Times
    <2> QED
      BY <2>2, <2>3 DEF MarketInv
  <1>7. CASE UNCHANGED vars
    <2>1. RestTyped'
      BY <1>7 DEF vars, MarketInv, RestTyped, Times
    <2> QED
      BY <1>7, <2>1, RowsUntouched DEF vars, MarketInv
  <1> QED
    BY <1>1, <1>2, <1>3, <1>4, <1>5, <1>6, <1>7 DEF Next

LEMMA MarketTyped == MarketInv => TypeOK
  <1> SUFFICES ASSUME MarketInv PROVE TypeOK
    OBVIOUS
  <1>1. ASSUME NEW p \in Workers, task[p] # Idle
        PROVE  /\ DOMAIN task[p] = {"at", "was", "now", "how", "pct", "slot"}
               /\ task[p].at \in Busy /\ task[p].now \in Times /\ task[p].pct \in 0..100
               /\ Loaded(p) \subseteq Bookings
               /\ \A b \in Loaded(p) : Was(p, b) \in Row \union {NoRow}
    <2>1. TaskOf(task[p])
      BY <1>1 DEF MarketInv, Tasks
    <2> QED
      BY <2>1 DEF TaskOf, Loaded, Was, LoadedRow
  <1> QED
    BY <1>1 DEF MarketInv, RowsTyped, RestTyped, TypeOK
-----------------------------------------------------------------------------
(* The calendar of the room *)

MeetingClaim(m) == [who |-> m, room |-> "room", from |-> meetings[m][1], to |-> meetings[m][2]]
BlockClaim(k) ==
    [who |-> k[1], room |-> "room", from |-> rows[k[1]].slot[1], to |-> rows[k[1]].slot[2]]

Met == {m \in Meetings : meetings[m] # NoMeeting}

LEMMA OccupantsAre ==
    RoomOccupants = {MeetingClaim(m) : m \in Met} \union {BlockClaim(k) : k \in blocks}
  BY DEF RoomOccupants, MeetingClaim, BlockClaim, Met

\* A stretch that meets no other, of somebody who has none, is taken.
LEMMA Taken ==
    ASSUME MarketInv, NEW who \in Meetings \union Bookings, NEW s \in Offered, NEW c,
           c = [who |-> who, room |-> "room", from |-> s[1], to |-> s[2]],
           \A m \in Met : m # who /\ ~Meets(meetings[m], s),
           \A k \in blocks : k[1] # who /\ ~Meets(rows[k[1]].slot, s),
           RoomOccupants' = RoomOccupants \union {c}
    PROVE  Calendars!Next
  <1>1. c \in Calendars!Claim
    BY DEF Calendars!Claim, Ends
  <1>2. c.who = who /\ c.from = s[1] /\ c.to = s[2] /\ c.room = "room"
    OBVIOUS
  <1>3. ASSUME NEW m \in Met
        PROVE  MeetingClaim(m).who # c.who /\ ~Calendars!Overlaps(c, MeetingClaim(m))
    BY <1>2 DEF MeetingClaim, Meets, Calendars!Overlaps
  <1>4. ASSUME NEW k \in blocks
        PROVE  BlockClaim(k).who # c.who /\ ~Calendars!Overlaps(c, BlockClaim(k))
    BY <1>2 DEF BlockClaim, Meets, Calendars!Overlaps
  <1>5. \A d \in RoomOccupants : d.who # c.who /\ ~Calendars!Overlaps(c, d)
    BY <1>3, <1>4, OccupantsAre
  <1>6. Calendars!Take(c)
    BY <1>5 DEF Calendars!Take
  <1> QED
    BY <1>1, <1>6 DEF Calendars!Next

\* Meetings that end and blocks that are lifted give their stretches back.
LEMMA GivenBack ==
    ASSUME RoomOccupants' \subseteq RoomOccupants
    PROVE  Calendars!Next
  <1> DEFINE gone == RoomOccupants \ RoomOccupants'
  <1>1. gone \in SUBSET RoomOccupants
    OBVIOUS
  <1>2. RoomOccupants' = RoomOccupants \ gone
    OBVIOUS
  <1> HIDE DEF gone
  <1>3. Calendars!GiveBack(gone)
    BY <1>2 DEF Calendars!GiveBack
  <1> QED
    BY <1>1, <1>3 DEF Calendars!Next

LEMMA FewerOccupants ==
    ASSUME MarketInv, SlotsStay, UNCHANGED meetings, blocks' \subseteq blocks
    PROVE  Calendars!Next
  <1>1. ASSUME NEW k \in blocks'
        PROVE  BlockClaim(k)' = BlockClaim(k)
    <2>1. k[1] \in Bookings /\ Exists(k[1])
      BY DEF MarketInv, RowsTyped, Block
    <2>2. rows'[k[1]].slot = rows[k[1]].slot
      BY <2>1 DEF SlotsStay
    <2> QED
      BY <2>2 DEF BlockClaim
  <1>2. {BlockClaim(k) : k \in blocks}' \subseteq {BlockClaim(k) : k \in blocks}
    BY <1>1
  <1>3. {MeetingClaim(m) : m \in Met}' = {MeetingClaim(m) : m \in Met}
    BY DEF MeetingClaim, Met
  <1>4. RoomOccupants' = {MeetingClaim(m) : m \in Met}' \union {BlockClaim(k) : k \in blocks}'
    BY DEF RoomOccupants, MeetingClaim, BlockClaim, Met
  <1> QED
    BY <1>2, <1>3, <1>4, OccupantsAre, GivenBack

\* One block more: its booking's stretch, which the booking may already have.
LEMMA OneBlockMore ==
    ASSUME MarketInv, SlotsStay, UNCHANGED meetings, NEW k \in Block,
           blocks' = blocks \union {k}, rows'[k[1]] # NoRow
    PROVE  RoomOccupants' = RoomOccupants \union {BlockClaim(k)'}
  <1>1. ASSUME NEW j \in blocks
        PROVE  BlockClaim(j)' = BlockClaim(j)
    <2>1. j[1] \in Bookings /\ Exists(j[1])
      BY DEF MarketInv, RowsTyped, Block
    <2>2. rows'[j[1]].slot = rows[j[1]].slot
      BY <2>1 DEF SlotsStay
    <2> QED
      BY <2>2 DEF BlockClaim
  <1>2. {BlockClaim(j) : j \in blocks}' = {BlockClaim(j) : j \in blocks} \union {BlockClaim(k)'}
    BY <1>1
  <1>3. {MeetingClaim(m) : m \in Met}' = {MeetingClaim(m) : m \in Met}
    BY DEF MeetingClaim, Met
  <1>4. RoomOccupants' = {MeetingClaim(m) : m \in Met}' \union {BlockClaim(j) : j \in blocks}'
    BY DEF RoomOccupants, MeetingClaim, BlockClaim, Met
  <1> QED
    BY <1>2, <1>3, <1>4, OccupantsAre

LEMMA NoBlockIsNone == NoBlock \notin Block
  BY DEF NoBlock, Block

\* What is common to create, at once, and approve: the room was free of all but the booking's own
\* block when the row was stored.
LEMMA BlockTaken ==
    ASSUME MarketInv, SlotsStay, UNCHANGED meetings, NEW b \in Bookings, NEW p \in Workers,
           NEW s \in Offered, NEW but,
           blocks' = blocks \union {<<b, p>>}, rows'[b] # NoRow, rows'[b].slot = s,
           RoomIsFree(s, but),
           \A k \in blocks : k[1] = b => rows[b].slot = s,
           but # NoBlock => but[1] = b
    PROVE  [Calendars!Next]_RoomOccupants
  <1> DEFINE k == <<b, p>>
             c == BlockClaim(k)'
  <1>1. k \in Block /\ k[1] = b
    BY DEF Block
  <1>2. RoomOccupants' = RoomOccupants \union {c}
    BY <1>1, OneBlockMore
  <1>3. c = [who |-> b, room |-> "room", from |-> s[1], to |-> s[2]]
    BY DEF BlockClaim
  <1>4. s[1] < s[2] /\ s[1] \in Nat /\ s[2] \in Nat
    BY SlotsAreStretches
  <1>5. \A j \in blocks : j[1] = b => j = but
    <2> SUFFICES ASSUME NEW j \in blocks, j[1] = b, j # but PROVE FALSE
      OBVIOUS
    <2>1. ~Meets(rows[j[1]].slot, s)
      BY DEF RoomIsFree
    <2>2. rows[j[1]].slot = s
      OBVIOUS
    <2> QED
      BY <1>4, <2>1, <2>2 DEF Meets
  <1>6. \A m \in Met : m # b /\ ~Meets(meetings[m], s)
    BY RowsAndStatuses DEF RoomIsFree, Met
  <1>7. CASE \E j \in blocks : j[1] = b
    <2>1. PICK j \in blocks : j[1] = b
      BY <1>7
    <2>2. BlockClaim(j) = c
      BY <1>3, <2>1 DEF BlockClaim
    <2>3. c \in RoomOccupants
      BY <2>1, <2>2, OccupantsAre
    <2> QED
      BY <1>2, <2>3
  <1>8. CASE \A j \in blocks : j[1] # b
    <2>1. \A j \in blocks : j # but
      <3>1. \A j \in blocks : j # NoBlock
        BY NoBlockIsNone DEF MarketInv, RowsTyped
      <3> QED
        BY <1>8, <3>1
    <2>2. \A j \in blocks : j[1] # b /\ ~Meets(rows[j[1]].slot, s)
      BY <1>8, <2>1 DEF RoomIsFree
    <2> HIDE DEF c
    <2> QED
      BY <1>2, <1>3, <1>6, <2>2, Taken
  <1> QED
    BY <1>7, <1>8

LEMMA CreateTakes ==
    ASSUME MarketInv, NEW p \in Procs, CreateCommit(p)
    PROVE  [Calendars!Next]_RoomOccupants
  <1> DEFINE t == task[p]
             wanted(b) == Requested(b, t.slot, t.how, t.now)
             new(b, mode) == IF mode = "instant" THEN Advanced(wanted(b), <<b, p>>, mode, t.now)
                             ELSE wanted(b)
  <1>1. p \in Workers /\ t.at = "create" /\ t.at \in Busy
    BY DEF CreateCommit, Busy, Workers
  <1>2. TaskOf(t)
    BY <1>1, BusyTask DEF MarketInv
  <1>3. /\ Loaded(p) \subseteq Bookings /\ t.now \in Times /\ t.slot \in Offered
        /\ t.how \in Methods
    BY <1>1, <1>2 DEF TaskOf, Loaded
  <1>4. PICK b \in Loaded(p), mode \in Approvals :
           /\ ~Exists(b) /\ HasCapacity(b, t.slot)
           /\ Store(p, [c \in {b} |-> new(b, mode)])
           /\ blocks' = IF mode = "instant" THEN blocks \union {<<b, p>>} ELSE blocks
    BY DEF CreateCommit
  <1>5. b \in Bookings /\ <<b, p>> \in Block /\ Loaded(p) = {b}
    <2>1. b \in Bookings /\ <<b, p>> \in Block
      BY <1>1, <1>3 DEF Block
    <2>2. \E c \in Bookings : Loaded(p) = {c}
      BY <1>1, <1>2 DEF TaskOf, Loaded
    <2> QED
      BY <1>4, <2>1, <2>2
  <1>6. wanted(b) \in Row /\ wanted(b).slot = t.slot
    BY <1>3, <1>5, RequestedRow
  <1>7. new(b, mode).slot = t.slot
    BY <1>3, <1>5, <1>6, AdvancedRow
  <1>8. rows' = [c \in Bookings |->
                   IF c \in Loaded(p) THEN Merged(rows[c], Was(p, c), [d \in {b} |-> new(b, mode)][c])
                   ELSE rows[c]]
    BY <1>4 DEF Store
  <1>9. rows'[b] = new(b, mode) /\ \A c \in Bookings \ {b} : rows'[c] = rows[c]
    BY <1>4, <1>5, <1>8 DEF Merged, Exists
  <1>10. rows'[b] # NoRow
    <2>1. wanted(b) # NoRow
      BY <1>6, NoRowIsNoRow
    <2>2. Advanced(wanted(b), <<b, p>>, mode, t.now) # NoRow
      BY <1>3, <1>5, <1>6, AdvancedRow, NoRowIsNoRow
    <2> QED
      BY <1>9, <2>1, <2>2
  <1>11. SlotsStay
    BY <1>4, <1>9 DEF SlotsStay, Exists
  <1>12. UNCHANGED meetings
    BY DEF CreateCommit
  <1> HIDE DEF new, wanted
  <1>13. CASE mode = "instant"
    <2>1. RoomIsFree(t.slot, NoBlock)
      BY <1>4 DEF HasCapacity
    <2>2. blocks' = blocks \union {<<b, p>>}
      BY <1>4, <1>13
    <2>3. \A k \in blocks : k[1] # b
      BY <1>4 DEF MarketInv, RowsTyped
    <2> QED
      BY <1>1, <1>3, <1>5, <1>7, <1>9, <1>10, <1>11, <1>12, <2>1, <2>2, <2>3, BlockTaken
  <1>14. CASE mode # "instant"
    BY <1>4, <1>11, <1>12, <1>14, FewerOccupants
  <1> QED
    BY <1>13, <1>14

LEMMA ApproveTakes ==
    ASSUME MarketInv, NEW p \in Procs, ApproveCommit(p)
    PROVE  [Calendars!Next]_RoomOccupants
  <1> DEFINE t == task[p]
             new(b, mode) == Advanced(Was(p, b), <<b, p>>, mode, t.now)
  <1>1. p \in Workers /\ t.at = "approve" /\ t.at \in Busy \ {"create"}
    BY DEF ApproveCommit, Busy, Workers
  <1>2. /\ TaskOf(t) /\ SlotStands(p) /\ Loaded(p) \subseteq Bookings /\ t.now \in Times
        /\ \A b \in Loaded(p) : Was(p, b) \in Row /\ Exists(b)
    BY <1>1, TaskAtWork
  <1>3. PICK b \in Loaded(p), mode \in Approvals :
           /\ HasCapacity(b, new(b, mode).slot)
           /\ Store(p, [c \in {b} |-> new(b, mode)])
           /\ blocks' = blocks \union {<<b, p>>}
    BY DEF ApproveCommit
  <1>4. b \in Bookings /\ <<b, p>> \in Block /\ Loaded(p) = {b}
    <2>1. b \in Bookings /\ <<b, p>> \in Block
      BY <1>1, <1>2 DEF Block
    <2>2. \E c \in Bookings : Loaded(p) = {c}
      BY <1>1, <1>2 DEF TaskOf, Loaded
    <2> QED
      BY <1>3, <2>1, <2>2
  <1>5. /\ new(b, mode) \in Row /\ new(b, mode).slot = Was(p, b).slot
        /\ new(b, mode).block = <<b, p>>
    BY <1>2, <1>4, AdvancedRow
  <1> DEFINE n == [c \in {b} |-> new(b, mode)]
             s == new(b, mode).slot
  <1>6. n[b] = new(b, mode) /\ Store(p, n)
    BY <1>3
  <1>7. s = rows[b].slot /\ s \in Offered
    BY <1>1, <1>2, <1>5 DEF SlotStands, Row
  <1> HIDE DEF n, new
  <1>8. FitFor(p, n)
    BY <1>1, <1>2, <1>4, <1>5, <1>6 DEF FitFor, OwnBlock
  <1>9. SlotsStay
    BY <1>1, <1>2, <1>6, <1>8, StoreKeeps DEF MarketInv
  <1>10. rows'[b] # NoRow /\ rows'[b].slot = s
    BY <1>2, <1>4, <1>7, <1>9 DEF SlotsStay
  <1>11. RoomIsFree(s, rows[b].block)
    BY <1>2, <1>3 DEF HasCapacity
  <1>12. rows[b].block # NoBlock => rows[b].block[1] = b
    BY <1>2, <1>4 DEF MarketInv, RowsTyped, OwnBlock
  <1>13. UNCHANGED meetings
    BY DEF ApproveCommit
  <1> HIDE DEF s
  <1> QED
    BY <1>1, <1>3, <1>4, <1>7, <1>9, <1>10, <1>11, <1>12, <1>13, BlockTaken

LEMMA CommitTakes ==
    ASSUME MarketInv, NEW p \in Procs, Commit(p)
    PROVE  [Calendars!Next]_RoomOccupants
  <1>1. p \in Workers
    BY DEF Workers
  <1>2. CASE CreateCommit(p)
    BY <1>2, CreateTakes
  <1>3. CASE ApproveCommit(p)
    BY <1>3, ApproveTakes
  <1>4. ASSUME NEW new, FitFor(p, new), Store(p, new), Loaded(p) \subseteq Bookings,
               UNCHANGED meetings, blocks' \subseteq blocks
        PROVE  Calendars!Next
    <2>1. SlotsStay
      BY <1>1, <1>4, StoreKeeps DEF MarketInv
    <2> QED
      BY <1>4, <2>1, FewerOccupants
  <1>5. CASE ChangeCommit(p)
    <2>1. /\ task[p].at \in {"decline", "submit", "check_in", "no_show", "complete", "upload",
                             "review"}
          /\ task[p].at \in Busy \ {"create"}
      BY <1>5 DEF ChangeCommit, Busy
    <2> DEFINE new == [b \in Loaded(p) |-> Changed(task[p].at, task[p].how, Was(p, b))]
    <2>2. /\ TaskOf(task[p]) /\ Loaded(p) \subseteq Bookings
          /\ \A b \in Loaded(p) : Was(p, b) \in Row /\ OwnBlock(b, Was(p, b))
      BY <1>1, <2>1, TaskAtWork
    <2>3. task[p].at = "review" => task[p].how \in {"approved", "rejected"}
      BY <2>2 DEF TaskOf
    <2>4. \A b \in Loaded(p) : new[b] \in Row /\ new[b].slot = Was(p, b).slot
                                 /\ new[b].block = Was(p, b).block
      BY <2>1, <2>2, <2>3, ChangedRow
    <2>5. Store(p, new) /\ UNCHANGED <<meetings, blocks>>
      BY <1>5 DEF ChangeCommit
    <2> HIDE DEF new
    <2>6. FitFor(p, new)
      BY <2>2, <2>4 DEF FitFor, OwnBlock
    <2> QED
      BY <1>4, <2>2, <2>5, <2>6
  <1>6. CASE ConfirmCommit(p)
    <2>1. task[p].at = "confirm" /\ task[p].at \in Busy \ {"create"}
      BY <1>6 DEF ConfirmCommit, Busy
    <2>2. /\ TaskOf(task[p]) /\ Loaded(p) \subseteq Bookings
          /\ \A b \in Loaded(p) : Was(p, b) \in Row /\ OwnBlock(b, Was(p, b))
      BY <1>1, <2>1, TaskAtWork
    <2>3. PICK b \in Loaded(p) :
             Store(p, [c \in {b} |-> [Was(p, c) EXCEPT !.status = "confirmed", !.pay = "paid",
                                                       !.due = Never]])
      BY <1>6 DEF ConfirmCommit
    <2>4. \E c \in Bookings : Loaded(p) = {c}
      BY <2>1, <2>2 DEF TaskOf, Loaded
    <2> DEFINE n == [c \in {b} |-> [Was(p, c) EXCEPT !.status = "confirmed", !.pay = "paid",
                                                     !.due = Never]]
    <2>5. /\ n[b] \in Row /\ n[b].slot = Was(p, b).slot /\ n[b].block = Was(p, b).block
      BY <2>2, ConfirmedRow
    <2>6. Store(p, n) /\ UNCHANGED <<meetings, blocks>>
      BY <1>6, <2>3 DEF ConfirmCommit
    <2> HIDE DEF n
    <2>7. FitFor(p, n)
      BY <2>2, <2>4, <2>5 DEF FitFor, OwnBlock
    <2> QED
      BY <1>4, <2>2, <2>6, <2>7
  <1>7. CASE CancelCommit(p)
    <2>1. task[p].at \in {"cancel", "turn_away"} /\ task[p].at \in Busy \ {"create"}
      BY <1>7 DEF CancelCommit, Busy
    <2>2. /\ TaskOf(task[p]) /\ Loaded(p) \subseteq Bookings
          /\ \A b \in Loaded(p) : Was(p, b) \in Row /\ OwnBlock(b, Was(p, b))
      BY <1>1, <2>1, TaskAtWork
    <2>3. PICK b \in Loaded(p) : Store(p, [c \in {b} |-> Cancelled(Was(p, c), task[p])])
      BY <1>7 DEF CancelCommit
    <2>4. \E c \in Bookings : Loaded(p) = {c}
      BY <2>1, <2>2 DEF TaskOf, Loaded
    <2>5. task[p].how \in {"customer", "operator"}
      BY <2>1, <2>2 DEF TaskOf
    <2> DEFINE n == [c \in {b} |-> Cancelled(Was(p, c), task[p])]
    <2>6. n[b] \in Row /\ n[b].slot = Was(p, b).slot /\ n[b].block = NoBlock
      BY <2>2, <2>5, CancelledRow
    <2>7. Store(p, n) /\ UNCHANGED meetings /\ blocks' \subseteq blocks
      BY <1>7, <2>3 DEF CancelCommit, Release
    <2> HIDE DEF n
    <2>8. FitFor(p, n)
      BY <2>2, <2>4, <2>6 DEF FitFor, OwnBlock
    <2> QED
      BY <1>4, <2>2, <2>7, <2>8
  <1>8. CASE UnlistCommit(p)
    <2>1. task[p].at = "unlist" /\ task[p].at \in Busy \ {"create"}
      BY <1>8 DEF UnlistCommit, Busy
    <2> DEFINE new == [b \in Loaded(p) |-> [Was(p, b) EXCEPT !.status = "declined", !.withdrawn = TRUE]]
    <2>2. /\ Loaded(p) \subseteq Bookings
          /\ \A b \in Loaded(p) : Was(p, b) \in Row /\ OwnBlock(b, Was(p, b))
      BY <1>1, <2>1, TaskAtWork
    <2>3. \A b \in Loaded(p) : new[b] \in Row /\ new[b].slot = Was(p, b).slot
                                 /\ new[b].block = Was(p, b).block
      BY <2>2, RefusedRow
    <2>4. Store(p, new) /\ UNCHANGED <<meetings, blocks>>
      BY <1>8 DEF UnlistCommit
    <2> HIDE DEF new
    <2>5. FitFor(p, new)
      BY <2>2, <2>3 DEF FitFor, OwnBlock
    <2> QED
      BY <1>4, <2>2, <2>4, <2>5
  <1> QED
    BY <1>2, <1>3, <1>5, <1>6, <1>7, <1>8 DEF Commit

LEMMA ExpiryGivesBack ==
    ASSUME MarketInv, NEW p \in Crons, ExpireCommit(p)
    PROVE  Calendars!Next
  <1> DEFINE new == [b \in Loaded(p) |->
                       Purged([Was(p, b) EXCEPT !.status = "expired", !.due = Never,
                                                !.block = NoBlock])]
  <1>1. task[p].at = "expire" /\ p \in Workers /\ task[p].at \in Busy \ {"create"}
    BY DEF ExpireCommit, Busy, Workers
  <1>2. /\ Loaded(p) \subseteq Bookings
        /\ \A b \in Loaded(p) : Was(p, b) \in Row /\ OwnBlock(b, Was(p, b))
    BY <1>1, TaskAtWork
  <1>3. \A b \in Loaded(p) : new[b] \in Row /\ new[b].slot = Was(p, b).slot
                               /\ new[b].block = NoBlock
    BY <1>2, ExpiredRow
  <1>4. Store(p, new) /\ UNCHANGED meetings /\ blocks' \subseteq blocks
    BY DEF ExpireCommit, Release
  <1> HIDE DEF new
  <1>5. FitFor(p, new)
    BY <1>2, <1>3 DEF FitFor, OwnBlock
  <1>6. SlotsStay
    BY <1>1, <1>2, <1>4, <1>5, StoreKeeps DEF MarketInv
  <1> QED
    BY <1>4, <1>6, FewerOccupants

LEMMA MeetingTakes ==
    ASSUME MarketInv, NEW m \in Meetings, NEW s \in Offered, BookMeeting(m, s)
    PROVE  Calendars!Next
  <1> DEFINE c == MeetingClaim(m)'
  <1>1. meetings[m] = NoMeeting /\ RoomIsFree(s, NoBlock) /\ UNCHANGED <<rows, blocks>>
    BY DEF BookMeeting
  <1>2. meetings' = [k \in Meetings |-> IF k = m THEN s ELSE meetings[k]]
    BY DEF BookMeeting, MarketInv, RestTyped
  <1>3. s # NoMeeting
    BY SlotsAreStretches DEF NoMeeting
  <1>4. c = [who |-> m, room |-> "room", from |-> s[1], to |-> s[2]]
    BY <1>2 DEF MeetingClaim
  <1>5. Met' = Met \union {m} /\ m \notin Met
    BY <1>1, <1>2, <1>3 DEF Met
  <1>6. \A k \in Met : MeetingClaim(k)' = MeetingClaim(k)
    BY <1>2, <1>5 DEF MeetingClaim, Met
  <1>7. {MeetingClaim(k) : k \in Met}' = {MeetingClaim(k) : k \in Met} \union {c}
    BY <1>5, <1>6
  <1>8. {BlockClaim(k) : k \in blocks}' = {BlockClaim(k) : k \in blocks}
    BY <1>1 DEF BlockClaim
  <1>9. RoomOccupants' = {MeetingClaim(k) : k \in Met}' \union {BlockClaim(k) : k \in blocks}'
    BY DEF RoomOccupants, MeetingClaim, BlockClaim, Met
  <1> HIDE DEF c
  <1>10. RoomOccupants' = RoomOccupants \union {c}
    BY <1>7, <1>8, <1>9, OccupantsAre
  <1>11. \A k \in Met : k # m /\ ~Meets(meetings[k], s)
    BY <1>1 DEF Met, RoomIsFree
  <1>12. \A k \in blocks : k[1] # m /\ ~Meets(rows[k[1]].slot, s)
    <2>1. \A k \in blocks : k # NoBlock /\ k[1] \in Bookings
      BY NoBlockIsNone DEF MarketInv, RowsTyped, Block
    <2> QED
      BY <1>1, <2>1, RowsAndStatuses DEF RoomIsFree
  <1> QED
    BY <1>4, <1>10, <1>11, <1>12, Taken

LEMMA RoomStep == MarketInv /\ [Next]_vars => [Calendars!Next]_RoomOccupants
  <1> SUFFICES ASSUME MarketInv, [Next]_vars PROVE [Calendars!Next]_RoomOccupants
    OBVIOUS
  <1>1. ASSUME UNCHANGED <<rows, blocks, meetings>> PROVE RoomOccupants' = RoomOccupants
    BY <1>1 DEF RoomOccupants
  <1>2. CASE Tick
    BY <1>1, <1>2 DEF Tick
  <1>3. CASE Calendar
    <2>1. ASSUME NEW m \in Meetings, CancelMeeting(m) PROVE Calendars!Next
      <3>1. /\ meetings' = [k \in Meetings |-> IF k = m THEN NoMeeting ELSE meetings[k]]
            /\ UNCHANGED <<rows, blocks>>
        BY <2>1 DEF CancelMeeting, MarketInv, RestTyped
      <3>2. Met' \subseteq Met /\ \A k \in Met' : MeetingClaim(k)' = MeetingClaim(k)
        BY <3>1 DEF Met, MeetingClaim
      <3>3. {MeetingClaim(k) : k \in Met}' \subseteq {MeetingClaim(k) : k \in Met}
        BY <3>2
      <3>4. {BlockClaim(k) : k \in blocks}' = {BlockClaim(k) : k \in blocks}
        BY <3>1 DEF BlockClaim
      <3>5. RoomOccupants' = {MeetingClaim(k) : k \in Met}' \union {BlockClaim(k) : k \in blocks}'
        BY DEF RoomOccupants, MeetingClaim, BlockClaim, Met
      <3> QED
        BY <3>3, <3>4, <3>5, OccupantsAre, GivenBack
    <2>2. ASSUME NEW k \in Block, LiftBlock(k) PROVE Calendars!Next
      <3>1. SlotsStay
        BY <2>2, BlockLifted
      <3> QED
        BY <2>2, <3>1, FewerOccupants DEF LiftBlock
    <2>3. ASSUME NEW status \in Switches, SetListing(status)
          PROVE  UNCHANGED <<rows, blocks, meetings>>
      BY <2>3 DEF SetListing
    <2> QED
      BY <1>1, <1>3, <2>1, <2>2, <2>3, MeetingTakes DEF Calendar
  <1>4. ASSUME NEW p \in Procs, Customer(p) \/ Operator(p)
        PROVE  UNCHANGED <<rows, blocks, meetings>>
    BY <1>4 DEF Customer, Operator, CreateLoad, SubmitLoad, UploadLoad, CancelLoad, ApproveLoad,
       DeclineLoad, ConfirmLoad, CheckInLoad, NoShowLoad, CompleteLoad, ReviewLoad, TurnAwayLoad,
       UnlistLoad, Load, Start
  <1>5. ASSUME NEW p \in Crons, Job(p) PROVE [Calendars!Next]_RoomOccupants
    <2>1. CASE ExpireLoad(p)
      BY <1>1, <2>1 DEF ExpireLoad, Load, Start
    <2> QED
      BY <1>5, <2>1, ExpiryGivesBack DEF Job
  <1>6. ASSUME NEW p \in Workers, Fail(p) PROVE UNCHANGED <<rows, blocks, meetings>>
    BY <1>6 DEF Fail
  <1>7. CASE UNCHANGED vars
    BY <1>1, <1>7 DEF vars
  <1> QED
    BY <1>1, <1>2, <1>3, <1>4, <1>5, <1>6, <1>7, CommitTakes DEF Next

LEMMA MarketKept == Spec => []MarketInv
  BY MarketInit, MarketStep, PTL DEF Spec

\* Members' meetings and outsiders' bookings never overlap in a room, whatever handlers overlap:
\* the checks that create_booking, approve and create_room_booking make under the room's row lock
\* (app/services/marketplace.py) make of both one calendar, which never double-books.
THEOREM MembersAndOutsidersShareOneRoom == Spec => NeverDoubleBooked
  <1>1. Init => Calendars!Init
    BY DEF Init, Calendars!Init, RoomOccupants
  <1> QED
    BY <1>1, MarketKept, RoomStep, PTL DEF Spec, NeverDoubleBooked, Calendars!Spec
-----------------------------------------------------------------------------
(* Handlers kept apart: what each booking keeps of its block, its commission and its photo ID.  One *)
(* handler works at a time, on rows that are as it loaded them, so that every step of a booking's   *)
(* life can be judged on its row, its block and its ledger entry alone.                             *)

Mine(b) == {k \in blocks : k[1] = b}

Single == \A p, q \in Workers : task[p] # Idle /\ task[q] # Idle => p = q
Fresh  == \A p \in Workers : task[p] # Idle => \A b \in Loaded(p) : Was(p, b) = rows[b]

BlockKept(b) ==
    LET status == rows[b].status IN
    /\ status \in {"none", "requested"} => Mine(b) = {} /\ b \notin lifted
    /\ status \in Occupying /\ b \in lifted => Mine(b) = {}
    /\ status \in Occupying /\ b \notin lifted => Mine(b) = {rows[b].block}
    /\ status \in Ended \ {"completed", "no_show"} => Mine(b) = {}

MoneyKept(b) ==
    LET r == rows[b] IN
    /\ r.status \in {"none", "requested", "held"} => ~ledger[b].accrued /\ Net(b) = 0
    /\ r.status \in {"requested", "held", "declined", "expired"} =>
          Net(b) = 0 /\ r.pay \in {"unpaid", "pending_verification"}
    /\ r.status \in {"confirmed", "checked_in", "completed", "no_show"} =>
          /\ Net(b) = Commission /\ ledger[b].accrued
          /\ r.pay \notin {"refunded", "part_refunded"}
          /\ r.pay = "paid" \/ r.method = "venue"
    /\ r.status \in {"cancelled_customer", "cancelled_operator"} =>
          /\ r.pay # "paid"
          /\ r.pay = "refunded" \/ ~ledger[b].accrued => Net(b) = 0
          /\ ledger[b].accrued => \E pct \in RefundsAt(r.status) :
                /\ IsShareLeft(Net(b), pct)
                /\ r.pay = "part_refunded" => pct # 100

ImageKept(b) ==
    Exists(b) /\ rows[b].image => rows[b].status \in Active \/ rows[b].withdrawn

BookingKept(b) == BlockKept(b) /\ MoneyKept(b) /\ ImageKept(b)

ApartInv == apart => Single /\ Fresh /\ \A b \in Bookings : BookingKept(b)

LEMMA ApartInit == Init => ApartInv
  <1> SUFFICES ASSUME Init PROVE ApartInv
    OBVIOUS
  <1>1. Single /\ Fresh
    BY DEF Init, Single, Fresh
  <1>2. ASSUME NEW b \in Bookings
        PROVE  BookingKept(b)
    <2>1. rows[b].status = "none" /\ ~Exists(b) /\ ~ledger[b].accrued /\ Net(b) = 0
      BY NoRowIsNoRow DEF Init, Exists, Net
    <2>2. Mine(b) = {} /\ b \notin lifted
      BY DEF Init, Mine
    <2> QED
      BY <2>1, <2>2 DEF BookingKept, BlockKept, MoneyKept, ImageKept, Occupying, Ended
  <1> QED
    BY <1>1, <1>2 DEF ApartInv

LEMMA BookingStays ==
    ASSUME NEW b \in Bookings, BookingKept(b), rows'[b] = rows[b], ledger'[b] = ledger[b],
           Mine(b)' = Mine(b), lifted' = lifted
    PROVE  BookingKept(b)'
  <1>1. BlockKept(b)'
    BY DEF BookingKept, BlockKept
  <1>2. MoneyKept(b)'
    BY DEF BookingKept, MoneyKept, Net
  <1>3. ImageKept(b)'
    BY DEF BookingKept, ImageKept, Exists
  <1> QED
    BY <1>1, <1>2, <1>3 DEF BookingKept

LEMMA AllIdle ==
    ASSUME Tasks, Single, NEW p \in Workers, task[p] # Idle, Done(p)
    PROVE  Single' /\ Fresh'
  <1>1. \A q \in Workers : task'[q] = Idle
    BY DEF Tasks, Single, Done
  <1> QED
    BY <1>1 DEF Single, Fresh

LEMMA FirstStarts ==
    ASSUME Tasks, apart, NEW p \in Workers, NEW op, NEW was, NEW how, NEW pct, NEW slot,
           Start(p, op, was, how, pct, slot), \A b \in DOMAIN was : was[b] = rows[b]
    PROVE  Single' /\ Fresh'
  <1> DEFINE t == [at |-> op, was |-> was, now |-> now, how |-> how, pct |-> pct, slot |-> slot]
  <1>1. task' = [task EXCEPT ![p] = t] /\ rows' = rows /\ \A q \in Workers : task[q] = Idle
    BY DEF Start, Alone
  <1>2. t.was = was
    OBVIOUS
  <1> HIDE DEF t
  <1>3. task'[p] = t /\ \A q \in Workers \ {p} : task'[q] = Idle
    BY <1>1 DEF Tasks
  <1>4. Single'
    BY <1>3 DEF Single
  <1>5. Fresh'
    BY <1>1, <1>2, <1>3 DEF Fresh, Loaded, Was
  <1> QED
    BY <1>4, <1>5

\* The rows after a handler's commit.
LEMMA ApartStore ==
    ASSUME MarketInv, Fresh, NEW p \in Workers, task[p] # Idle, Loaded(p) \subseteq Bookings,
           NEW new, FitFor(p, new), Store(p, new)
    PROVE  /\ \A b \in Loaded(p) : rows'[b] = new[b]
           /\ \A b \in Bookings \ Loaded(p) : rows'[b] = rows[b]
  BY StoreKeeps DEF MarketInv, Fresh

\* The blocks that a handler deletes are of the bookings it handles.
OwnReleased(p) == Release(p) /\ \A b \in Loaded(p) : OwnBlock(b, Was(p, b))

\* The block of a booking that is not handled.
LEMMA OthersBlocks ==
    ASSUME MarketInv, NEW p \in Workers, Loaded(p) \subseteq Bookings,
           NEW c \in Bookings \ Loaded(p),
           \/ blocks' = blocks \/ OwnReleased(p)
           \/ \E b \in Loaded(p) : blocks' = blocks \union {<<b, p>>}
    PROVE  Mine(c)' = Mine(c)
  <1>1. CASE blocks' = blocks
    BY <1>1 DEF Mine
  <1>2. CASE OwnReleased(p)
    <2>1. \A k \in blocks : k[1] = c => k \notin {Was(p, b).block : b \in Loaded(p)}
      <3> SUFFICES ASSUME NEW k \in blocks, k[1] = c, NEW b \in Loaded(p), k = Was(p, b).block
                   PROVE  FALSE
        OBVIOUS
      <3>1. k # NoBlock
        BY NoBlockIsNone DEF MarketInv, RowsTyped
      <3> QED
        BY <1>2, <3>1 DEF OwnBlock, OwnReleased
    <2> QED
      BY <1>2, <2>1 DEF OwnReleased, Release, Mine
  <1>3. CASE \E b \in Loaded(p) : blocks' = blocks \union {<<b, p>>}
    BY <1>3 DEF Mine
  <1> QED
    BY <1>1, <1>2, <1>3

\* A handler that leaves what it handled as it should be leaves everything so.
LEMMA ApartEnds ==
    ASSUME MarketInv, ApartInv, apart, NEW p \in Workers, task[p] # Idle,
           Loaded(p) \subseteq Bookings,
           NEW new, FitFor(p, new), Store(p, new), Done(p), UNCHANGED <<apart, lifted>>,
           \/ blocks' = blocks \/ OwnReleased(p)
           \/ \E b \in Loaded(p) : blocks' = blocks \union {<<b, p>>},
           \A c \in Bookings \ Loaded(p) : ledger'[c] = ledger[c],
           \A b \in Loaded(p) : BookingKept(b)'
    PROVE  ApartInv'
  <1>1. Single' /\ Fresh'
    BY AllIdle DEF MarketInv, ApartInv
  <1>2. ASSUME NEW c \in Bookings \ Loaded(p)
        PROVE  BookingKept(c)'
    <2>1. rows'[c] = rows[c]
      BY ApartStore DEF ApartInv
    <2>2. Mine(c)' = Mine(c)
      BY OthersBlocks
    <2> QED
      BY <2>1, <2>2, BookingStays DEF ApartInv
  <1> QED
    BY <1>1, <1>2 DEF ApartInv

LEMMA ChangeKeeps ==
    ASSUME MarketInv, ApartInv, apart, NEW p \in Procs, ChangeCommit(p)
    PROVE  ApartInv'
  <1> DEFINE op == task[p].at
             new == [b \in Loaded(p) |-> Changed(op, task[p].how, Was(p, b))]
  <1>1. /\ op \in {"decline", "submit", "check_in", "no_show", "complete", "upload", "review"}
        /\ p \in Workers /\ op \in Busy \ {"create"}
    BY DEF ChangeCommit, Busy, Workers
  <1>2. /\ TaskOf(task[p]) /\ Loaded(p) \subseteq Bookings
        /\ \A b \in Loaded(p) : /\ Was(p, b) \in Row /\ OwnBlock(b, Was(p, b)) /\ Exists(b)
                                /\ LoadedRow(task[p], b, Was(p, b))
    BY <1>1, TaskAtWork
  <1>3. task[p] # Idle
    BY <1>1, BusyTask DEF MarketInv
  <1>4. op = "review" => task[p].how \in {"approved", "rejected"}
    BY <1>2 DEF TaskOf
  <1>5. ASSUME NEW b \in Loaded(p)
        PROVE  LET n == new[b]
                   r == Was(p, b)
               IN  /\ n \in Row /\ n.slot = r.slot /\ n.block = r.block
                   /\ n.status = StatusAfter(op, r) /\ n.method = r.method
                   /\ n.pay = IF op = "submit" THEN "pending_verification" ELSE r.pay
                   /\ n.withdrawn = r.withdrawn
                   /\ op \in {"decline", "no_show", "complete"} => ~n.image
                   /\ op # "upload" /\ n.image => r.image
    BY <1>1, <1>2, <1>4, ChangedRow
  <1>6. Store(p, new) /\ Done(p) /\ UNCHANGED <<apart, lifted, blocks, ledger>>
    BY DEF ChangeCommit
  <1> HIDE DEF new
  <1>7. FitFor(p, new)
    BY <1>2, <1>5 DEF FitFor, OwnBlock
  <1>8. ASSUME NEW b \in Loaded(p)
        PROVE  BookingKept(b)'
    <2> DEFINE r == rows[b]
               n == rows'[b]
    <2>1. r = Was(p, b) /\ n = new[b] /\ b \in Bookings
      BY <1>1, <1>2, <1>3, <1>6, <1>7, ApartStore DEF ApartInv, Fresh
    <2>2. /\ n.block = r.block /\ n.status = StatusAfter(op, r) /\ n.method = r.method
          /\ n.pay = (IF op = "submit" THEN "pending_verification" ELSE r.pay)
          /\ n.withdrawn = r.withdrawn
          /\ op \in {"decline", "no_show", "complete"} => ~n.image
          /\ op # "upload" /\ n.image => r.image
      BY <1>5, <2>1
    <2>3. r.status \in LoadedBy(op) /\ (op = "submit" => r.pay = "unpaid")
      BY <1>2, <2>1 DEF LoadedRow
    <2>4. BookingKept(b) /\ Exists(b)
      BY <1>2, <2>1 DEF ApartInv
    <2>5. Mine(b)' = Mine(b)
      BY <1>6 DEF Mine
    <2>6. r.status \in Active \union Ended
      BY <1>2, <2>1 DEF Row
    <2>7. \/ op = "decline" /\ r.status = "requested" /\ n.status = "declined"
          \/ op = "submit" /\ r.status = "held" /\ n.status = r.status
          \/ op = "check_in" /\ r.status = "confirmed" /\ n.status = "checked_in"
          \/ op = "no_show" /\ r.status = "confirmed" /\ n.status = "no_show"
          \/ op = "complete" /\ r.status \in {"confirmed", "checked_in"} /\ n.status = "completed"
          \/ op = "upload" /\ r.status \in {"requested", "held", "confirmed"} /\ n.status = r.status
          \/ op = "review" /\ n.status = r.status
      BY <1>1, <2>2, <2>3 DEF StatusAfter, LoadedBy
    <2> HIDE DEF op
    <2>8. BlockKept(b)'
      BY <1>6, <2>2, <2>4, <2>5, <2>7 DEF BookingKept, BlockKept, Occupying, Ended
    <2>9. MoneyKept(b)'
      BY <1>6, <2>2, <2>3, <2>4, <2>7 DEF BookingKept, MoneyKept, Net
    <2>10. ImageKept(b)'
      BY <2>2, <2>4, <2>7 DEF BookingKept, ImageKept, Active, Occupying
    <2> QED
      BY <2>8, <2>9, <2>10 DEF BookingKept
  <1> QED
    BY <1>1, <1>2, <1>3, <1>6, <1>7, <1>8, ApartEnds

LEMMA ConfirmKeeps ==
    ASSUME MarketInv, ApartInv, apart, NEW p \in Procs, ConfirmCommit(p)
    PROVE  ApartInv'
  <1>1. task[p].at = "confirm" /\ p \in Workers /\ task[p].at \in Busy \ {"create"}
    BY DEF ConfirmCommit, Busy, Workers
  <1>2. /\ TaskOf(task[p]) /\ Loaded(p) \subseteq Bookings
        /\ \A b \in Loaded(p) : /\ Was(p, b) \in Row /\ OwnBlock(b, Was(p, b)) /\ Exists(b)
                                /\ LoadedRow(task[p], b, Was(p, b))
    BY <1>1, TaskAtWork
  <1>3. task[p] # Idle
    BY <1>1, BusyTask DEF MarketInv
  <1>4. PICK b \in Loaded(p) :
           /\ Store(p, [c \in {b} |-> [Was(p, c) EXCEPT !.status = "confirmed", !.pay = "paid",
                                                        !.due = Never]])
           /\ ledger' = Accrued(b)
    BY DEF ConfirmCommit
  <1>5. Loaded(p) = {b} /\ b \in Bookings
    <2>1. \E c \in Bookings : Loaded(p) = {c}
      BY <1>1, <1>2 DEF TaskOf, Loaded
    <2> QED
      BY <1>4, <2>1
  <1> DEFINE new == [c \in {b} |-> [Was(p, c) EXCEPT !.status = "confirmed", !.pay = "paid",
                                                     !.due = Never]]
  <1>6. /\ new[b] \in Row /\ new[b].slot = Was(p, b).slot /\ new[b].block = Was(p, b).block
        /\ new[b].status = "confirmed" /\ new[b].pay = "paid" /\ (new[b].image => Was(p, b).image)
    BY <1>2, ConfirmedRow
  <1>7. Store(p, new) /\ Done(p) /\ UNCHANGED <<apart, lifted, blocks>>
    BY <1>4 DEF ConfirmCommit
  <1> HIDE DEF new
  <1>8. FitFor(p, new)
    BY <1>2, <1>5, <1>6 DEF FitFor, OwnBlock
  <1>9. rows[b] = Was(p, b) /\ rows'[b] = new[b] /\ BookingKept(b)
    BY <1>1, <1>2, <1>3, <1>5, <1>7, <1>8, ApartStore DEF ApartInv, Fresh
  <1>10. rows[b].status = "held"
    BY <1>1, <1>2, <1>9 DEF LoadedRow, LoadedBy
  <1>11. Mine(b)' = Mine(b)
    BY <1>7 DEF Mine
  <1>12. BlockKept(b)'
    BY <1>6, <1>7, <1>9, <1>10, <1>11 DEF BookingKept, BlockKept, Occupying, Ended
  <1>13. /\ \A c \in Bookings \ {b} : ledger'[c] = ledger[c]
         /\ ledger'[b].net = Commission /\ ledger'[b].accrued
    <2>1. ~ledger[b].accrued /\ Net(b) = 0
      BY <1>9, <1>10 DEF BookingKept, MoneyKept
    <2> QED
      BY <1>4, <1>5, <2>1, LedgerAccrued DEF MarketInv, RestTyped, Ledgers
  <1>14. MoneyKept(b)'
    BY <1>6, <1>9, <1>13 DEF MoneyKept, Net
  <1>15. ImageKept(b)'
    BY <1>6, <1>9 DEF ImageKept, Active, Occupying
  <1>16. \A c \in Loaded(p) : BookingKept(c)'
    BY <1>5, <1>12, <1>14, <1>15 DEF BookingKept
  <1> QED
    BY <1>1, <1>2, <1>3, <1>5, <1>7, <1>8, <1>13, <1>16, ApartEnds DEF OwnReleased

LEMMA CancelKeeps ==
    ASSUME MarketInv, ApartInv, apart, NEW p \in Procs, CancelCommit(p)
    PROVE  ApartInv'
  <1> DEFINE t == task[p]
  <1>1. t.at \in {"cancel", "turn_away"} /\ p \in Workers /\ t.at \in Busy \ {"create"}
    BY DEF CancelCommit, Busy, Workers
  <1>2. /\ TaskOf(t) /\ Loaded(p) \subseteq Bookings /\ t.pct \in 0..100
        /\ \A b \in Loaded(p) : /\ Was(p, b) \in Row /\ OwnBlock(b, Was(p, b)) /\ Exists(b)
                                /\ LoadedRow(t, b, Was(p, b))
    BY <1>1, TaskAtWork
  <1>3. t # Idle
    BY <1>1, BusyTask DEF MarketInv
  <1>4. PICK b \in Loaded(p) :
           Store(p, [c \in {b} |-> Cancelled(Was(p, c), t)]) /\ ledger' = Reversed(b, t.pct)
    BY DEF CancelCommit
  <1>5. Loaded(p) = {b} /\ b \in Bookings
    <2>1. \E c \in Bookings : Loaded(p) = {c}
      BY <1>1, <1>2 DEF TaskOf, Loaded
    <2> QED
      BY <1>4, <2>1
  <1> DEFINE new == [c \in {b} |-> Cancelled(Was(p, c), t)]
  <1>6. /\ new[b] \in Row /\ new[b].slot = Was(p, b).slot /\ new[b].block = NoBlock
        /\ new[b].status \in {"cancelled_customer", "cancelled_operator"}
        /\ new[b].pay = Refunded(Was(p, b), t.pct) /\ ~new[b].image
    <2>1. t.how \in {"customer", "operator"}
      BY <1>1, <1>2 DEF TaskOf
    <2> QED
      BY <1>2, <2>1, CancelledRow
  <1>7. Store(p, new) /\ Done(p) /\ UNCHANGED <<apart, lifted>> /\ Release(p)
    BY <1>4 DEF CancelCommit
  <1> HIDE DEF new
  <1>8. FitFor(p, new)
    BY <1>2, <1>5, <1>6 DEF FitFor, OwnBlock
  <1>9. rows[b] = Was(p, b) /\ rows'[b] = new[b] /\ BookingKept(b)
    BY <1>1, <1>2, <1>3, <1>5, <1>7, <1>8, ApartStore DEF ApartInv, Fresh
  <1>10. rows[b].status \in Active \ {"checked_in"}
    BY <1>1, <1>2, <1>9 DEF LoadedRow, LoadedBy, Active, Occupying
  <1>11. Mine(b)' = {}
    <2>1. Mine(b) \subseteq {rows[b].block}
      BY <1>9, <1>10 DEF BookingKept, BlockKept, Active, Occupying
    <2>2. Mine(b)' = Mine(b) \ {rows[b].block}
      BY <1>5, <1>7, <1>9 DEF Release, Mine
    <2> QED
      BY <2>1, <2>2
  <1>12. BlockKept(b)'
    BY <1>6, <1>9, <1>11 DEF BlockKept, Occupying, Ended
  <1>13. /\ \A c \in Bookings \ {b} : ledger'[c] = ledger[c]
         /\ ledger'[b].accrued = ledger[b].accrued
         /\ t.pct = 100 \/ Net(b) = 0 => ledger'[b].net = 0
         /\ Net(b) = Commission => IsShareLeft(ledger'[b].net, t.pct)
    BY <1>2, <1>4, <1>5, LedgerReversed DEF MarketInv, RestTyped, Ledgers
  <1>14. MoneyKept(b)'
    <2>1. /\ rows'[b].pay = "refunded" => rows[b].pay = "paid" /\ t.pct = 100
          /\ rows'[b].pay = "part_refunded" => rows[b].pay = "paid" /\ t.pct # 100
          /\ rows'[b].pay # "paid"
      <3>1. rows[b].pay \notin {"refunded", "part_refunded"}
        BY <1>9, <1>10 DEF BookingKept, MoneyKept, Active, Occupying
      <3> QED
        BY <1>6, <1>9, <3>1 DEF Refunded
    <2>2. /\ rows[b].status \in {"requested", "held"} => ~ledger[b].accrued /\ Net(b) = 0
          /\ rows[b].status = "confirmed" => Net(b) = Commission
      BY <1>9 DEF BookingKept, MoneyKept
    <2>3. rows[b].status \in {"requested", "held", "confirmed"}
      BY <1>10 DEF Active, Occupying
    <2>4. rows'[b].pay = "refunded" \/ ~ledger'[b].accrued => ledger'[b].net = 0
      <3>1. ~ledger[b].accrued => Net(b) = 0
        BY <1>9, <2>2, <2>3 DEF BookingKept, MoneyKept
      <3> QED
        BY <1>13, <2>1, <3>1
    <2>5. t.pct \in RefundsAt(rows'[b].status)
      <3>1. rows'[b].status = IF t.how = "customer" THEN "cancelled_customer"
                              ELSE "cancelled_operator"
        BY <1>2, <1>5, <1>9 DEF new, Cancelled, Purged, Row
      <3> QED
        BY <1>1, <1>2, <3>1 DEF TaskOf, RefundsAt
    <2>6. ASSUME ledger'[b].accrued
          PROVE  \E pct \in RefundsAt(rows'[b].status) :
                    /\ IsShareLeft(ledger'[b].net, pct)
                    /\ rows'[b].pay = "part_refunded" => pct # 100
      BY <1>13, <2>1, <2>2, <2>3, <2>5, <2>6
    <2> QED
      BY <1>6, <1>9, <2>1, <2>4, <2>6 DEF MoneyKept, Net, IsShareLeft, RefundsAt
  <1>15. ImageKept(b)'
    BY <1>6, <1>9 DEF ImageKept
  <1>16. \A c \in Loaded(p) : BookingKept(c)'
    BY <1>5, <1>12, <1>14, <1>15 DEF BookingKept
  <1> QED
    BY <1>1, <1>2, <1>3, <1>5, <1>7, <1>8, <1>13, <1>16, ApartEnds DEF OwnReleased

LEMMA ExpireKeeps ==
    ASSUME MarketInv, ApartInv, apart, NEW p \in Crons, ExpireCommit(p)
    PROVE  ApartInv'
  <1> DEFINE new == [b \in Loaded(p) |->
                       Purged([Was(p, b) EXCEPT !.status = "expired", !.due = Never,
                                                !.block = NoBlock])]
  <1>1. task[p].at = "expire" /\ p \in Workers /\ task[p].at \in Busy \ {"create"}
    BY DEF ExpireCommit, Busy, Workers
  <1>2. /\ Loaded(p) \subseteq Bookings
        /\ \A b \in Loaded(p) : /\ Was(p, b) \in Row /\ OwnBlock(b, Was(p, b)) /\ Exists(b)
                                /\ LoadedRow(task[p], b, Was(p, b))
    BY <1>1, TaskAtWork
  <1>3. task[p] # Idle
    BY <1>1, BusyTask DEF MarketInv
  <1>4. \A b \in Loaded(p) :
           /\ new[b] \in Row /\ new[b].slot = Was(p, b).slot /\ new[b].block = NoBlock
           /\ new[b].status = "expired" /\ new[b].pay = Was(p, b).pay /\ ~new[b].image
    BY <1>2, ExpiredRow
  <1>5. Store(p, new) /\ Done(p) /\ UNCHANGED <<apart, lifted, ledger>> /\ Release(p)
    BY DEF ExpireCommit
  <1> HIDE DEF new
  <1>6. FitFor(p, new)
    BY <1>2, <1>4 DEF FitFor, OwnBlock
  <1>7. ASSUME NEW b \in Loaded(p)
        PROVE  BookingKept(b)'
    <2>1. rows[b] = Was(p, b) /\ rows'[b] = new[b] /\ BookingKept(b) /\ b \in Bookings
      BY <1>1, <1>2, <1>3, <1>5, <1>6, ApartStore DEF ApartInv, Fresh
    <2>2. rows[b].status \in {"requested", "held"}
      BY <1>1, <1>2, <2>1 DEF LoadedRow, LoadedBy
    <2>3. Mine(b)' = {}
      <3>1. Mine(b) \subseteq {rows[b].block}
        BY <2>1, <2>2 DEF BookingKept, BlockKept, Occupying
      <3>2. \A k \in Mine(b)' : k \in Mine(b) /\ k # Was(p, b).block
        BY <1>5 DEF Release, Mine
      <3> QED
        BY <2>1, <3>1, <3>2
    <2>4. BlockKept(b)'
      BY <1>4, <2>1, <2>3 DEF BlockKept, Occupying, Ended
    <2>5. MoneyKept(b)'
      BY <1>4, <1>5, <2>1, <2>2 DEF BookingKept, MoneyKept, Net
    <2>6. ImageKept(b)'
      BY <1>4, <2>1 DEF ImageKept
    <2> QED
      BY <2>4, <2>5, <2>6 DEF BookingKept
  <1> QED
    BY <1>1, <1>2, <1>3, <1>5, <1>6, <1>7, ApartEnds DEF OwnReleased

LEMMA UnlistKeeps ==
    ASSUME MarketInv, ApartInv, apart, NEW p \in Procs, UnlistCommit(p)
    PROVE  ApartInv'
  <1> DEFINE new == [b \in Loaded(p) |-> [Was(p, b) EXCEPT !.status = "declined", !.withdrawn = TRUE]]
  <1>1. task[p].at = "unlist" /\ p \in Workers /\ task[p].at \in Busy \ {"create"}
    BY DEF UnlistCommit, Busy, Workers
  <1>2. /\ Loaded(p) \subseteq Bookings
        /\ \A b \in Loaded(p) : /\ Was(p, b) \in Row /\ OwnBlock(b, Was(p, b)) /\ Exists(b)
                                /\ LoadedRow(task[p], b, Was(p, b))
    BY <1>1, TaskAtWork
  <1>3. task[p] # Idle
    BY <1>1, BusyTask DEF MarketInv
  <1>4. \A b \in Loaded(p) :
           /\ new[b] \in Row /\ new[b].slot = Was(p, b).slot /\ new[b].block = Was(p, b).block
           /\ new[b].status = "declined" /\ new[b].pay = Was(p, b).pay /\ new[b].withdrawn
    BY <1>2, RefusedRow
  <1>5. Store(p, new) /\ Done(p) /\ UNCHANGED <<apart, lifted, ledger, blocks>>
    BY DEF UnlistCommit
  <1> HIDE DEF new
  <1>6. FitFor(p, new)
    BY <1>2, <1>4 DEF FitFor, OwnBlock
  <1>7. ASSUME NEW b \in Loaded(p)
        PROVE  BookingKept(b)'
    <2>1. rows[b] = Was(p, b) /\ rows'[b] = new[b] /\ BookingKept(b) /\ b \in Bookings
      BY <1>1, <1>2, <1>3, <1>5, <1>6, ApartStore DEF ApartInv, Fresh
    <2>2. rows[b].status = "requested"
      BY <1>1, <1>2, <2>1 DEF LoadedRow, LoadedBy
    <2>3. Mine(b)' = Mine(b)
      BY <1>5 DEF Mine
    <2>4. BlockKept(b)'
      BY <1>4, <1>5, <2>1, <2>2, <2>3 DEF BookingKept, BlockKept, Occupying, Ended
    <2>5. MoneyKept(b)'
      BY <1>4, <1>5, <2>1, <2>2 DEF BookingKept, MoneyKept, Net
    <2>6. ImageKept(b)'
      BY <1>4, <2>1 DEF ImageKept
    <2> QED
      BY <2>4, <2>5, <2>6 DEF BookingKept
  <1> QED
    BY <1>1, <1>2, <1>3, <1>5, <1>6, <1>7, ApartEnds

\* A row that is held or confirmed for the block it has just been given.
LEMMA AdvanceKept ==
    ASSUME MarketInv, NEW b \in Bookings, NEW k, NEW r,
           rows'[b] = r, Mine(b)' = {k}, b \notin lifted', r.block = k, ~r.image \/ ImageKept(b)',
           r.status = (IF r.method = "venue" THEN "confirmed" ELSE "held"),
           r.pay \in {"unpaid", "pending_verification"},
           ~ledger[b].accrued, Net(b) = 0, ledger' = AccruedIf(b, r)
    PROVE  BookingKept(b)'
  <1>1. BlockKept(b)'
    BY DEF BlockKept, Occupying, Ended
  <1>2. ImageKept(b)'
    BY DEF ImageKept
  <1>3. MoneyKept(b)'
    <2>1. CASE r.method = "venue"
      <3>1. ledger'[b].net = Commission /\ ledger'[b].accrued
        BY <2>1, LedgerAccrued DEF AccruedIf, MarketInv, RestTyped, Ledgers
      <3> QED
        BY <2>1, <3>1 DEF MoneyKept, Net
    <2>2. CASE r.method # "venue"
      <3>1. ledger' = ledger
        BY <2>2 DEF AccruedIf
      <3> QED
        BY <2>2, <3>1 DEF MoneyKept, Net
    <2> QED
      BY <2>1, <2>2
  <1> QED
    BY <1>1, <1>2, <1>3 DEF BookingKept

LEMMA CreateKeeps ==
    ASSUME MarketInv, ApartInv, apart, NEW p \in Procs, CreateCommit(p)
    PROVE  ApartInv'
  <1> DEFINE t == task[p]
             wanted(b) == Requested(b, t.slot, t.how, t.now)
             new(b, mode) == IF mode = "instant" THEN Advanced(wanted(b), <<b, p>>, mode, t.now)
                             ELSE wanted(b)
  <1>1. p \in Workers /\ t.at = "create" /\ t.at \in Busy
    BY DEF CreateCommit, Busy, Workers
  <1>2. TaskOf(t) /\ t # Idle
    BY <1>1, BusyTask DEF MarketInv
  <1>3. /\ Loaded(p) \subseteq Bookings /\ t.now \in Times /\ t.slot \in Offered
        /\ t.how \in Methods /\ \A b \in Loaded(p) : Was(p, b) = NoRow
    BY <1>1, <1>2 DEF TaskOf, Loaded, Was
  <1>4. PICK b \in Loaded(p), mode \in Approvals :
           /\ ~Exists(b)
           /\ Store(p, [c \in {b} |-> new(b, mode)])
           /\ blocks' = IF mode = "instant" THEN blocks \union {<<b, p>>} ELSE blocks
           /\ ledger' = AccruedIf(b, new(b, mode))
    BY DEF CreateCommit
  <1>5. b \in Bookings /\ <<b, p>> \in Block /\ Loaded(p) = {b}
    <2>1. b \in Bookings /\ <<b, p>> \in Block
      BY <1>1, <1>3 DEF Block
    <2>2. \E c \in Bookings : Loaded(p) = {c}
      BY <1>1, <1>2 DEF TaskOf, Loaded
    <2> QED
      BY <1>4, <2>1, <2>2
  <1>6. /\ wanted(b) \in Row /\ wanted(b).status = "requested" /\ wanted(b).pay = "unpaid"
        /\ wanted(b).block = NoBlock /\ ~wanted(b).image
    BY <1>3, <1>5, RequestedRow
  <1> DEFINE held == Advanced(wanted(b), <<b, p>>, mode, t.now)
  <1>7. /\ held \in Row /\ held.block = <<b, p>> /\ held.pay = "unpaid" /\ ~held.image
        /\ held.status = (IF held.method = "venue" THEN "confirmed" ELSE "held")
    BY <1>3, <1>5, <1>6, AdvancedRow
  <1>8. new(b, mode) = IF mode = "instant" THEN held ELSE wanted(b)
    OBVIOUS
  <1> DEFINE n == [c \in {b} |-> new(b, mode)]
  <1>9. n[b] = new(b, mode) /\ Store(p, n) /\ Done(p) /\ UNCHANGED <<apart, lifted>>
    BY <1>4 DEF CreateCommit
  <1> HIDE DEF new, wanted, held, n
  <1>10. new(b, mode) \in Row /\ OwnBlock(b, new(b, mode))
    BY <1>1, <1>6, <1>7, <1>8 DEF OwnBlock
  <1>11. FitFor(p, n)
    BY <1>4, <1>5, <1>9, <1>10 DEF FitFor
  <1>12. rows'[b] = new(b, mode)
    BY <1>1, <1>2, <1>3, <1>5, <1>9, <1>11, ApartStore DEF ApartInv
  <1>13. /\ Mine(b) = {} /\ b \notin lifted /\ ~ledger[b].accrued /\ Net(b) = 0
    BY <1>4, <1>5, NoRowIsNoRow DEF ApartInv, BookingKept, BlockKept, MoneyKept, Exists
  <1>14. CASE mode = "instant"
    <2>1. rows'[b] = held /\ ledger' = AccruedIf(b, held)
      BY <1>4, <1>8, <1>12, <1>14
    <2>2. Mine(b)' = {<<b, p>>}
      BY <1>4, <1>13, <1>14 DEF Mine
    <2>3. BookingKept(b)'
      BY <1>5, <1>7, <1>9, <1>13, <2>1, <2>2, AdvanceKept
    <2>4. \A c \in Bookings \ {b} : ledger'[c] = ledger[c]
      BY <1>5, <2>1, LedgerAccrued DEF AccruedIf, MarketInv, RestTyped, Ledgers
    <2>5. \E c \in Loaded(p) : blocks' = blocks \union {<<c, p>>}
      BY <1>4, <1>14
    <2> QED
      BY <1>1, <1>2, <1>3, <1>5, <1>9, <1>11, <2>3, <2>4, <2>5, ApartEnds
  <1>15. CASE mode # "instant"
    <2>1. rows'[b] = wanted(b) /\ ledger' = AccruedIf(b, wanted(b)) /\ blocks' = blocks
      BY <1>4, <1>8, <1>12, <1>15
    <2>2. ledger' = ledger
      BY <1>6, <2>1 DEF AccruedIf
    <2>3. Mine(b)' = {}
      BY <1>13, <2>1 DEF Mine
    <2>4. BlockKept(b)'
      BY <1>6, <1>9, <1>13, <2>1, <2>3 DEF BlockKept, Occupying, Ended
    <2>5. MoneyKept(b)'
      BY <1>6, <1>13, <2>1, <2>2 DEF MoneyKept, Net
    <2>6. ImageKept(b)'
      BY <1>6, <2>1 DEF ImageKept
    <2>7. \A c \in Loaded(p) : BookingKept(c)'
      BY <1>5, <2>4, <2>5, <2>6 DEF BookingKept
    <2> QED
      BY <1>1, <1>2, <1>3, <1>9, <1>11, <2>1, <2>2, <2>7, ApartEnds
  <1> QED
    BY <1>14, <1>15

LEMMA ApproveKeeps ==
    ASSUME MarketInv, ApartInv, apart, NEW p \in Procs, ApproveCommit(p)
    PROVE  ApartInv'
  <1> DEFINE t == task[p]
             new(b, mode) == Advanced(Was(p, b), <<b, p>>, mode, t.now)
  <1>1. p \in Workers /\ t.at = "approve" /\ t.at \in Busy \ {"create"}
    BY DEF ApproveCommit, Busy, Workers
  <1>2. /\ TaskOf(t) /\ Loaded(p) \subseteq Bookings /\ t.now \in Times
        /\ \A b \in Loaded(p) : /\ Was(p, b) \in Row /\ OwnBlock(b, Was(p, b)) /\ Exists(b)
                                /\ LoadedRow(t, b, Was(p, b))
    BY <1>1, TaskAtWork
  <1>3. t # Idle
    BY <1>1, BusyTask DEF MarketInv
  <1>4. PICK b \in Loaded(p), mode \in Approvals :
           /\ Store(p, [c \in {b} |-> new(b, mode)])
           /\ blocks' = blocks \union {<<b, p>>}
           /\ ledger' = AccruedIf(b, new(b, mode))
    BY DEF ApproveCommit
  <1>5. b \in Bookings /\ <<b, p>> \in Block /\ Loaded(p) = {b}
    <2>1. b \in Bookings /\ <<b, p>> \in Block
      BY <1>1, <1>2 DEF Block
    <2>2. \E c \in Bookings : Loaded(p) = {c}
      BY <1>1, <1>2 DEF TaskOf, Loaded
    <2> QED
      BY <1>4, <2>1, <2>2
  <1> DEFINE held == new(b, mode)
  <1>6. /\ held \in Row /\ held.slot = Was(p, b).slot /\ held.block = <<b, p>>
        /\ held.status = (IF held.method = "venue" THEN "confirmed" ELSE "held")
        /\ held.pay = Was(p, b).pay
    BY <1>2, <1>5, AdvancedRow
  <1> DEFINE n == [c \in {b} |-> new(b, mode)]
  <1>7. n[b] = held /\ Store(p, n) /\ Done(p) /\ UNCHANGED <<apart, lifted>>
          /\ ledger' = AccruedIf(b, held)
    BY <1>4 DEF ApproveCommit
  <1> HIDE DEF new, n, held
  <1>8. FitFor(p, n)
    BY <1>1, <1>2, <1>5, <1>6, <1>7 DEF FitFor, OwnBlock
  <1>9. rows[b] = Was(p, b) /\ rows'[b] = held /\ BookingKept(b)
    BY <1>1, <1>2, <1>3, <1>5, <1>7, <1>8, ApartStore DEF ApartInv, Fresh
  <1>10. rows[b].status = "requested"
    BY <1>1, <1>2, <1>4, <1>9 DEF LoadedRow, LoadedBy
  <1>11. /\ Mine(b) = {} /\ b \notin lifted /\ ~ledger[b].accrued /\ Net(b) = 0
         /\ rows[b].pay \in {"unpaid", "pending_verification"}
    BY <1>9, <1>10 DEF BookingKept, BlockKept, MoneyKept
  <1>12. Mine(b)' = {<<b, p>>}
    BY <1>4, <1>11 DEF Mine
  <1>13. ImageKept(b)'
    BY <1>6, <1>9 DEF ImageKept, Active, Occupying
  <1>14. BookingKept(b)'
    BY <1>5, <1>6, <1>7, <1>9, <1>11, <1>12, <1>13, AdvanceKept
  <1>15. \A c \in Bookings \ {b} : ledger'[c] = ledger[c]
    BY <1>5, <1>7, LedgerAccrued DEF AccruedIf, MarketInv, RestTyped, Ledgers
  <1>16. \E c \in Loaded(p) : blocks' = blocks \union {<<c, p>>}
    BY <1>4
  <1> QED
    BY <1>1, <1>2, <1>3, <1>5, <1>7, <1>8, <1>14, <1>15, <1>16, ApartEnds

LEMMA NothingHandled ==
    ASSUME ApartInv, apart, UNCHANGED <<apart, rows, blocks, lifted, ledger>>, Single' /\ Fresh'
    PROVE  ApartInv'
  <1>1. \A b \in Bookings : Mine(b)' = Mine(b)
    BY DEF Mine
  <1> QED
    BY <1>1, BookingStays DEF ApartInv

LEMMA StartKeeps ==
    ASSUME MarketInv, ApartInv, apart, NEW p \in Workers,
           Customer(p) \/ Operator(p) \/ ExpireLoad(p)
    PROVE  ApartInv'
  <1>1. ASSUME NEW op, NEW was, NEW how, NEW pct, NEW slot, Start(p, op, was, how, pct, slot),
               \A b \in DOMAIN was : was[b] = rows[b]
        PROVE  ApartInv'
    <2>1. Single' /\ Fresh'
      BY <1>1, FirstStarts DEF MarketInv
    <2>2. UNCHANGED <<apart, rows, blocks, lifted, ledger>>
      BY <1>1 DEF Start
    <2> QED
      BY <2>1, <2>2, NothingHandled
  <1>2. ASSUME NEW op, NEW ids, NEW how, Load(p, op, ids, how)
        PROVE  ApartInv'
    <2> DEFINE was == [b \in ids |-> rows[b]]
    <2>1. \A b \in DOMAIN was : was[b] = rows[b]
      OBVIOUS
    <2>2. Start(p, op, was, how, 0, NoMeeting)
      BY <1>2 DEF Load
    <2> HIDE DEF was
    <2> QED
      BY <1>1, <2>1, <2>2
  <1>3. ASSUME NEW b \in Bookings, NEW s \in Offered, NEW m \in {"venue", "upi"},
               CreateLoad(p, b, s, m)
        PROVE  ApartInv'
    <2> DEFINE was == [c \in {b} |-> NoRow]
    <2>1. \A c \in DOMAIN was : was[c] = rows[c]
      BY <1>3 DEF CreateLoad, Exists
    <2>2. Start(p, "create", was, m, 0, s)
      BY <1>3 DEF CreateLoad
    <2> HIDE DEF was
    <2> QED
      BY <1>1, <2>1, <2>2
  <1>4. ASSUME NEW b \in Bookings, NEW op, NEW how, NEW pct,
               Start(p, op, [c \in {b} |-> rows[b]], how, pct, NoMeeting)
        PROVE  ApartInv'
    <2> DEFINE was == [c \in {b} |-> rows[b]]
    <2>1. \A c \in DOMAIN was : was[c] = rows[c]
      OBVIOUS
    <2>2. Start(p, op, was, how, pct, NoMeeting)
      BY <1>4
    <2> HIDE DEF was
    <2> QED
      BY <1>1, <2>1, <2>2
  <1>5. ASSUME NEW b \in Bookings, NEW by, CancelLoad(p, b, by) PROVE ApartInv'
    BY <1>4, <1>5 DEF CancelLoad
  <1>6. CASE Customer(p)
    BY <1>2, <1>3, <1>5, <1>6 DEF Customer, SubmitLoad, UploadLoad
  <1>7. CASE Operator(p)
    <2>1. ASSUME NEW b \in Bookings, NEW pct, TurnAwayLoad(p, b, pct) PROVE ApartInv'
      BY <1>4, <2>1 DEF TurnAwayLoad
    <2>2. ASSUME NEW b \in Bookings, NEW v, ReviewLoad(p, b, v) PROVE ApartInv'
      BY <1>2, <2>2 DEF ReviewLoad
    <2>3. ASSUME UnlistLoad(p) PROVE ApartInv'
      BY <1>2, <2>3 DEF UnlistLoad
    <2>4. ASSUME NEW b \in Bookings,
                 \/ ApproveLoad(p, b) \/ DeclineLoad(p, b) \/ ConfirmLoad(p, b)
                 \/ CheckInLoad(p, b) \/ NoShowLoad(p, b) \/ CompleteLoad(p, b)
          PROVE  ApartInv'
      BY <1>2, <2>4 DEF ApproveLoad, DeclineLoad, ConfirmLoad, CheckInLoad, NoShowLoad,
                        CompleteLoad
    <2> QED
      BY <1>5, <1>7, <2>1, <2>2, <2>3, <2>4 DEF Operator
  <1>8. CASE ExpireLoad(p)
    BY <1>2, <1>8 DEF ExpireLoad
  <1> QED
    BY <1>6, <1>7, <1>8

LEMMA LiftKeeps ==
    ASSUME MarketInv, ApartInv, apart, NEW k \in Block, LiftBlock(k)
    PROVE  ApartInv'
  <1>1. /\ \A q \in Workers : task[q] = Idle
        /\ k \in blocks /\ blocks' = blocks \ {k} /\ lifted' = lifted \union {k[1]}
        /\ UNCHANGED <<apart, ledger, task>>
        /\ rows' = [b \in Bookings |->
                      IF Exists(b) /\ rows[b].block = k THEN [rows[b] EXCEPT !.block = NoBlock]
                      ELSE rows[b]]
    BY DEF LiftBlock, Alone
  <1>2. Single' /\ Fresh'
    BY <1>1 DEF Single, Fresh
  <1>3. ASSUME NEW b \in Bookings
        PROVE  BookingKept(b)'
    <2>1. BookingKept(b)
      BY DEF ApartInv
    <2>2. CASE b # k[1]
      <3>1. rows'[b] = rows[b]
        <4>1. Exists(b) => rows[b].block # k
          <5>1. k # NoBlock
            BY NoBlockIsNone
          <5>2. Exists(b) => rows[b].block = NoBlock \/ rows[b].block[1] = b
            BY DEF MarketInv, RowsTyped, OwnBlock
          <5> QED
            BY <2>2, <5>1, <5>2
        <4> QED
          BY <1>1, <4>1
      <3>2. Mine(b)' = Mine(b) /\ (b \in lifted' <=> b \in lifted)
        BY <1>1, <2>2 DEF Mine
      <3>3. BlockKept(b)'
        BY <2>1, <3>1, <3>2 DEF BookingKept, BlockKept
      <3>4. MoneyKept(b)'
        BY <1>1, <2>1, <3>1 DEF BookingKept, MoneyKept, Net
      <3>5. ImageKept(b)'
        BY <2>1, <3>1 DEF BookingKept, ImageKept, Exists
      <3> QED
        BY <3>3, <3>4, <3>5 DEF BookingKept
    <2>3. CASE b = k[1]
      <3>1. k \in Mine(b) /\ Exists(b) /\ b \in lifted' /\ Mine(b)' = Mine(b) \ {k}
        BY <1>1, <2>3 DEF Mine, MarketInv, RowsTyped
      <3>2. rows[b] \in Row
        BY <3>1, RowThere DEF MarketInv
      <3>3. /\ rows'[b] \in Row /\ rows'[b].status = rows[b].status
            /\ rows'[b].pay = rows[b].pay /\ rows'[b].method = rows[b].method
            /\ (rows'[b].image => rows[b].image) /\ rows'[b].withdrawn = rows[b].withdrawn
        <4>1. CASE rows[b].block = k
          <5>1. rows'[b] = [rows[b] EXCEPT !.block = NoBlock]
            BY <1>1, <3>1, <4>1
          <5> QED
            BY <3>2, <5>1 DEF Row
        <4>2. CASE rows[b].block # k
          <5>1. rows'[b] = rows[b]
            BY <1>1, <4>2
          <5> QED
            BY <3>2, <5>1
        <4> QED
          BY <4>1, <4>2
      <3>4. rows[b].status \in Occupying => Mine(b)' = {}
        <4>1. rows[b].status \in Occupying => Mine(b) = {rows[b].block}
          BY <2>1, <3>1 DEF BookingKept, BlockKept
        <4> QED
          BY <3>1, <4>1
      <3>5. BlockKept(b)'
        BY <2>1, <3>1, <3>3, <3>4 DEF BookingKept, BlockKept
      <3>6. MoneyKept(b)'
        <4>1. ledger' = ledger /\ Net(b)' = Net(b) /\ Commission' = Commission
          BY <1>1 DEF Net
        <4>2. MoneyKept(b)
          BY <2>1 DEF BookingKept
        <4> QED
          BY <3>3, <4>1, <4>2 DEF MoneyKept, IsShareLeft, RefundsAt
      <3>7. ImageKept(b)'
        BY <2>1, <3>1, <3>3 DEF BookingKept, ImageKept
      <3> QED
        BY <3>5, <3>6, <3>7 DEF BookingKept
    <2> QED
      BY <2>2, <2>3
  <1> QED
    BY <1>2, <1>3 DEF ApartInv

LEMMA ApartStep == MarketInv /\ ApartInv /\ [Next]_vars => ApartInv'
  <1> SUFFICES ASSUME MarketInv, ApartInv, [Next]_vars PROVE ApartInv'
    OBVIOUS
  <1>1. ASSUME UNCHANGED <<task, rows>> PROVE (Single <=> Single') /\ (Fresh <=> Fresh')
    BY <1>1 DEF Single, Fresh, Loaded, Was
  <1>2. CASE ~apart
    <2>1. UNCHANGED apart
      BY DEF Next, vars, Tick, Calendar, BookMeeting, CancelMeeting, LiftBlock, SetListing, Customer,
         Operator, CreateLoad, SubmitLoad, UploadLoad, CancelLoad, ApproveLoad, DeclineLoad,
         ConfirmLoad, CheckInLoad, NoShowLoad, CompleteLoad, ReviewLoad, TurnAwayLoad, UnlistLoad,
         Load, Start, Commit, CreateCommit, ApproveCommit, ChangeCommit, ConfirmCommit,
         CancelCommit, UnlistCommit, Job, ExpireLoad, ExpireCommit, Fail
    <2> QED
      BY <1>2, <2>1 DEF ApartInv
  <1>3. CASE apart
    <2>1. CASE Tick
      BY <1>1, <1>3, <2>1, NothingHandled DEF Tick, ApartInv
    <2>2. CASE Calendar
      <3>1. ASSUME NEW m \in Meetings, NEW s \in Offered, BookMeeting(m, s) PROVE ApartInv'
        BY <1>1, <1>3, <3>1, NothingHandled DEF BookMeeting, ApartInv
      <3>2. ASSUME NEW m \in Meetings, CancelMeeting(m) PROVE ApartInv'
        BY <1>1, <1>3, <3>2, NothingHandled DEF CancelMeeting, ApartInv
      <3>3. ASSUME NEW status \in Switches, SetListing(status) PROVE ApartInv'
        BY <1>1, <1>3, <3>3, NothingHandled DEF SetListing, ApartInv
      <3> QED
        BY <1>3, <2>2, <3>1, <3>2, <3>3, LiftKeeps DEF Calendar
    <2>3. ASSUME NEW p \in Procs, Customer(p) \/ Operator(p) PROVE ApartInv'
      BY <1>3, <2>3, StartKeeps DEF Workers
    <2>4. ASSUME NEW p \in Procs, Commit(p) PROVE ApartInv'
      BY <1>3, <2>4, CreateKeeps, ApproveKeeps, ChangeKeeps, ConfirmKeeps, CancelKeeps, UnlistKeeps
         DEF Commit
    <2>5. ASSUME NEW p \in Crons, Job(p) PROVE ApartInv'
      BY <1>3, <2>5, StartKeeps, ExpireKeeps DEF Job, Workers
    <2>6. ASSUME NEW p \in Workers, Fail(p) PROVE ApartInv'
      <3>1. Single' /\ Fresh'
        BY <1>3, <2>6, AllIdle DEF Fail, MarketInv, ApartInv
      <3> QED
        BY <1>3, <2>6, <3>1, NothingHandled DEF Fail
    <2>7. CASE UNCHANGED vars
      BY <1>1, <1>3, <2>7, NothingHandled DEF vars, ApartInv
    <2> QED
      BY <2>1, <2>2, <2>3, <2>4, <2>5, <2>6, <2>7 DEF Next
  <1> QED
    BY <1>2, <1>3

LEMMA ApartKept == Spec => [](MarketInv /\ ApartInv)
  BY MarketInit, MarketStep, ApartInit, ApartStep, PTL DEF Spec

\* Every variable keeps its shape, and a booking that occupies the room has its block there from
\* its hold to its end and none after, unless an operator lifted it (create_booking, _confirm,
\* _release_slot, release_expired).
THEOREM OccupantsHaveTheirBlock == Spec => []RoomKept
  <1>1. MarketInv /\ ApartInv => RoomKept
    <2> SUFFICES ASSUME MarketInv, ApartInv, apart, NEW b \in Bookings
                 PROVE  TypeOK /\
                        LET mine == {k \in blocks : k[1] = b} IN
                        IF Exists(b) /\ rows[b].status \in Occupying
                        THEN IF b \in lifted THEN mine = {} ELSE mine = {rows[b].block}
                        ELSE (Exists(b) /\ rows[b].status \in {"completed", "no_show"})
                                \/ mine = {}
      BY MarketTyped DEF RoomKept, BlockWhileOccupying
    <2>1. BlockKept(b)
      BY DEF ApartInv, BookingKept
    <2>2. Exists(b) => rows[b].status \in Active \union Ended
      BY RowThere DEF MarketInv, Row
    <2>3. ~Exists(b) => rows[b].status = "none"
      BY NoRowIsNoRow DEF Exists
    <2> QED
      BY <2>1, <2>2, <2>3, MarketTyped DEF BlockKept, Mine, Active, Occupying, Ended
  <1> QED
    BY <1>1, ApartKept, PTL

\* Commission is owed on what the operator keeps: the accrual of _confirm, once, less what a
\* cancellation or a refusal at the door gives back in proportion to the refund.
THEOREM CommissionIsOwedOnWhatIsKept == Spec => []CommissionFollowsMoney
  <1>1. MarketInv /\ ApartInv => CommissionFollowsMoney
    <2> SUFFICES ASSUME MarketInv, ApartInv, apart, NEW b \in Bookings, Exists(b)
                 PROVE
        /\ rows[b].status \in {"requested", "held", "declined", "expired"} => Net(b) = 0
        /\ rows[b].status \in {"confirmed", "checked_in", "completed", "no_show"} =>
              Net(b) = Commission /\ (rows[b].pay = "paid" \/ rows[b].method = "venue")
        /\ rows[b].pay = "refunded" => Net(b) = 0
        /\ rows[b].status \in {"cancelled_customer", "cancelled_operator"} =>
              /\ rows[b].pay # "paid"
              /\ ledger[b].accrued =>
                    \E pct \in RefundsAt(rows[b].status) :
                        /\ IsShareLeft(Net(b), pct)
                        /\ rows[b].pay = "part_refunded" => pct # 100
              /\ ~ledger[b].accrued => Net(b) = 0
      BY DEF CommissionFollowsMoney
    <2>1. MoneyKept(b)
      BY DEF ApartInv, BookingKept
    <2>2. rows[b].status \in Active \union Ended
      BY RowThere DEF MarketInv, Row
    <2> QED
      BY <2>1, <2>2 DEF MoneyKept, Active, Occupying, Ended
  <1> QED
    BY <1>1, ApartKept, PTL

\* No photo ID outlives its booking (_purge_id in every end of a booking); only the requests that
\* unlisting declined keep theirs.
THEOREM ImagesGoWithTheirBookings == Spec => []ImagePurgedAtEnd
  <1>1. ApartInv => ImagePurgedAtEnd
    BY DEF ApartInv, BookingKept, ImageKept, ImagePurgedAtEnd
  <1> QED
    BY <1>1, ApartKept, PTL
=============================================================================
