----------------------- MODULE EntitlementGrants_proofs -----------------------
(***************************************************************************)
(* Proofs about usage reservations, for every set of requests, keys,       *)
(* buckets, quantities and allowances, in three stages: what the abstract  *)
(* UsageLedger promises; that row locks and the unique key make requests   *)
(* that interleave, wait and fail implement it; and that grants that come  *)
(* and go only choose among the limits that reservations may be given, so  *)
(* that all of it holds with the allowances entitlement_resolver.py        *)
(* computes.                                                               *)
(***************************************************************************)
EXTENDS EntitlementGrants, FiniteSetTheorems, WellFoundedInduction, TLAPS

(* UsageLedger: no bucket outgrows the allowances that were in force, and what a bucket has *)
(* reserved is what pending reservations asked for.                                         *)

LedgerTypeOK ==
    /\ limit \in Limits /\ granted \subseteq Limits /\ limit \in granted
    /\ buckets \in [Buckets -> Bucket]
    /\ events \in [Keys -> Event]

\* Whatever was reserved was asked for with a quantity.
ReservedQuantities == \A k \in Keys : events[k].status # "none" => events[k].quantity \in Quantities

\* The units that pending reservations hold in a bucket.
UnitsOf(k, n) == {k} \X (1..n)
Pends(u, b) ==
    /\ events[u[1]].status = "reserved" /\ events[u[1]].bucket = b
    /\ u[2] \in 1..events[u[1]].quantity
Units(b) == {u \in Keys \X Nat : Pends(u, b)}

\* A bucket's reserved count is what its pending reservations asked for, unit by unit: a
\* settlement never finds less than it has to take away, and the code's cut at zero is idle.
ReservedIsPending ==
    \A b \in Buckets : IsFiniteSet(Units(b)) /\ buckets[b].reserved = Cardinality(Units(b))

LInv == LedgerTypeOK /\ ReservedQuantities /\ ReservedIsPending /\ AllowanceKept
-----------------------------------------------------------------------------
LEMMA UnitsCounted ==
    ASSUME NEW k, NEW n \in Nat
    PROVE  IsFiniteSet(UnitsOf(k, n)) /\ Cardinality(UnitsOf(k, n)) = n
  <1>1. IsFiniteSet({k}) /\ Cardinality({k}) = 1
    BY FS_Singleton
  <1>2. IsFiniteSet(1..n) /\ Cardinality(1..n) = n
    BY FS_Interval
  <1>3. IsFiniteSet({k} \X (1..n)) /\ Cardinality({k} \X (1..n)) = 1 * n
    BY <1>1, <1>2, FS_Product
  <1> QED
    BY <1>3 DEF UnitsOf

\* A pending reservation holds all of its units in its bucket, and no more than the bucket has.
LEMMA PendingIsHeld ==
    ASSUME LInv, NEW k \in Keys, events[k].status = "reserved"
    PROVE  /\ events[k].quantity \in Quantities /\ events[k].bucket \in Buckets
           /\ UnitsOf(k, events[k].quantity) \subseteq Units(events[k].bucket)
           /\ buckets[events[k].bucket].reserved >= events[k].quantity
  <1> DEFINE b == events[k].bucket
             q == events[k].quantity
  <1>1. q \in Quantities /\ q \in Nat /\ b \in Buckets
    BY QuantitiesArePositive DEF LInv, LedgerTypeOK, ReservedQuantities, Event
  <1>2. UnitsOf(k, q) \subseteq Units(b)
    BY <1>1 DEF UnitsOf, Units, Pends
  <1>3. Cardinality(UnitsOf(k, q)) <= Cardinality(Units(b))
    BY <1>1, <1>2, FS_Subset DEF LInv, ReservedIsPending
  <1>4. Cardinality(UnitsOf(k, q)) = q
    BY <1>1, UnitsCounted
  <1> QED
    BY <1>1, <1>2, <1>3, <1>4 DEF LInv, ReservedIsPending

LEMMA AllowsLess ==
    ASSUME NEW l \in Limits, NEW m \in Nat, NEW n \in Nat, m <= n, Allows(l, n)
    PROVE  Allows(l, m)
  BY LimitsAreNumbers DEF Allows, Unlimited

LEMMA BucketFields ==
    ASSUME NEW x \in Bucket
    PROVE  x = [committed |-> x.committed, reserved |-> x.reserved]
  BY DEF Bucket
-----------------------------------------------------------------------------
LEMMA LedgerStarts == Init => LInv
  <1> SUFFICES ASSUME Init PROVE LInv
    OBVIOUS
  <1>1. LedgerTypeOK /\ ReservedQuantities /\ AllowanceKept
    BY DEF Init, LedgerTypeOK, ReservedQuantities, AllowanceKept, Event, Bucket, Statuses, Used
  <1>2. \A b \in Buckets : Units(b) = {}
    BY DEF Init, Units, Pends
  <1>3. ReservedIsPending
    BY <1>2, FS_EmptySet DEF Init, ReservedIsPending
  <1> QED
    BY <1>1, <1>3 DEF LInv

LEMMA LimitChanges == LInv /\ ChangeLimit => LInv'
  <1> SUFFICES ASSUME LInv, ChangeLimit PROVE LInv'
    OBVIOUS
  <1>1. \A b : Units(b)' = Units(b)
    BY DEF ChangeLimit, Units, Pends
  <1>2. ReservedIsPending'
    BY <1>1 DEF LInv, ReservedIsPending, ChangeLimit
  <1> QED
    BY <1>2 DEF LInv, LedgerTypeOK, ReservedQuantities, AllowanceKept, ChangeLimit, Used

LEMMA ReserveKeeps ==
    ASSUME LInv, NEW k \in Keys, NEW b \in Buckets, NEW q \in Quantities,
           NEW allowance \in granted, Reserve(k, b, q, allowance)
    PROVE  LInv'
  <1>0. q \in Nat /\ allowance \in Limits
    BY QuantitiesArePositive DEF LInv, LedgerTypeOK
  <1>1. /\ buckets[b] \in Bucket /\ b \in DOMAIN buckets /\ DOMAIN buckets = Buckets
        /\ k \in DOMAIN events /\ DOMAIN events = Keys
    BY DEF LInv, LedgerTypeOK
  <1>2. /\ buckets'[b] = [committed |-> buckets[b].committed, reserved |-> buckets[b].reserved + q]
        /\ \A c \in Buckets \ {b} : buckets'[c] = buckets[c]
    BY <1>1 DEF Reserve, Bucket
  <1>3. /\ events'[k] = [status |-> "reserved", quantity |-> q, bucket |-> b]
        /\ \A j \in Keys \ {k} : events'[j] = events[j]
    BY <1>1 DEF Reserve
  <1>4. LedgerTypeOK'
    BY <1>0, <1>1, <1>2, <1>3 DEF Reserve, LInv, LedgerTypeOK, Event, Bucket, Statuses
  <1>5. ReservedQuantities'
    BY <1>3 DEF LInv, ReservedQuantities
  <1>6. ReservedIsPending'
    <2> SUFFICES ASSUME NEW c \in Buckets
                 PROVE  IsFiniteSet(Units(c)') /\ buckets'[c].reserved = Cardinality(Units(c)')
      BY DEF ReservedIsPending
    <2>0. IsFiniteSet(Units(c)) /\ buckets[c].reserved = Cardinality(Units(c))
      BY DEF LInv, ReservedIsPending
    <2>1. CASE c # b
      <3>1. Units(c)' = Units(c)
        BY <2>1, <1>3 DEF Units, Pends, Reserve
      <3> QED
        BY <2>0, <2>1, <3>1, <1>2
    <2>2. CASE c = b
      <3>1. Units(c)' = Units(c) \union UnitsOf(k, q)
        BY <2>2, <1>0, <1>3 DEF Units, Pends, UnitsOf, Reserve
      <3>2. Units(c) \intersect UnitsOf(k, q) = {}
        BY DEF Units, Pends, UnitsOf, Reserve
      <3>3. IsFiniteSet(UnitsOf(k, q)) /\ Cardinality(UnitsOf(k, q)) = q
        BY <1>0, UnitsCounted
      <3>4. /\ IsFiniteSet(Units(c)')
            /\ Cardinality(Units(c)') = Cardinality(Units(c)) + q - 0
        BY <2>0, <3>1, <3>2, <3>3, FS_Union, FS_EmptySet
      <3> QED
        BY <2>0, <2>2, <3>4, <1>0, <1>1, <1>2 DEF Bucket
    <2> QED
      BY <2>1, <2>2
  <1>7. AllowanceKept'
    <2> SUFFICES ASSUME NEW c \in Buckets
                 PROVE  Used(c)' = 0 \/ \E l \in granted' : Allows(l, Used(c)')
      BY DEF AllowanceKept, Allows
    <2>1. CASE c = b
      BY <2>1, <1>0, <1>1, <1>2 DEF Reserve, Used, Bucket
    <2>2. CASE c # b
      BY <2>2, <1>2 DEF LInv, AllowanceKept, Reserve, Used
    <2> QED
      BY <2>1, <2>2
  <1> QED
    BY <1>4, <1>5, <1>6, <1>7 DEF LInv

LEMMA SettleKeeps ==
    ASSUME LInv, NEW k \in Keys, NEW outcome \in {"committed", "released"}, Settle(k, outcome)
    PROVE  LInv'
  <1> DEFINE b == events[k].bucket
             q == events[k].quantity
  <1>0. /\ q \in Quantities /\ q \in Nat /\ b \in Buckets
        /\ UnitsOf(k, q) \subseteq Units(b) /\ buckets[b].reserved >= q
    BY PendingIsHeld, QuantitiesArePositive DEF Settle
  <1>1. /\ buckets[b] \in Bucket /\ DOMAIN buckets = Buckets /\ events[k] \in Event
        /\ DOMAIN events = Keys
    BY <1>0 DEF LInv, LedgerTypeOK
  <1>2. /\ buckets'[b] = [committed |-> IF outcome = "committed" THEN buckets[b].committed + q
                                        ELSE buckets[b].committed,
                          reserved |-> buckets[b].reserved - q]
        /\ \A c \in Buckets \ {b} : buckets'[c] = buckets[c]
        /\ buckets' \in [Buckets -> Bucket]
    <2> DEFINE r == buckets[b].reserved - q
               d == IF outcome = "committed" THEN buckets[b].committed + q
                    ELSE buckets[b].committed
               one == [buckets EXCEPT ![b].reserved = r]
    <2>1. r \in Nat /\ d \in Nat
      BY <1>0, <1>1 DEF Bucket
    <2>2. /\ one \in [Buckets -> Bucket] /\ \A c \in Buckets \ {b} : one[c] = buckets[c]
          /\ one[b].committed = buckets[b].committed /\ one[b].reserved = r
      BY <2>1, <1>0, <1>1 DEF Bucket, LInv, LedgerTypeOK
    <2>3. buckets' = [one EXCEPT ![b].committed = d]
      BY <1>0, <1>1 DEF Settle, Bucket
    <2>4. /\ buckets' \in [Buckets -> Bucket] /\ \A c \in Buckets \ {b} : buckets'[c] = buckets[c]
          /\ buckets'[b].committed = d /\ buckets'[b].reserved = r
      <3> HIDE DEF one, r, d
      <3> QED
        BY <2>1, <2>2, <2>3, <1>0 DEF Bucket
    <2> QED
      BY <2>4, <1>0, BucketFields
  <1>3. /\ events'[k] = [status |-> outcome, quantity |-> q, bucket |-> b]
        /\ \A j \in Keys \ {k} : events'[j] = events[j]
    BY <1>1 DEF Settle, Event
  <1>4. LedgerTypeOK'
    BY <1>0, <1>1, <1>2, <1>3 DEF Settle, LInv, LedgerTypeOK, Event, Statuses
  <1>5. ReservedQuantities'
    BY <1>0, <1>3 DEF LInv, ReservedQuantities
  <1>6. ReservedIsPending'
    <2> SUFFICES ASSUME NEW c \in Buckets
                 PROVE  IsFiniteSet(Units(c)') /\ buckets'[c].reserved = Cardinality(Units(c)')
      BY DEF ReservedIsPending
    <2>0. IsFiniteSet(Units(c)) /\ buckets[c].reserved = Cardinality(Units(c))
      BY DEF LInv, ReservedIsPending
    <2>1. CASE c # b
      <3>1. Units(c)' = Units(c)
        BY <2>1, <1>3 DEF Units, Pends, Settle
      <3> QED
        BY <2>0, <2>1, <3>1, <1>2
    <2>2. CASE c = b
      <3>1. Units(c)' = Units(c) \ UnitsOf(k, q)
        BY <2>2, <1>0, <1>3 DEF Units, Pends, UnitsOf, Settle
      <3>2. Units(c) \intersect UnitsOf(k, q) = UnitsOf(k, q)
        BY <1>0, <2>2
      <3>3. Cardinality(UnitsOf(k, q)) = q
        BY <1>0, UnitsCounted
      <3>4. IsFiniteSet(Units(c)') /\ Cardinality(Units(c)') = Cardinality(Units(c)) - q
        BY <2>0, <3>1, <3>2, <3>3, FS_Difference
      <3> QED
        BY <2>0, <2>2, <3>4, <1>2
    <2> QED
      BY <2>1, <2>2
  <1>7. AllowanceKept'
    <2> SUFFICES ASSUME NEW c \in Buckets
                 PROVE  Used(c)' = 0 \/ \E l \in granted' : Allows(l, Used(c)')
      BY DEF AllowanceKept, Allows
    <2>0. granted' = granted /\ granted \subseteq Limits
      BY DEF Settle, LInv, LedgerTypeOK
    <2>1. Used(c) = 0 \/ \E l \in granted : Allows(l, Used(c))
      BY DEF LInv, AllowanceKept
    <2>2. Used(c) \in Nat /\ Used(c)' \in Nat /\ Used(c)' <= Used(c)
      <3>1. buckets[c] \in Bucket /\ buckets'[c] \in Bucket
        BY <1>2 DEF LInv, LedgerTypeOK
      <3>2. CASE c = b
        BY <3>1, <3>2, <1>0, <1>1, <1>2 DEF Used, Bucket
      <3>3. CASE c # b
        BY <3>1, <3>3, <1>2 DEF Used, Bucket
      <3> QED
        BY <3>2, <3>3
    <2>3. CASE Used(c) = 0
      BY <2>2, <2>3
    <2>4. CASE \E l \in granted : Allows(l, Used(c))
      BY <2>0, <2>2, <2>4, AllowsLess
    <2> QED
      BY <2>1, <2>3, <2>4
  <1> QED
    BY <1>4, <1>5, <1>6, <1>7 DEF LInv

LEMMA LedgerStep == LInv /\ [Next]_ledger => LInv'
  <1> SUFFICES ASSUME LInv, [Next]_ledger PROVE LInv'
    OBVIOUS
  <1>1. CASE ChangeLimit
    BY <1>1, LimitChanges
  <1>2. ASSUME NEW k \in Keys, NEW b \in Buckets, NEW q \in Quantities,
               NEW allowance \in granted, Reserve(k, b, q, allowance)
        PROVE  LInv'
    BY <1>2, ReserveKeeps
  <1>3. ASSUME NEW k \in Keys, NEW outcome \in {"committed", "released"}, Settle(k, outcome)
        PROVE  LInv'
    BY <1>3, SettleKeeps
  <1>4. CASE UNCHANGED ledger
    <2>1. \A b : Units(b)' = Units(b)
      BY <1>4 DEF ledger, Units, Pends
    <2> QED
      BY <1>4, <2>1
         DEF ledger, LInv, LedgerTypeOK, ReservedQuantities, ReservedIsPending, AllowanceKept, Used
  <1> QED
    BY <1>1, <1>2, <1>3, <1>4 DEF Next

\* What the reservations promise of themselves: a bucket never outgrows the allowances that
\* were in force (reserve_usage), and what it has reserved is what is pending
\* (settle_usage_reservation takes exactly that away).
THEOREM LedgerKeepsItsPromise == Spec => [](AllowanceKept /\ ReservedIsPending)
  <1>1. LInv => AllowanceKept /\ ReservedIsPending
    BY DEF LInv
  <1> QED
    BY <1>1, LedgerStarts, LedgerStep, PTL DEF Spec
-----------------------------------------------------------------------------
(* UsageReservations implements it. *)

(* The inductive invariant: a request that computed what to write to a bucket or an event *)
(* holds its lock, and what it read then is still there.                                  *)

Types ==
    /\ tasks \in [Procs -> Task \union {Idle}]
    /\ bucketLock \in [Buckets -> Procs \union {NoProc}]
    /\ eventLock \in [Keys -> Procs \union {NoProc}]

HasBucket(p) ==
    tasks[p].at \in {"insert", "commit_reserve", "commit_settle"} => bucketLock[tasks[p].bucket] = p

HasKey(p) ==
    tasks[p].at \in {"commit_reserve", "lock_settled_bucket", "commit_settle"}
        => eventLock[tasks[p].key] = p

\* An allowance that is compared with a bucket was in force, and fits while the lock is held.
Fits(p) ==
    /\ tasks[p].at \in {"lock_bucket", "insert", "commit_reserve"} => tasks[p].allowance \in granted
    /\ tasks[p].at \in {"insert", "commit_reserve"} =>
          /\ Allows(tasks[p].allowance, Used(tasks[p].bucket) + tasks[p].quantity)
          /\ tasks[p].wrote =
                [committed |-> buckets[tasks[p].bucket].committed,
                 reserved |-> buckets[tasks[p].bucket].reserved + tasks[p].quantity]

NewKey(p) == tasks[p].at = "commit_reserve" => events[tasks[p].key].status = "none"

\* What is settled is still pending, as it was read.
StillPending(p) ==
    tasks[p].at \in {"lock_settled_bucket", "commit_settle"} =>
        /\ tasks[p].outcome \in {"committed", "released"}
        /\ events[tasks[p].key] =
              [status |-> "reserved", quantity |-> tasks[p].quantity, bucket |-> tasks[p].bucket]

SettlesAll(p) ==
    tasks[p].at = "commit_settle" =>
        tasks[p].wrote =
            [committed |-> IF tasks[p].outcome = "committed"
                           THEN buckets[tasks[p].bucket].committed + tasks[p].quantity
                           ELSE buckets[tasks[p].bucket].committed,
             reserved |-> buckets[tasks[p].bucket].reserved - tasks[p].quantity]

TaskInv(p) ==
    HasBucket(p) /\ HasKey(p) /\ Fits(p) /\ NewKey(p) /\ StillPending(p) /\ SettlesAll(p)

IInv == Types /\ LInv /\ \A p \in Procs : TaskInv(p)
-----------------------------------------------------------------------------
LEMMA TaskFields ==
    ASSUME Types, NEW p \in Procs, tasks[p].at # "idle"
    PROVE  tasks[p] \in Task
  BY DEF Types, Idle

LEMMA BucketReserves ==
    ASSUME NEW x \in Bucket, NEW n \in Nat
    PROVE  /\ [x EXCEPT !.reserved = @ + n] = [committed |-> x.committed, reserved |-> x.reserved + n]
           /\ [committed |-> x.committed, reserved |-> x.reserved + n] \in Bucket
  BY DEF Bucket

\* Locks that a request releases are its own; those of the others stay.
LEMMA EndTypes ==
    ASSUME Types, NEW p \in Procs, End(p)
    PROVE  /\ Types' /\ tasks'[p] = Idle
           /\ \A r \in Procs \ {p} : tasks'[r] = tasks[r]
           /\ \A r \in Procs \ {p}, b \in Buckets : bucketLock[b] = r => bucketLock'[b] = r
           /\ \A r \in Procs \ {p}, k \in Keys : eventLock[k] = r => eventLock'[k] = r
  BY DEF Types, End, Released

\* A request keeps its part of the invariant when its task, its locks, and the rows that it
\* has locked stay as they are.
LEMMA OthersKeep ==
    ASSUME Types, LInv, NEW r \in Procs, TaskInv(r), tasks'[r] = tasks[r],
           granted \subseteq granted',
           tasks[r].at # "idle" /\ bucketLock[tasks[r].bucket] = r =>
               /\ bucketLock'[tasks[r].bucket] = r
               /\ buckets'[tasks[r].bucket] = buckets[tasks[r].bucket],
           tasks[r].at # "idle" /\ eventLock[tasks[r].key] = r =>
               /\ eventLock'[tasks[r].key] = r
               /\ events'[tasks[r].key] = events[tasks[r].key]
    PROVE  TaskInv(r)'
  <1>1. CASE tasks[r].at = "idle"
    BY <1>1 DEF TaskInv, HasBucket, HasKey, Fits, NewKey, StillPending, SettlesAll
  <1>2. CASE tasks[r].at # "idle"
    <2>1. HasBucket(r)' /\ HasKey(r)'
      BY <1>2 DEF TaskInv, HasBucket, HasKey
    <2>2. Fits(r)'
      BY <1>2 DEF TaskInv, HasBucket, Fits, Allows, Used
    <2>3. NewKey(r)' /\ StillPending(r)'
      BY <1>2 DEF TaskInv, HasKey, NewKey, StillPending
    <2>4. SettlesAll(r)'
      BY <1>2 DEF TaskInv, HasBucket, SettlesAll
    <2> QED
      BY <2>1, <2>2, <2>3, <2>4 DEF TaskInv
  <1> QED
    BY <1>1, <1>2

LEMMA IdleKeeps ==
    ASSUME NEW p \in Procs, tasks'[p] = Idle
    PROVE  TaskInv(p)'
  BY DEF TaskInv, HasBucket, HasKey, Fits, NewKey, StillPending, SettlesAll, Idle

LEMMA LedgerStays ==
    ASSUME LInv, UNCHANGED ledger
    PROVE  LInv'
  BY LedgerStep
-----------------------------------------------------------------------------
(* Each step keeps the invariant, and is a step or a stutter of the ledger. *)

LEMMA SystemStarts == SystemInit => IInv
  <1> SUFFICES ASSUME SystemInit PROVE IInv
    OBVIOUS
  <1>1. LInv
    BY LedgerStarts DEF SystemInit
  <1>2. Types
    BY DEF SystemInit, Types
  <1>3. \A p \in Procs : TaskInv(p)
    BY DEF SystemInit, TaskInv, HasBucket, HasKey, Fits, NewKey, StillPending, SettlesAll, Idle
  <1> QED
    BY <1>1, <1>2, <1>3 DEF IInv

LEMMA LimitStep ==
    ASSUME IInv, ChangeLimit, UNCHANGED <<tasks, bucketLock, eventLock>>
    PROVE  IInv'
  <1>1. LInv' /\ Types'
    BY LimitChanges DEF IInv, Types
  <1>2. \A p \in Procs : TaskInv(p)'
    BY OthersKeep DEF IInv, ChangeLimit
  <1> QED
    BY <1>1, <1>2 DEF IInv

LEMMA ReserveBeginStep ==
    ASSUME IInv, NEW p \in Procs, NEW k \in Keys, NEW b \in Buckets, NEW q \in Quantities,
           ReserveBegin(p, k, b, q)
    PROVE  IInv'
  <1>1. LInv'
    BY LedgerStays DEF IInv, ReserveBegin
  <1>2. Types'
    BY DEF IInv, Types, LInv, LedgerTypeOK, ReserveBegin, Started, Nothing, Task, Steps, Statuses,
           Bucket
  <1>3. ASSUME NEW r \in Procs, r # p
        PROVE  TaskInv(r)'
    BY <1>3, OthersKeep DEF IInv, Types, ReserveBegin, ledger
  <1>4. tasks'[p] = Started("lock_bucket", k, b, q, "reserved")
    BY DEF IInv, Types, ReserveBegin
  <1>5. TaskInv(p)'
    BY <1>4 DEF IInv, LInv, LedgerTypeOK, ReserveBegin, ledger, Started, TaskInv, HasBucket, HasKey,
                Fits, NewKey, StillPending, SettlesAll
  <1> QED
    BY <1>1, <1>2, <1>3, <1>5 DEF IInv

LEMMA LockBucketStep ==
    ASSUME IInv, NEW p \in Procs, LockBucket(p)
    PROVE  IInv'
  <1> DEFINE t == tasks[p]
  <1>0. t \in Task /\ t.at = "lock_bucket" /\ buckets[t.bucket] \in Bucket /\ t.quantity \in Nat
    BY TaskFields, QuantitiesArePositive DEF IInv, LInv, LedgerTypeOK, LockBucket, Task
  <1>1. LInv'
    BY LedgerStays DEF IInv, LockBucket
  <1> DEFINE w == [committed |-> buckets[t.bucket].committed,
                   reserved |-> buckets[t.bucket].reserved + t.quantity]
             n == [t EXCEPT !.at = "insert", !.wrote = w]
  <1>2. w \in Bucket /\ tasks' = [tasks EXCEPT ![p] = n] /\ bucketLock' = [bucketLock EXCEPT ![t.bucket] = p]
    BY <1>0, BucketReserves DEF LockBucket
  <1>5. /\ n \in Task /\ n.at = "insert" /\ n.bucket = t.bucket /\ n.allowance = t.allowance
        /\ n.quantity = t.quantity /\ n.wrote = w
    <2> HIDE DEF w
    <2> QED
      <3>1. "insert" \in Steps /\ t \in Task /\ w \in Bucket
        BY <1>0, <1>2 DEF Steps
      <3>2. n = [t EXCEPT !.at = "insert", !.wrote = w]
        OBVIOUS
      <3> HIDE DEF n, t
      <3> QED
        BY <3>1, <3>2 DEF Task
  <1>3. Types' /\ tasks'[p] = n /\ bucketLock'[t.bucket] = p
    <2> HIDE DEF n, w
    <2>1. tasks' \in [Procs -> Task \union {Idle}] /\ tasks'[p] = n
      BY <1>2, <1>5 DEF IInv, Types
    <2>2. bucketLock' \in [Buckets -> Procs \union {NoProc}] /\ bucketLock'[t.bucket] = p
      BY <1>0, <1>2 DEF IInv, Types, Task
    <2> QED
      BY <2>1, <2>2 DEF IInv, Types, LockBucket
  <1>4. ASSUME NEW r \in Procs, r # p
        PROVE  TaskInv(r)'
    <2>1. /\ tasks'[r] = tasks[r] /\ eventLock' = eventLock
          /\ \A b \in Buckets : bucketLock[b] = r => bucketLock'[b] = r
      BY <1>0, <1>2, <1>4, NobodyIsNoProc DEF IInv, Types, LockBucket, Task
    <2>2. tasks[r].at # "idle" => tasks[r] \in Task
      BY TaskFields DEF IInv
    <2> QED
      BY <2>1, <2>2, OthersKeep DEF IInv, LockBucket, ledger, Task
  <1>6. TaskInv(p)'
    <2> HIDE DEF n
    <2>1. t.allowance \in granted
      BY <1>0 DEF IInv, TaskInv, Fits
    <2>2. Fits(p)'
      <3>1. Allows(t.allowance, Used(t.bucket) + t.quantity) /\ UNCHANGED ledger
        BY DEF LockBucket
      <3> QED
        BY <1>3, <1>5, <2>1, <3>1 DEF ledger, Fits, Used, Allows
    <2> QED
      BY <1>3, <1>5, <2>2 DEF TaskInv, HasBucket, HasKey, NewKey, StillPending, SettlesAll
  <1> QED
    BY <1>1, <1>3, <1>4, <1>6 DEF IInv

LEMMA InsertEventStep ==
    ASSUME IInv, NEW p \in Procs, InsertEvent(p)
    PROVE  IInv'
  <1> DEFINE t == tasks[p]
  <1>0. t \in Task /\ t.at = "insert"
    BY TaskFields DEF IInv, InsertEvent
  <1>1. LInv'
    BY LedgerStays DEF IInv, InsertEvent
  <1>2. Types'
    BY <1>0 DEF IInv, Types, InsertEvent, Task, Steps
  <1>3. ASSUME NEW r \in Procs, r # p
        PROVE  TaskInv(r)'
    <2>1. /\ tasks'[r] = tasks[r] /\ bucketLock' = bucketLock
          /\ \A k \in Keys : eventLock[k] = r => eventLock'[k] = r
      BY <1>0, <1>3, NobodyIsNoProc DEF IInv, Types, InsertEvent
    <2>2. tasks[r].at # "idle" => tasks[r] \in Task
      BY TaskFields DEF IInv
    <2> QED
      BY <2>1, <2>2, OthersKeep DEF IInv, InsertEvent, ledger, Task
  <1>4. tasks'[p] = [t EXCEPT !.at = "commit_reserve"] /\ eventLock'[t.key] = p
    BY <1>0 DEF IInv, Types, InsertEvent, Task
  <1>5. /\ tasks'[p].at = "commit_reserve" /\ tasks'[p].bucket = t.bucket
        /\ tasks'[p].allowance = t.allowance /\ tasks'[p].quantity = t.quantity
        /\ tasks'[p].wrote = t.wrote /\ tasks'[p].key = t.key
    BY <1>0, <1>4 DEF Task
  <1>6. TaskInv(p)'
    <2>1. HasBucket(p)' /\ HasKey(p)' /\ NewKey(p)'
      BY <1>0, <1>4, <1>5 DEF IInv, TaskInv, InsertEvent, ledger, HasBucket, HasKey, NewKey
    <2>2. Fits(p)'
      BY <1>0, <1>5 DEF IInv, TaskInv, InsertEvent, ledger, Fits, Used, Allows
    <2> QED
      BY <1>5, <2>1, <2>2 DEF TaskInv, StillPending, SettlesAll
  <1> QED
    BY <1>1, <1>2, <1>3, <1>6 DEF IInv

\* The commit of a reservation: what was checked still fits, so it is a Reserve of the ledger.
LEMMA ReserveCommitReserves ==
    ASSUME IInv, NEW p \in Procs, ReserveCommit(p)
    PROVE  /\ tasks[p] \in Task /\ tasks[p].allowance \in granted
           /\ Reserve(tasks[p].key, tasks[p].bucket, tasks[p].quantity, tasks[p].allowance)
  <1> DEFINE t == tasks[p]
  <1>0. t \in Task /\ t.at = "commit_reserve"
    BY TaskFields DEF IInv, ReserveCommit
  <1>1. buckets[t.bucket] \in Bucket
    BY <1>0 DEF IInv, LInv, LedgerTypeOK, Task
  <1>2. /\ t.allowance \in granted /\ events[t.key].status = "none"
        /\ Allows(t.allowance, Used(t.bucket) + t.quantity)
        /\ t.wrote = [committed |-> buckets[t.bucket].committed,
                      reserved |-> buckets[t.bucket].reserved + t.quantity]
    BY <1>0 DEF IInv, TaskInv, Fits, NewKey
  <1>3. buckets' = [buckets EXCEPT ![t.bucket].reserved = @ + t.quantity]
    BY <1>0, <1>1, <1>2 DEF ReserveCommit, Bucket
  <1> QED
    BY <1>0, <1>2, <1>3 DEF ReserveCommit, Reserve

LEMMA CommitOthers ==
    ASSUME IInv, NEW p \in Procs, tasks[p] \in Task, End(p), granted' = granted,
           bucketLock[tasks[p].bucket] = p, eventLock[tasks[p].key] = p,
           \A b \in Buckets \ {tasks[p].bucket} : buckets'[b] = buckets[b],
           \A k \in Keys \ {tasks[p].key} : events'[k] = events[k]
    PROVE  \A r \in Procs : TaskInv(r)'
  <1> SUFFICES ASSUME NEW r \in Procs PROVE TaskInv(r)'
    OBVIOUS
  <1>1. CASE r = p
    BY <1>1, EndTypes, IdleKeeps DEF IInv
  <1>2. CASE r # p
    <2>1. /\ tasks'[r] = tasks[r]
          /\ \A b \in Buckets : bucketLock[b] = r => bucketLock'[b] = r
          /\ \A k \in Keys : eventLock[k] = r => eventLock'[k] = r
      BY <1>2, EndTypes DEF IInv
    <2>2. tasks[r].at # "idle" => tasks[r].bucket \in Buckets /\ tasks[r].key \in Keys
      BY TaskFields DEF IInv, Task
    <2>3. /\ bucketLock[tasks[r].bucket] = r => tasks[r].bucket # tasks[p].bucket
          /\ eventLock[tasks[r].key] = r => tasks[r].key # tasks[p].key
      BY <1>2
    <2> QED
      BY <2>1, <2>2, <2>3, OthersKeep DEF IInv
  <1> QED
    BY <1>1, <1>2

LEMMA ReserveCommitStep ==
    ASSUME IInv, NEW p \in Procs, ReserveCommit(p)
    PROVE  IInv'
  <1> DEFINE t == tasks[p]
  <1>0. t \in Task /\ t.at = "commit_reserve" /\ End(p)
    BY TaskFields DEF IInv, ReserveCommit
  <1>1. LInv'
    BY <1>0, ReserveCommitReserves, ReserveKeeps DEF IInv, Task
  <1>2. Types'
    BY <1>0, EndTypes DEF IInv
  <1>3. bucketLock[t.bucket] = p /\ eventLock[t.key] = p
    BY <1>0 DEF IInv, TaskInv, HasBucket, HasKey
  <1>4. /\ granted' = granted
        /\ \A b \in Buckets \ {t.bucket} : buckets'[b] = buckets[b]
        /\ \A k \in Keys \ {t.key} : events'[k] = events[k]
    BY DEF ReserveCommit, IInv, LInv, LedgerTypeOK
  <1> QED
    BY <1>0, <1>1, <1>2, <1>3, <1>4, CommitOthers DEF IInv

LEMMA SettleBeginStep ==
    ASSUME IInv, NEW p \in Procs, NEW k \in Keys, NEW outcome \in {"committed", "released"},
           SettleBegin(p, k, outcome)
    PROVE  IInv'
  <1> DEFINE e == events[k]
  <1>0. e \in Event /\ e.status = "reserved" /\ e.quantity \in Quantities /\ limit \in Limits
    BY PendingIsHeld DEF IInv, LInv, LedgerTypeOK, SettleBegin
  <1>1. LInv'
    BY LedgerStays DEF IInv, SettleBegin
  <1>2. tasks'[p] = Started("lock_settled_bucket", k, e.bucket, e.quantity, outcome)
    BY DEF IInv, Types, SettleBegin
  <1>3. Types'
    BY <1>0 DEF IInv, Types, SettleBegin, Started, Nothing, Task, Steps, Statuses, Event, Bucket
  <1>4. ASSUME NEW r \in Procs, r # p
        PROVE  TaskInv(r)'
    <2>1. /\ tasks'[r] = tasks[r] /\ bucketLock' = bucketLock
          /\ \A j \in Keys : eventLock[j] = r => eventLock'[j] = r
      BY <1>4, NobodyIsNoProc DEF IInv, Types, SettleBegin
    <2>2. tasks[r].at # "idle" => tasks[r] \in Task
      BY TaskFields DEF IInv
    <2> QED
      BY <2>1, <2>2, OthersKeep DEF IInv, SettleBegin, ledger, Task
  <1>5. e = [status |-> "reserved", quantity |-> e.quantity, bucket |-> e.bucket]
    BY <1>0 DEF Event
  <1>6. eventLock'[k] = p
    BY DEF IInv, Types, SettleBegin
  <1>7. TaskInv(p)'
    BY <1>2, <1>5, <1>6 DEF SettleBegin, ledger, Started, TaskInv, HasBucket, HasKey, Fits, NewKey,
                            StillPending, SettlesAll
  <1> QED
    BY <1>1, <1>3, <1>4, <1>7 DEF IInv

\* The bucket holds at least what is to be settled: the cut at zero takes nothing.
LEMMA LockSettledBucketStep ==
    ASSUME IInv, NEW p \in Procs, LockSettledBucket(p)
    PROVE  IInv'
  <1> DEFINE t == tasks[p]
             had == buckets[t.bucket]
             after == [committed |-> IF t.outcome = "committed" THEN had.committed + t.quantity
                                     ELSE had.committed,
                       reserved |-> had.reserved - t.quantity]
  <1>0. t \in Task /\ t.at = "lock_settled_bucket" /\ had \in Bucket /\ t.quantity \in Nat
    BY TaskFields, QuantitiesArePositive DEF IInv, LInv, LedgerTypeOK, LockSettledBucket, Task
  <1>1. LInv'
    BY LedgerStays DEF IInv, LockSettledBucket
  <1>2. /\ t.outcome \in {"committed", "released"}
        /\ events[t.key] = [status |-> "reserved", quantity |-> t.quantity, bucket |-> t.bucket]
    BY <1>0 DEF IInv, TaskInv, StillPending
  <1>3. had.reserved >= t.quantity
    <2>1. t.key \in Keys /\ events[t.key].status = "reserved"
          /\ events[t.key].quantity = t.quantity /\ events[t.key].bucket = t.bucket
      BY <1>0, <1>2 DEF Task
    <2> QED
      BY <2>1, PendingIsHeld DEF IInv
  <1>4. after \in Bucket
    BY <1>0, <1>3 DEF Bucket
  <1>5. tasks' = [tasks EXCEPT ![p] = [t EXCEPT !.at = "commit_settle", !.wrote = after]]
    BY <1>3 DEF LockSettledBucket
  <1> DEFINE n == [t EXCEPT !.at = "commit_settle", !.wrote = after]
  <1>8. /\ n \in Task /\ n.at = "commit_settle" /\ n.bucket = t.bucket /\ n.key = t.key
        /\ n.quantity = t.quantity /\ n.outcome = t.outcome /\ n.wrote = after
    <2> HIDE DEF after
    <2> QED
      <3>1. "commit_settle" \in Steps /\ t \in Task /\ after \in Bucket
        BY <1>0, <1>4 DEF Steps
      <3>2. n = [t EXCEPT !.at = "commit_settle", !.wrote = after]
        OBVIOUS
      <3> HIDE DEF n, t
      <3> QED
        BY <3>1, <3>2 DEF Task
  <1>6. Types' /\ tasks'[p] = n /\ bucketLock'[t.bucket] = p
    <2> HIDE DEF after, n
    <2>0. tasks' = [tasks EXCEPT ![p] = n]
      BY <1>5 DEF n
    <2>1. tasks' \in [Procs -> Task \union {Idle}] /\ tasks'[p] = n
      BY <2>0, <1>8 DEF IInv, Types
    <2>2. bucketLock' \in [Buckets -> Procs \union {NoProc}] /\ bucketLock'[t.bucket] = p
      BY <1>0 DEF IInv, Types, Task, LockSettledBucket
    <2> QED
      BY <2>1, <2>2 DEF IInv, Types, LockSettledBucket
  <1>7. ASSUME NEW r \in Procs, r # p
        PROVE  TaskInv(r)'
    <2>1. /\ tasks'[r] = tasks[r] /\ eventLock' = eventLock
          /\ \A b \in Buckets : bucketLock[b] = r => bucketLock'[b] = r
      BY <1>0, <1>5, <1>7, NobodyIsNoProc DEF IInv, Types, LockSettledBucket
    <2>2. tasks[r].at # "idle" => tasks[r] \in Task
      BY TaskFields DEF IInv
    <2> QED
      BY <2>1, <2>2, OthersKeep DEF IInv, LockSettledBucket, ledger, Task
  <1>9. TaskInv(p)'
    <2>1. eventLock[t.key] = p
      BY <1>0 DEF IInv, TaskInv, HasKey
    <2> HIDE DEF n
    <2> QED
      BY <1>0, <1>2, <1>6, <1>8, <2>1
         DEF LockSettledBucket, ledger, TaskInv, HasBucket, HasKey, Fits, NewKey, StillPending, SettlesAll
  <1> QED
    BY <1>1, <1>6, <1>7, <1>9 DEF IInv

\* The commit of a settlement settles the whole pending reservation, once.
LEMMA SettleCommitSettles ==
    ASSUME IInv, NEW p \in Procs, SettleCommit(p)
    PROVE  /\ tasks[p] \in Task /\ tasks[p].outcome \in {"committed", "released"}
           /\ Settle(tasks[p].key, tasks[p].outcome)
  <1> DEFINE t == tasks[p]
             b == t.bucket
             r == buckets[b].reserved - t.quantity
             d == IF t.outcome = "committed" THEN buckets[b].committed + t.quantity
                  ELSE buckets[b].committed
             two == [buckets EXCEPT ![b].reserved = @ - t.quantity,
                                    ![b].committed = IF t.outcome = "committed"
                                                     THEN @ + t.quantity ELSE @]
  <1>0. t \in Task /\ t.at = "commit_settle" /\ b \in Buckets /\ t.key \in Keys /\ t.quantity \in Nat
    BY TaskFields, QuantitiesArePositive DEF IInv, SettleCommit, Task
  <1>1. buckets[b] \in Bucket /\ buckets \in [Buckets -> Bucket]
    BY <1>0 DEF IInv, LInv, LedgerTypeOK
  <1>2. /\ t.outcome \in {"committed", "released"}
        /\ events[t.key] = [status |-> "reserved", quantity |-> t.quantity, bucket |-> b]
        /\ t.wrote = [committed |-> d, reserved |-> r]
    BY <1>0 DEF IInv, TaskInv, StillPending, SettlesAll
  <1>3. buckets' = [buckets EXCEPT ![b] = [committed |-> d, reserved |-> r]]
    BY <1>2 DEF SettleCommit
  <1>4. two[b] = [committed |-> d, reserved |-> r]
    BY <1>0, <1>1 DEF Bucket
  <1>5. two = [buckets EXCEPT ![b] = [committed |-> d, reserved |-> r]]
    BY <1>0, <1>1, <1>4
  <1> QED
    BY <1>0, <1>2, <1>3, <1>5 DEF SettleCommit, Settle

LEMMA SettleCommitStep ==
    ASSUME IInv, NEW p \in Procs, SettleCommit(p)
    PROVE  IInv'
  <1> DEFINE t == tasks[p]
  <1>0. t \in Task /\ t.at = "commit_settle" /\ End(p)
    BY TaskFields DEF IInv, SettleCommit
  <1>1. LInv'
    BY <1>0, SettleCommitSettles, SettleKeeps DEF IInv, Task
  <1>2. Types'
    BY <1>0, EndTypes DEF IInv
  <1>3. bucketLock[t.bucket] = p /\ eventLock[t.key] = p
    BY <1>0 DEF IInv, TaskInv, HasBucket, HasKey
  <1>4. /\ granted' = granted
        /\ \A b \in Buckets \ {t.bucket} : buckets'[b] = buckets[b]
        /\ \A k \in Keys \ {t.key} : events'[k] = events[k]
    BY DEF SettleCommit, IInv, LInv, LedgerTypeOK
  <1> QED
    BY <1>0, <1>1, <1>2, <1>3, <1>4, CommitOthers DEF IInv

LEMMA AbandonStep ==
    ASSUME IInv, NEW p \in Procs, Abandon(p)
    PROVE  IInv'
  <1>1. LInv'
    BY LedgerStays DEF IInv, Abandon
  <1>2. Types'
    BY EndTypes DEF IInv, Abandon
  <1>3. ASSUME NEW r \in Procs, r # p
        PROVE  TaskInv(r)'
    <2>1. /\ tasks'[r] = tasks[r]
          /\ \A b \in Buckets : bucketLock[b] = r => bucketLock'[b] = r
          /\ \A k \in Keys : eventLock[k] = r => eventLock'[k] = r
      BY <1>3, EndTypes DEF IInv, Abandon
    <2>2. tasks[r].at # "idle" => tasks[r] \in Task
      BY TaskFields DEF IInv
    <2> QED
      BY <2>1, <2>2, OthersKeep DEF IInv, Abandon, ledger, Task
  <1>4. TaskInv(p)'
    BY EndTypes, IdleKeeps DEF IInv, Abandon
  <1> QED
    BY <1>1, <1>2, <1>3, <1>4 DEF IInv

LEMMA SystemStep == IInv /\ [SystemNext]_vars => IInv'
  <1> SUFFICES ASSUME IInv, [SystemNext]_vars PROVE IInv'
    OBVIOUS
  <1>1. CASE ChangeLimit /\ UNCHANGED <<tasks, bucketLock, eventLock>>
    BY <1>1, LimitStep
  <1>2. ASSUME NEW p \in Procs, NEW k \in Keys, NEW b \in Buckets, NEW q \in Quantities,
               ReserveBegin(p, k, b, q)
        PROVE  IInv'
    BY <1>2, ReserveBeginStep
  <1>3. ASSUME NEW p \in Procs, NEW k \in Keys, NEW outcome \in {"committed", "released"},
               SettleBegin(p, k, outcome)
        PROVE  IInv'
    BY <1>3, SettleBeginStep
  <1>4. ASSUME NEW p \in Procs, Proceed(p)
        PROVE  IInv'
    BY <1>4, LockBucketStep, InsertEventStep, ReserveCommitStep, LockSettledBucketStep,
       SettleCommitStep DEF Proceed
  <1>5. ASSUME NEW p \in Procs, Abandon(p)
        PROVE  IInv'
    BY <1>5, AbandonStep
  <1>6. CASE UNCHANGED vars
    <2>1. LInv' /\ Types'
      BY <1>6, LedgerStays DEF IInv, vars, ledger, Types
    <2>2. \A r \in Procs : TaskInv(r)'
      BY <1>6, OthersKeep DEF IInv, vars, ledger
    <2> QED
      BY <2>1, <2>2 DEF IInv
  <1> QED
    BY <1>1, <1>2, <1>3, <1>4, <1>5, <1>6 DEF SystemNext

LEMMA InvariantHolds == SystemSpec => []IInv
  BY SystemStarts, SystemStep, PTL DEF SystemSpec
-----------------------------------------------------------------------------
\* Every variable keeps its shape, for any number of requests (entitlement_resolver.py).
THEOREM TypesHold == SystemSpec => []TypeOK
  <1>1. IInv => TypeOK
    BY DEF IInv, LInv, LedgerTypeOK, Types, TypeOK
  <1> QED
    BY <1>1, InvariantHolds, PTL

\* However many requests reserve and settle at once, fail or crash, no bucket outgrows the
\* allowances that were in force (reserve_usage, settle_usage_reservation).
THEOREM AllowanceAlwaysKept == SystemSpec => []AllowanceKept
  <1>1. IInv => AllowanceKept
    BY DEF IInv, LInv
  <1> QED
    BY <1>1, InvariantHolds, PTL

LEMMA LedgerRefined ==
    ASSUME IInv, [SystemNext]_vars
    PROVE  [Next]_ledger
  <1>1. ASSUME NEW p \in Procs, ReserveCommit(p)
        PROVE  Next
    BY <1>1, ReserveCommitReserves DEF Next, Task
  <1>2. ASSUME NEW p \in Procs, SettleCommit(p)
        PROVE  Next
    BY <1>2, SettleCommitSettles DEF Next, Task
  <1>3. ASSUME NEW p \in Procs, LockBucket(p) \/ InsertEvent(p) \/ LockSettledBucket(p) \/ Abandon(p)
        PROVE  UNCHANGED ledger
    BY <1>3 DEF LockBucket, InsertEvent, LockSettledBucket, Abandon
  <1>4. ASSUME NEW p \in Procs, NEW k \in Keys, NEW b \in Buckets, NEW q \in Quantities,
               ReserveBegin(p, k, b, q)
        PROVE  UNCHANGED ledger
    BY <1>4 DEF ReserveBegin
  <1>5. ASSUME NEW p \in Procs, NEW k \in Keys, NEW outcome \in {"committed", "released"},
               SettleBegin(p, k, outcome)
        PROVE  UNCHANGED ledger
    BY <1>5 DEF SettleBegin
  <1>6. CASE UNCHANGED vars
    BY <1>6 DEF vars
  <1>7. CASE ChangeLimit
    BY <1>7 DEF Next
  <1> QED
    BY <1>1, <1>2, <1>3, <1>4, <1>5, <1>6, <1>7 DEF SystemNext, Proceed

\* reserve_usage and settle_usage_reservation, run by any number of concurrent requests,
\* implement the ledger, in which each reservation and each settlement happens at once.
THEOREM RequestsImplementLedger == SystemSpec => ImplementsLedger
  <1>1. SystemInit => Ledger!Init
    BY DEF SystemInit, Init, Ledger!Init
  <1>2. IInv /\ [SystemNext]_vars => [Ledger!Next]_(Ledger!ledger)
    BY LedgerRefined DEF Next, ledger, ChangeLimit, Reserve, Settle, Allows, Used, Unlimited,
       Ledger!Next, Ledger!ledger, Ledger!ChangeLimit, Ledger!Reserve, Ledger!Settle,
       Ledger!Allows, Ledger!Used, Ledger!Unlimited
  <1> QED
    BY <1>1, <1>2, InvariantHolds, PTL DEF SystemSpec, ImplementsLedger, Ledger!Spec
-----------------------------------------------------------------------------
(* EntitlementGrants *)

LEMMA GrantsStep == [GrantsNext]_allVars => [SystemNext]_vars
  <1> SUFFICES ASSUME [GrantsNext]_allVars PROVE [SystemNext]_vars
    OBVIOUS
  <1>1. CASE Bind \/ Begins \/ Ends
    BY <1>1 DEF Bind, Begins, Ends, Resolved, SystemNext
  <1>2. CASE Requested
    BY <1>2 DEF Requested, SystemNext
  <1>3. CASE UNCHANGED allVars
    BY <1>3 DEF allVars
  <1> QED
    BY <1>1, <1>2, <1>3 DEF GrantsNext

\* With plans bound and unbound and grants beginning and ending under way, the requests of
\* reserve_usage and settle_usage_reservation still implement the ledger.
THEOREM GrantedRequestsImplementLedger == GrantsSpec => ImplementsLedger
  <1>1. GrantsInit => SystemInit
    BY DEF GrantsInit
  <1>2. GrantsSpec => SystemSpec
    BY <1>1, GrantsStep, PTL DEF GrantsSpec, SystemSpec
  <1> QED
    BY <1>2, RequestsImplementLedger

\* No bucket outgrows what the grants and the bound plan once allowed (_new_decision).
THEOREM GrantedAllowanceKept == GrantsSpec => []AllowanceKept
  <1>1. GrantsInit => SystemInit
    BY DEF GrantsInit
  <1>2. GrantsSpec => SystemSpec
    BY <1>1, GrantsStep, PTL DEF GrantsSpec, SystemSpec
  <1> QED
    BY <1>2, AllowanceAlwaysKept
-----------------------------------------------------------------------------
(* Allowances.  What a set of grants adds up to is a fold that takes one grant after another; *)
(* in whatever order it does, a set of more grants comes to at least as much.                 *)

LEMMA Least ==
    ASSUME NEW S \in SUBSET Nat, S # {}
    PROVE  \E x \in S : \A y \in S : x <= y
  <1>1. PICK x \in S : \A y \in S : <<y, x>> \notin OpToRel(<, Nat)
    BY NatLessThanWellFounded, WFMin, Zenon
  <1>2. \A y \in S : ~(y < x)
    BY <1>1 DEF OpToRel
  <1> QED
    BY <1>2

\* The element a sum takes next, and what is left.

Picked(S) == CHOOSE x \in S : TRUE
Rest(S) == S \ {Picked(S)}

\* Induction over finite sets, stated of a set of subsets.
LEMMA SetsByPicking ==
    ASSUME NEW S, IsFiniteSet(S), NEW F, {} \in F,
           \A T \in SUBSET S : T # {} /\ Rest(T) \in F => T \in F
    PROVE  \A T \in SUBSET S : T \in F
  <1> DEFINE Bad == {T \in SUBSET S : T \notin F}
             Counts == {Cardinality(T) : T \in Bad}
  <1>1. \A T \in SUBSET S : IsFiniteSet(T) /\ Cardinality(T) \in Nat
    BY FS_Subset, FS_CardinalityType
  <1>2. ASSUME Bad # {}
        PROVE  FALSE
    <2>1. Counts \in SUBSET Nat /\ Counts # {}
      BY <1>1, <1>2
    <2>2. PICK n \in Counts : \A m \in Counts : n <= m
      BY <2>1, Least
    <2>3. PICK T \in Bad : Cardinality(T) = n
      BY <2>2
    <2>4. T # {} /\ T \in SUBSET S
      BY <2>3
    <2>5. Picked(T) \in T
      BY <2>4 DEF Picked
    <2>6. Rest(T) \in SUBSET S /\ Cardinality(Rest(T)) = Cardinality(T) - 1
      BY <1>1, <2>4, <2>5, FS_RemoveElement DEF Rest
    <2>7. Cardinality(Rest(T)) \notin Counts
      BY <1>1, <2>1, <2>2, <2>3, <2>4, <2>6
    <2>8. Rest(T) \in F
      BY <2>6, <2>7
    <2> QED
      BY <2>3, <2>4, <2>8
  <1> QED
    BY <1>2

LEMMA RestIsSmaller ==
    ASSUME NEW T, IsFiniteSet(T), T # {}
    PROVE  /\ Picked(T) \in T /\ IsFiniteSet(Rest(T)) /\ Rest(T) \subseteq T
           /\ Cardinality(T) \in Nat /\ Cardinality(Rest(T)) = Cardinality(T) - 1
  <1>1. Picked(T) \in T
    BY DEF Picked
  <1> QED
    BY <1>1, FS_RemoveElement, FS_CardinalityType, FS_Subset DEF Rest

\* g adds up the values of the subsets of S, or those of at most n grants.
Small(S, n) == {T \in SUBSET S : Cardinality(T) <= n}
FoldOver(Sets, g) ==
    g = [s \in Sets |-> IF s = {} THEN 0 ELSE Value(Picked(s)) + g[Rest(s)]]
Fold(S, g) == FoldOver(SUBSET S, g)

Total(S) == MapThenSumSet(Value, S)
TheFold(S) == CHOOSE g : Fold(S, g)

LEMMA TotalIsFold ==
    ASSUME NEW S
    PROVE  Total(S) = TheFold(S)[S]
  BY Zenon DEF Total, MapThenSumSet, MapThenFoldSet, TheFold, Fold, FoldOver, Picked, Rest, Value

LEMMA FoldExists ==
    ASSUME NEW S, IsFiniteSet(S)
    PROVE  Fold(S, TheFold(S))
  <1> DEFINE Bad == {n \in Nat : ~\E g : FoldOver(Small(S, n), g)}
  <1>0. \A T \in SUBSET S : IsFiniteSet(T) /\ Cardinality(T) \in Nat
    BY FS_Subset, FS_CardinalityType
  <1>1. FoldOver(Small(S, 0), [s \in Small(S, 0) |-> 0])
    <2>1. \A s \in Small(S, 0) : s = {}
      BY <1>0, FS_EmptySet DEF Small
    <2> QED
      BY <2>1 DEF FoldOver
  <1>2. ASSUME NEW n \in Nat, NEW g, FoldOver(Small(S, n), g)
        PROVE  \E h : FoldOver(Small(S, n + 1), h)
    <2> DEFINE h == [s \in Small(S, n + 1) |->
                        IF s = {} THEN 0 ELSE Value(Picked(s)) + g[Rest(s)]]
    <2>1. \A s \in Small(S, n) : s \in Small(S, n + 1)
      BY <1>0 DEF Small
    <2>2. \A s \in Small(S, n) : g[s] = IF s = {} THEN 0 ELSE Value(Picked(s)) + g[Rest(s)]
      BY <1>2 DEF FoldOver
    <2>3. \A s \in Small(S, n) : h[s] = g[s]
      BY <2>1, <2>2
    <2>4. \A s \in Small(S, n + 1) : s # {} => Rest(s) \in Small(S, n)
      BY <1>0, RestIsSmaller DEF Small
    <2>5. \A s \in Small(S, n + 1) : h[s] = IF s = {} THEN 0 ELSE Value(Picked(s)) + h[Rest(s)]
      BY <2>3, <2>4
    <2>6. h = [s \in Small(S, n + 1) |-> h[s]]
      OBVIOUS
    <2> HIDE DEF h
    <2> QED
      BY <2>5, <2>6 DEF FoldOver
  <1>3. Bad = {}
    <2> SUFFICES ASSUME Bad # {} PROVE FALSE
      OBVIOUS
    <2>1. PICK n \in Bad : \A m \in Bad : n <= m
      BY Least
    <2>2. n # 0
      BY <1>1
    <2>3. n - 1 \in Nat /\ n - 1 \notin Bad
      BY <2>1, <2>2
    <2>4. PICK g : FoldOver(Small(S, n - 1), g)
      BY <2>3
    <2>5. \E h : FoldOver(Small(S, (n - 1) + 1), h)
      BY <1>2, <2>3, <2>4
    <2>6. (n - 1) + 1 = n
      OBVIOUS
    <2> QED
      BY <2>5, <2>6
  <1>4. PICK g : FoldOver(Small(S, Cardinality(S)), g)
    BY <1>0, <1>3
  <1>5. Small(S, Cardinality(S)) = SUBSET S
    BY <1>0, FS_Subset DEF Small
  <1> QED
    BY <1>4, <1>5, Zenon DEF TheFold, Fold

LEMMA FoldUnique ==
    ASSUME NEW S, IsFiniteSet(S), NEW g, Fold(S, g),
           NEW T \in SUBSET S, NEW h, Fold(T, h)
    PROVE  \A s \in SUBSET T : g[s] = h[s]
  <1> DEFINE F == {s \in SUBSET T : g[s] = h[s]}
  <1>1. \A s \in SUBSET S : g[s] = IF s = {} THEN 0 ELSE Value(Picked(s)) + g[Rest(s)]
    BY DEF Fold, FoldOver
  <1>2. \A s \in SUBSET T : h[s] = IF s = {} THEN 0 ELSE Value(Picked(s)) + h[Rest(s)]
    BY DEF Fold, FoldOver
  <1>3. {} \in F
    BY <1>1, <1>2
  <1>4. \A s \in SUBSET T : s # {} /\ Rest(s) \in F => s \in F
    BY <1>1, <1>2
  <1>5. IsFiniteSet(T)
    BY FS_Subset
  <1> HIDE DEF F
  <1>6. \A s \in SUBSET T : s \in F
    BY <1>3, <1>4, <1>5, SetsByPicking
  <1> QED
    BY <1>6 DEF F

LEMMA TotalOfNone == Total({}) = 0
  <1>1. Fold({}, TheFold({}))
    BY FoldExists, FS_EmptySet
  <1> QED
    BY <1>1, TotalIsFold DEF Fold, FoldOver

LEMMA TotalByPicking ==
    ASSUME NEW S, IsFiniteSet(S), S # {}
    PROVE  Total(S) = Value(Picked(S)) + Total(Rest(S))
  <1> DEFINE g == TheFold(S)
             h == TheFold(Rest(S))
  <1>1. Rest(S) \in SUBSET S /\ IsFiniteSet(Rest(S))
    BY RestIsSmaller
  <1>2. Fold(S, g) /\ Fold(Rest(S), h)
    BY <1>1, FoldExists
  <1>3. Total(S) = g[S] /\ Total(Rest(S)) = h[Rest(S)]
    BY TotalIsFold
  <1> HIDE DEF g, h
  <1>4. g[Rest(S)] = h[Rest(S)]
    BY <1>1, <1>2, FoldUnique
  <1>5. g[S] = Value(Picked(S)) + g[Rest(S)]
    BY <1>2 DEF Fold, FoldOver
  <1> QED
    BY <1>3, <1>4, <1>5

LEMMA TotalsAreNumbers ==
    ASSUME NEW S, IsFiniteSet(S), \A g \in S : g.value \in Nat
    PROVE  Total(S) \in Nat
  <1> DEFINE F == {T \in SUBSET S : Total(T) \in Nat}
  <1>1. {} \in F
    BY TotalOfNone
  <1>2. ASSUME NEW T \in SUBSET S, T # {}, Rest(T) \in F
        PROVE  T \in F
    <2>1. IsFiniteSet(T)
      BY FS_Subset
    <2>2. Total(T) = Picked(T).value + Total(Rest(T)) /\ Picked(T) \in T
      BY <1>2, <2>1, TotalByPicking, RestIsSmaller DEF Value
    <2> QED
      BY <1>2, <2>2
  <1> HIDE DEF F
  <1>3. S \in F
    BY <1>1, <1>2, SetsByPicking
  <1> QED
    BY <1>3 DEF F

\* A grant counts once, whichever is taken first.
Takes(T) == \A z \in T : Total(T) = z.value + Total(T \ {z})

LEMMA TotalWithout ==
    ASSUME NEW S, IsFiniteSet(S), \A g \in S : g.value \in Nat, NEW y \in S
    PROVE  Total(S) = y.value + Total(S \ {y})
  <1> DEFINE F == {T \in SUBSET S : \A V \in SUBSET S :
                      Cardinality(V) = Cardinality(T) => Takes(V)}
  <1>0. \A T \in SUBSET S : /\ IsFiniteSet(T) /\ Cardinality(T) \in Nat
                            /\ Cardinality(T) = 0 <=> T = {}
    BY FS_Subset, FS_CardinalityType, FS_EmptySet
  <1>1. {} \in F
    BY <1>0 DEF Takes
  <1>2. ASSUME NEW T \in SUBSET S, T # {}, Rest(T) \in F
        PROVE  T \in F
    <2> SUFFICES ASSUME NEW V \in SUBSET S, Cardinality(V) = Cardinality(T), NEW z \in V
                 PROVE  Total(V) = z.value + Total(V \ {z})
      BY DEF Takes
    <2> DEFINE p == Picked(V)
               U == V \ {z}
               both == Rest(V) \ {z}
    <2>1. V # {} /\ IsFiniteSet(V)
      BY <1>0, <1>2
    <2>2. Total(V) = p.value + Total(Rest(V)) /\ p \in V /\ Rest(V) = V \ {p}
      BY <2>1, TotalByPicking, RestIsSmaller DEF Rest, Value
    <2>3. Cardinality(Rest(V)) = Cardinality(Rest(T)) /\ Cardinality(U) = Cardinality(Rest(T))
      BY <1>0, <1>2, <2>1, RestIsSmaller, FS_RemoveElement
    <2>4. Takes(Rest(V)) /\ Takes(U)
      <3>1. Rest(V) \in SUBSET S /\ U \in SUBSET S
        BY <2>2
      <3> QED
        BY <1>2, <2>3, <3>1
    <2>5. CASE z = p
      BY <2>2, <2>5
    <2>6. CASE z # p
      <3>1. Total(Rest(V)) = z.value + Total(both)
        BY <2>2, <2>4, <2>6 DEF Takes
      <3>2. p \in U /\ U \ {p} = both
        BY <2>2, <2>6
      <3>3. Total(U) = p.value + Total(both)
        BY <2>4, <3>2 DEF Takes
      <3>4. Total(both) \in Nat
        <4>1. IsFiniteSet(both) /\ both \subseteq S
          BY <1>0, <2>2
        <4> QED
          BY <4>1, TotalsAreNumbers
      <3>5. p.value \in Nat /\ z.value \in Nat
        BY <2>2
      <3> DEFINE n == Total(both)
      <3> HIDE DEF n
      <3>6. Total(V) = p.value + (z.value + n) /\ Total(U) = p.value + n
        BY <2>2, <3>1, <3>3 DEF n
      <3> QED
        BY <3>4, <3>5, <3>6 DEF n
    <2> QED
      BY <2>5, <2>6
  <1> HIDE DEF F
  <1>3. S \in F
    BY <1>1, <1>2, SetsByPicking
  <1> QED
    BY <1>3 DEF F, Takes

\* More grants that add add up to more.
LEMMA TotalGrows ==
    ASSUME NEW S, IsFiniteSet(S), \A g \in S : g.value \in Nat, NEW V \in SUBSET S
    PROVE  Total(V) <= Total(S)
  <1> DEFINE F == {T \in SUBSET S : \A U \in SUBSET T : Total(U) <= Total(T)}
  <1>0. \A T \in SUBSET S : IsFiniteSet(T) /\ Total(T) \in Nat
    BY FS_Subset, TotalsAreNumbers
  <1>1. {} \in F
    BY <1>0
  <1>2. ASSUME NEW T \in SUBSET S, T # {}, Rest(T) \in F
        PROVE  T \in F
    <2> SUFFICES ASSUME NEW U \in SUBSET T PROVE Total(U) <= Total(T)
      OBVIOUS
    <2> DEFINE p == Picked(T)
    <2>1. Total(T) = p.value + Total(Rest(T)) /\ p \in T /\ Rest(T) = T \ {p}
      BY <1>0, <1>2, TotalByPicking, RestIsSmaller DEF Rest, Value
    <2>2. \A W \in SUBSET Rest(T) : Total(W) <= Total(Rest(T))
      BY <1>2
    <2>3. p.value \in Nat /\ Total(Rest(T)) \in Nat /\ Total(U) \in Nat
      BY <1>0, <2>1
    <2>4. CASE p \notin U
      <3>1. Total(U) <= Total(Rest(T))
        BY <2>1, <2>2, <2>4
      <3> QED
        BY <2>1, <2>3, <3>1
    <2>5. CASE p \in U
      <3>1. Total(U) = p.value + Total(U \ {p})
        BY <1>0, <2>5, TotalWithout
      <3>2. Total(U \ {p}) <= Total(Rest(T)) /\ Total(U \ {p}) \in Nat
        BY <1>0, <2>1, <2>2
      <3> QED
        BY <2>1, <2>3, <3>1, <3>2
    <2> QED
      BY <2>4, <2>5
  <1> HIDE DEF F
  <1>3. S \in F
    BY <1>1, <1>2, SetsByPicking
  <1> QED
    BY <1>3 DEF F

\* One of finitely many grants is the largest.
LEMMA Largest ==
    ASSUME NEW S, IsFiniteSet(S), \A g \in S : g.value \in Nat, S # {}
    PROVE  \E g \in S : \A h \in S : g.value >= h.value
  <1> DEFINE F == {T \in SUBSET S : T = {} \/ \E g \in T : \A h \in T : g.value >= h.value}
  <1>1. {} \in F
    OBVIOUS
  <1>2. ASSUME NEW T \in SUBSET S, T # {}, Rest(T) \in F
        PROVE  T \in F
    <2>1. Picked(T) \in T /\ Rest(T) = T \ {Picked(T)}
      BY <1>2, FS_Subset, RestIsSmaller DEF Rest
    <2>2. CASE Rest(T) = {}
      <3>1. \A h \in T : Picked(T).value >= h.value
        BY <2>1, <2>2
      <3> QED
        BY <2>1, <3>1
    <2>3. CASE Rest(T) # {}
      <3>1. PICK g \in Rest(T) : \A h \in Rest(T) : g.value >= h.value
        BY <1>2, <2>3
      <3>2. g.value \in Nat /\ Picked(T).value \in Nat /\ \A h \in T : h.value \in Nat
        BY <2>1, <3>1
      <3>3. CASE g.value >= Picked(T).value
        BY <2>1, <3>1, <3>3
      <3>4. CASE Picked(T).value >= g.value
        <4>1. \A h \in T : Picked(T).value >= h.value
          BY <2>1, <3>1, <3>2, <3>4
        <4> QED
          BY <2>1, <4>1
      <3> QED
        BY <3>2, <3>3, <3>4
    <2> QED
      BY <2>2, <2>3
  <1> HIDE DEF F
  <1>3. S \in F
    BY <1>1, <1>2, SetsByPicking
  <1> QED
    BY <1>3 DEF F

Highest(S) == Max({0} \union {g.value : g \in S})

LEMMA HighestFound ==
    ASSUME NEW S, IsFiniteSet(S), \A g \in S : g.value \in Nat
    PROVE  /\ Highest(S) \in Nat /\ Highest(S) \in {0} \union {g.value : g \in S}
           /\ \A g \in S : g.value <= Highest(S)
  <1> DEFINE values == {0} \union {g.value : g \in S}
  <1>1. values \subseteq Nat
    OBVIOUS
  <1>2. \E x \in values : \A y \in values : x >= y
    <2>1. CASE S = {}
      BY <2>1
    <2>2. CASE S # {}
      <3>1. PICK g \in S : \A h \in S : g.value >= h.value
        BY <2>2, Largest
      <3>2. g.value \in values /\ \A y \in values : g.value >= y
        BY <3>1
      <3> QED
        BY <3>2
    <2> QED
      BY <2>1, <2>2
  <1>3. Highest(S) \in values /\ \A y \in values : Highest(S) >= y
    BY <1>2 DEF Highest, Max
  <1> QED
    BY <1>1, <1>3

LEMMA CombinedGrows ==
    ASSUME NEW more \in SUBSET Grant, IsFiniteSet(more), NEW all \in SUBSET more
    PROVE  Atleast(Combined(more), Combined(all))
  <1>1. \A g \in more : g.value \in Nat \union {Unlimited}
    BY LimitsAreNumbers DEF Grant
  <1>2. CASE \E g \in more : g.value = Unlimited
    BY <1>2 DEF Combined, Atleast
  <1>3. CASE ~\E g \in more : g.value = Unlimited
    <2> DEFINE Added(s) == Values(s, {"add", "set"})
               Raised(s) == Values(s, {"max"})
    <2>1. \A g \in more : g.value \in Nat
      BY <1>1, <1>3
    <2>2. /\ IsFiniteSet(all) /\ IsFiniteSet(Added(more)) /\ IsFiniteSet(Raised(more))
          /\ IsFiniteSet(Added(all)) /\ IsFiniteSet(Raised(all))
      BY FS_Subset DEF Values
    <2>3. /\ Added(more) \subseteq more /\ Raised(more) \subseteq more
          /\ Added(all) \subseteq Added(more) /\ Raised(all) \subseteq Raised(more)
      BY DEF Values
    <2>4. /\ Combined(more) = Total(Added(more)) + Highest(Raised(more))
          /\ Combined(all) = Total(Added(all)) + Highest(Raised(all))
      BY <1>3 DEF Combined, Total, Highest
    <2> HIDE DEF Added, Raised
    <2>5. /\ Total(Added(more)) \in Nat /\ Total(Added(all)) \in Nat
          /\ Total(Added(all)) <= Total(Added(more))
      <3>1. \A g \in Added(more) : g.value \in Nat
        BY <2>1, <2>3
      <3>2. \A g \in Added(all) : g.value \in Nat
        BY <2>3, <3>1
      <3> QED
        BY <2>2, <2>3, <3>1, <3>2, TotalsAreNumbers, TotalGrows
    <2>6. /\ Highest(Raised(more)) \in Nat /\ Highest(Raised(all)) \in Nat
          /\ Highest(Raised(all)) <= Highest(Raised(more))
      <3>1. \A g \in Raised(more) : g.value \in Nat
        BY <2>1, <2>3
      <3>2. \A g \in Raised(all) : g.value \in Nat
        BY <2>3, <3>1
      <3>3. /\ Highest(Raised(more)) \in Nat
            /\ \A g \in Raised(more) : g.value <= Highest(Raised(more))
        BY <2>2, <3>1, HighestFound
      <3>4. Highest(Raised(all)) \in Nat /\ Highest(Raised(all)) \in {0} \union {g.value : g \in Raised(all)}
        BY <2>2, <3>2, HighestFound
      <3> QED
        BY <2>3, <3>3, <3>4
    <2>7. Combined(all) <= Combined(more) /\ Combined(all) # Unlimited
      <3> DEFINE a == Total(Added(all))
                 b == Total(Added(more))
                 c == Highest(Raised(all))
                 d == Highest(Raised(more))
      <3>1. a \in Nat /\ b \in Nat /\ c \in Nat /\ d \in Nat /\ a <= b /\ c <= d
        BY <2>5, <2>6
      <3>2. Combined(more) = b + d /\ Combined(all) = a + c
        BY <2>4
      <3> HIDE DEF a, b, c, d
      <3> QED
        BY <3>1, <3>2 DEF Unlimited
    <2> QED
      BY <2>7 DEF Atleast
  <1> QED
    BY <1>2, <1>3

\* The limit in force is what finitely many grants come to.
GInv ==
    /\ limit = Allowance /\ bound \in BOOLEAN
    /\ grants \subseteq TenantGrants /\ IsFiniteSet(grants)

Known == OfferGrants \union grants

LEMMA AllowanceGrows ==
    ASSUME GInv, GInv', grants \subseteq grants', bound' = bound, Overrides' = Overrides
    PROVE  Atleast(limit', limit)
  <1>1. Winners' = Winners
    BY Zenon DEF Winners
  <1>2. Conflict' <=> Conflict
    BY <1>1, Zenon DEF Conflict
  <1>3. limit = Allowance /\ limit' = Allowance'
    BY DEF GInv
  <1>4. CASE ~bound \/ Conflict \/ \E g \in Winners : g.mode = "deny"
    <2>1. Allowance = 0
      BY <1>4 DEF Allowance
    <2>2. Allowance' = 0
      BY <1>1, <1>2, <1>4 DEF Allowance
    <2> QED
      BY <1>3, <2>1, <2>2 DEF Atleast, Unlimited
  <1>5. CASE /\ ~(~bound \/ Conflict \/ \E g \in Winners : g.mode = "deny")
             /\ Winners # {}
    <2> DEFINE w == CHOOSE g \in Winners : TRUE
    <2>1. Allowance = w.value
      BY <1>5 DEF Allowance
    <2>2. Allowance' = w.value
      BY <1>1, <1>2, <1>5 DEF Allowance
    <2>3. w \in Winners
      BY <1>5
    <2> HIDE DEF w
    <2>4. w \in Grant
      BY <2>3, GrantsAreGrants DEF Winners, Overrides, GInv
    <2>5. w.value \in Nat \union {Unlimited}
      BY <2>4, LimitsAreNumbers DEF Grant
    <2> QED
      BY <1>3, <2>1, <2>2, <2>5 DEF Atleast, Unlimited
  <1>6. CASE /\ ~(~bound \/ Conflict \/ \E g \in Winners : g.mode = "deny")
             /\ Winners = {}
    <2>1. Allowance = Combined(Known)
      BY <1>6 DEF Allowance, Known
    <2>2. Allowance' = Combined(Known')
      BY <1>1, <1>2, <1>6 DEF Allowance, Known
    <2>3. Known' \in SUBSET Grant /\ IsFiniteSet(Known')
      <3>1. grants' \subseteq TenantGrants /\ IsFiniteSet(grants') /\ Known' = OfferGrants \union grants'
        BY DEF GInv, Known
      <3> QED
        BY <3>1, GrantsAreGrants, FS_Union
    <2>4. Known \in SUBSET Known'
      BY DEF Known
    <2> QED
      BY <1>3, <2>1, <2>2, <2>3, <2>4, CombinedGrows
  <1> QED
    BY <1>4, <1>5, <1>6

LEMMA GInvInit == GrantsInit => GInv
  BY FS_EmptySet DEF GrantsInit, GInv

LEMMA RequestedKeepsLimit == Requested => limit' = limit
  <1> SUFFICES ASSUME Requested PROVE limit' = limit
    OBVIOUS
  <1>1. ASSUME NEW p \in Procs, NEW k \in Keys, NEW b \in Buckets, NEW q \in Quantities,
               ReserveBegin(p, k, b, q)
        PROVE  limit' = limit
    BY <1>1 DEF ReserveBegin, ledger
  <1>2. ASSUME NEW p \in Procs, NEW k \in Keys, NEW outcome \in {"committed", "released"},
               SettleBegin(p, k, outcome)
        PROVE  limit' = limit
    BY <1>2 DEF SettleBegin, ledger
  <1>3. ASSUME NEW p \in Procs, Proceed(p)
        PROVE  limit' = limit
    BY <1>3 DEF Proceed, LockBucket, InsertEvent, ReserveCommit, LockSettledBucket, SettleCommit,
                ledger
  <1>4. ASSUME NEW p \in Procs, Abandon(p)
        PROVE  limit' = limit
    BY <1>4 DEF Abandon, ledger
  <1> QED
    BY <1>1, <1>2, <1>3, <1>4 DEF Requested

LEMMA GInvNext == GInv /\ [GrantsNext]_allVars => GInv'
  <1> SUFFICES ASSUME GInv, [GrantsNext]_allVars PROVE GInv'
    OBVIOUS
  <1>1. CASE Bind
    BY <1>1 DEF Bind, Resolved, GInv
  <1>2. CASE Begins
    <2>1. PICK g \in TenantGrants \ grants : grants' = grants \union {g} /\ bound' = bound /\ Resolved
      BY <1>2 DEF Begins
    <2>2. IsFiniteSet(grants')
      BY <2>1, FS_AddElement DEF GInv
    <2> QED
      BY <2>1, <2>2 DEF Resolved, GInv
  <1>3. CASE Ends
    <2>1. PICK g \in grants : grants' = grants \ {g} /\ bound' = bound /\ Resolved
      BY <1>3 DEF Ends
    <2>2. IsFiniteSet(grants') /\ grants' \subseteq grants
      BY <2>1, FS_Subset DEF GInv
    <2> QED
      BY <2>1, <2>2 DEF Resolved, GInv
  <1>4. ASSUME UNCHANGED <<limit, bound, grants>>
        PROVE  GInv'
    <2>1. Winners' = Winners
      BY <1>4 DEF Winners, Overrides
    <2>2. Allowance' = Allowance
      BY <1>4, <2>1 DEF Allowance, Conflict
    <2> QED
      BY <1>4, <2>2 DEF GInv
  <1>5. CASE Requested /\ UNCHANGED <<bound, grants>>
    BY <1>4, <1>5, RequestedKeepsLimit
  <1>6. CASE UNCHANGED allVars
    BY <1>4, <1>6 DEF allVars, vars, ledger
  <1> QED
    BY <1>1, <1>2, <1>3, <1>5, <1>6 DEF GrantsNext

\* A grant that begins while the overrides stay as they are takes nothing away, for all grants
\* of offers and operators and however they add, raise and override (_active_binding,
\* _new_decision).
THEOREM MoreGrantsAllowNoLess == GrantsSpec => MoreIsNeverLess
  <1> DEFINE GrowsOnly == (grants \subseteq grants' /\ bound' = bound /\ Overrides' = Overrides)
                             => Atleast(limit', limit)
  <1>1. GInv /\ GInv' => GrowsOnly
    BY AllowanceGrows
  <1>2. GInv /\ [GrantsNext]_allVars => [GrowsOnly]_allVars
    BY <1>1, GInvNext
  <1> QED
    BY <1>2, GInvInit, GInvNext, PTL DEF GrantsSpec, MoreIsNeverLess
=============================================================================
