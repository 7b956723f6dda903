------------------------- MODULE UsageReservations -------------------------
(***************************************************************************)
(* Reservations of a metered entitlement of one operator: reserve_usage    *)
(* and settle_usage_reservation of app/services/entitlement_resolver.py,   *)
(* called by requests that run at the same time, fail or are killed.       *)
(*                                                                         *)
(* A request is a transaction (READ COMMITTED): it waits for row locks and *)
(* for keys that another request has inserted, holds them to its end, and  *)
(* what it writes is seen when it commits.  An empty bucket that was never *)
(* inserted is one with nothing in it.                                     *)
(***************************************************************************)
EXTENDS UsageLedger

CONSTANTS Procs, NoProc

ASSUME NobodyIsNoProc == NoProc \notin Procs

VARIABLES
    tasks,          \* what each request is doing
    bucketLock,     \* row locks of buckets,
    eventLock       \*   and of events, also of keys inserted but not yet committed

vars == <<ledger, tasks, bucketLock, eventLock>>

Steps == {"lock_bucket", "insert", "commit_reserve", "lock_settled_bucket", "commit_settle"}

\* `bucket', `quantity' and `allowance' are what was asked for, and `wrote' what the request
\* is to write to the bucket once it commits.
Task == [at: Steps, key: Keys, bucket: Buckets, quantity: Quantities, allowance: Limits,
         outcome: Statuses, wrote: Bucket]

Idle == [at |-> "idle"]
Nothing == [committed |-> 0, reserved |-> 0]
Started(at, k, b, q, outcome) ==
    [at |-> at, key |-> k, bucket |-> b, quantity |-> q, allowance |-> limit,
     outcome |-> outcome, wrote |-> Nothing]

Released(p, lock) == [x \in DOMAIN lock |-> IF lock[x] = p THEN NoProc ELSE lock[x]]

SystemInit ==
    /\ Init
    /\ tasks = [p \in Procs |-> Idle]
    /\ bucketLock = [b \in Buckets |-> NoProc]
    /\ eventLock = [k \in Keys |-> NoProc]

\* A mutation of End: the bucket stays locked.
EndButKeep(p) ==
    /\ tasks' = [tasks EXCEPT ![p] = Idle]
    /\ eventLock' = Released(p, eventLock)
    /\ UNCHANGED bucketLock

\* The transaction ends, committed or not, and its locks with it.
End(p) ==
    /\ tasks' = [tasks EXCEPT ![p] = Idle]
    /\ bucketLock' = Released(p, bucketLock)
    /\ eventLock' = Released(p, eventLock)
-----------------------------------------------------------------------------
(* reserve_usage.  A key that is known gives its reservation back, or is refused. *)

\* check_entitlement has found the allowance; the key is not known yet.
ReserveBegin(p, k, b, q) ==
    /\ tasks[p].at = "idle"
    /\ events[k].status = "none"
    /\ tasks' = [tasks EXCEPT ![p] = Started("lock_bucket", k, b, q, "reserved")]
    /\ UNCHANGED <<ledger, bucketLock, eventLock>>

\* A mutation of LockBucket: the bucket is read without a row lock.
LockBucketFreely(p) ==
    LET t == tasks[p] IN
    /\ t.at = "lock_bucket"
    /\ events[t.key].status = "none" /\ Allows(t.allowance, Used(t.bucket) + t.quantity)
    /\ tasks' = [tasks EXCEPT ![p] =
          [@ EXCEPT !.at = "insert",
                    !.wrote = [buckets[t.bucket] EXCEPT !.reserved = @ + t.quantity]]]
    /\ UNCHANGED <<ledger, bucketLock, eventLock>>

\* The bucket's row lock is waited for; the key is then looked for again, and what the bucket
\* has is compared with the allowance.
LockBucket(p) ==
    LET t == tasks[p] IN
    /\ t.at = "lock_bucket"
    /\ bucketLock[t.bucket] = NoProc
    /\ events[t.key].status = "none" /\ Allows(t.allowance, Used(t.bucket) + t.quantity)
    /\ bucketLock' = [bucketLock EXCEPT ![t.bucket] = p]
    /\ tasks' = [tasks EXCEPT ![p] =
          [@ EXCEPT !.at = "insert",
                    !.wrote = [buckets[t.bucket] EXCEPT !.reserved = @ + t.quantity]]]
    /\ UNCHANGED <<ledger, eventLock>>

\* A mutation of InsertEvent: no unique constraint stands behind the key.
InsertEventAgain(p) ==
    /\ tasks[p].at = "insert"
    /\ tasks' = [tasks EXCEPT ![p].at = "commit_reserve"]
    /\ UNCHANGED <<ledger, bucketLock, eventLock>>

\* The insert waits for another request that is inserting the key, in another bucket.
InsertEvent(p) ==
    LET k == tasks[p].key IN
    /\ tasks[p].at = "insert"
    /\ eventLock[k] = NoProc /\ events[k].status = "none"
    /\ eventLock' = [eventLock EXCEPT ![k] = p]
    /\ tasks' = [tasks EXCEPT ![p].at = "commit_reserve"]
    /\ UNCHANGED <<ledger, bucketLock>>

ReserveCommit(p) ==
    LET t == tasks[p] IN
    /\ t.at = "commit_reserve"
    /\ buckets' = [buckets EXCEPT ![t.bucket] = t.wrote]
    /\ events' = [events EXCEPT ![t.key] =
                     [status |-> "reserved", quantity |-> t.quantity, bucket |-> t.bucket]]
    /\ UNCHANGED <<limit, granted>>
    /\ End(p)
-----------------------------------------------------------------------------
(* settle_usage_reservation *)

\* Only a reservation that is pending is settled; its row is locked.
SettleBegin(p, k, outcome) ==
    /\ tasks[p].at = "idle"
    /\ events[k].status = "reserved" /\ eventLock[k] = NoProc
    /\ eventLock' = [eventLock EXCEPT ![k] = p]
    /\ tasks' = [tasks EXCEPT ![p] = Started("lock_settled_bucket", k, events[k].bucket,
                                             events[k].quantity, outcome)]
    /\ UNCHANGED <<ledger, bucketLock>>

LockSettledBucket(p) ==
    LET t == tasks[p]
        had == buckets[t.bucket]
        left == IF had.reserved >= t.quantity THEN had.reserved - t.quantity ELSE 0
        spent == IF t.outcome = "committed" THEN had.committed + t.quantity ELSE had.committed
    IN /\ t.at = "lock_settled_bucket"
       /\ bucketLock[t.bucket] = NoProc
       /\ bucketLock' = [bucketLock EXCEPT ![t.bucket] = p]
       /\ tasks' = [tasks EXCEPT ![p] =
             [@ EXCEPT !.at = "commit_settle", !.wrote = [committed |-> spent, reserved |-> left]]]
       /\ UNCHANGED <<ledger, eventLock>>

SettleCommit(p) ==
    LET t == tasks[p] IN
    /\ t.at = "commit_settle"
    /\ buckets' = [buckets EXCEPT ![t.bucket] = t.wrote]
    /\ events' = [events EXCEPT ![t.key].status = t.outcome]
    /\ UNCHANGED <<limit, granted>>
    /\ End(p)
-----------------------------------------------------------------------------
\* A refusal (the key is known by now, the allowance is used up, the insert fails) or a crash:
\* nothing of the transaction stays.
Abandon(p) ==
    /\ tasks[p].at # "idle"
    /\ UNCHANGED ledger
    /\ End(p)

\* What is to be refused is refused.
Refused(p) ==
    LET t == tasks[p] IN
    /\ \/ /\ t.at = "lock_bucket" /\ bucketLock[t.bucket] = NoProc
          /\ \/ events[t.key].status # "none"
             \/ ~Allows(t.allowance, Used(t.bucket) + t.quantity)
       \/ t.at = "insert" /\ events[t.key].status # "none"
    /\ Abandon(p)

\* The steps of a request that has begun.
Proceed(p) ==
    \/ LockBucket(p) \/ InsertEvent(p) \/ ReserveCommit(p)
    \/ LockSettledBucket(p) \/ SettleCommit(p)

SystemNext ==
    \/ ChangeLimit /\ UNCHANGED <<tasks, bucketLock, eventLock>>
    \/ \E p \in Procs :
          \/ \E k \in Keys, b \in Buckets, q \in Quantities : ReserveBegin(p, k, b, q)
          \/ \E k \in Keys, outcome \in {"committed", "released"} : SettleBegin(p, k, outcome)
          \/ Proceed(p)
          \/ Abandon(p)

SystemSpec == SystemInit /\ [][SystemNext]_vars

\* A request that has begun goes on; the database gives a lock to those that wait for it in
\* turn, so that none is passed over for ever.
Fairness == \A p \in Procs : SF_vars(Proceed(p) \/ Refused(p))
FairSpec == SystemSpec /\ Fairness
-----------------------------------------------------------------------------
(* Properties *)

\* Every variable keeps its shape.
TypeOK ==
    /\ limit \in Limits /\ granted \subseteq Limits
    /\ buckets \in [Buckets -> Bucket]
    /\ events \in [Keys -> Event]
    /\ tasks \in [Procs -> Task \union {Idle}]
    /\ bucketLock \in [Buckets -> Procs \union {NoProc}]
    /\ eventLock \in [Keys -> Procs \union {NoProc}]

Ledger == INSTANCE UsageLedger

\* "Atomically reserve against a tenant/metric/scope/period bucket": requests that interleave,
\* wait, fail and crash change the buckets and events as if each ran alone (reserve_usage,
\* settle_usage_reservation).
ImplementsLedger == Ledger!Spec

\* Requests that wait for each other's rows and keys never wait for ever.
EveryRequestEnds == \A p \in Procs : tasks[p].at # "idle" ~> tasks[p].at = "idle"
=============================================================================
