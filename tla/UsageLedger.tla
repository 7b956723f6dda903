---------------------------- MODULE UsageLedger ----------------------------
(***************************************************************************)
(* What the reservations of a metered entitlement promise, whoever asks    *)
(* for them at the same time (app/services/entitlement_resolver.py): an    *)
(* operation reserves its quantity once, and what it reserved is committed *)
(* or released once.                                                       *)
(***************************************************************************)
EXTENDS Integers

CONSTANTS
    Keys,       \* idempotency keys of operations
    Buckets,    \* scopes and periods that usage is counted in
    Quantities,
    Limits      \* allowances, Unlimited among them

Unlimited == -1

ASSUME QuantitiesArePositive == Quantities \subseteq Nat \ {0}
ASSUME LimitsAreNumbers == Limits \subseteq Nat \union {Unlimited}

VARIABLES
    limit,      \* the allowance in force,
    granted,    \*   and every allowance that ever was
    buckets,    \* entitlement_usage_buckets: what each has committed and reserved
    events      \* entitlement_usage_events, by idempotency key

ledger == <<limit, granted, buckets, events>>

Statuses == {"none", "reserved", "committed", "released"}
Event == [status: Statuses, quantity: Quantities \union {0}, bucket: Buckets]
Bucket == [committed: Nat, reserved: Nat]

Used(b) == buckets[b].committed + buckets[b].reserved
Allows(l, n) == l = Unlimited \/ n <= l

Init ==
    /\ limit \in Limits /\ granted = {limit}
    /\ buckets = [b \in Buckets |-> [committed |-> 0, reserved |-> 0]]
    /\ \E b \in Buckets : events = [k \in Keys |-> [status |-> "none", quantity |-> 0, bucket |-> b]]

\* The allowance is what the operator's grants come to, and changes with them.
ChangeLimit ==
    /\ limit' \in Limits /\ granted' = granted \union {limit'}
    /\ UNCHANGED <<buckets, events>>

\* A reservation counts against the allowance that was in force when it was asked for.
Reserve(k, b, q, allowance) ==
    /\ events[k].status = "none"
    /\ Allows(allowance, Used(b) + q)
    /\ events' = [events EXCEPT ![k] = [status |-> "reserved", quantity |-> q, bucket |-> b]]
    /\ buckets' = [buckets EXCEPT ![b].reserved = @ + q]
    /\ UNCHANGED <<limit, granted>>

Settle(k, outcome) ==
    LET e == events[k] IN
    /\ e.status = "reserved"
    /\ events' = [events EXCEPT ![k].status = outcome]
    /\ buckets' = [buckets EXCEPT ![e.bucket].reserved = @ - e.quantity,
                                  ![e.bucket].committed =
                                      IF outcome = "committed" THEN @ + e.quantity ELSE @]
    /\ UNCHANGED <<limit, granted>>

Next ==
    \/ ChangeLimit
    \/ \E k \in Keys, b \in Buckets, q \in Quantities, allowance \in granted :
          Reserve(k, b, q, allowance)
    \/ \E k \in Keys, outcome \in {"committed", "released"} : Settle(k, outcome)

Spec == Init /\ [][Next]_ledger
-----------------------------------------------------------------------------
\* No bucket ever holds more, committed and reserved together, than some allowance that was
\* in force: what is reserved at the same time is not counted twice against one allowance.
AllowanceKept ==
    \A b \in Buckets : Used(b) = 0 \/ \E l \in granted : Allows(l, Used(b))
=============================================================================
