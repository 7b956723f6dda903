------------------------- MODULE EntitlementGrants -------------------------
(***************************************************************************)
(* Where the allowance of a metered entitlement comes from: the grants of  *)
(* the offer an operator is bound to and the grants of the operator itself *)
(* that are in effect (_active_binding, _new_decision, check_entitlement   *)
(* of app/services/entitlement_resolver.py), together with the             *)
(* reservations that count against it.                                     *)
(***************************************************************************)
EXTENDS UsageReservations, FiniteSetsExt

CONSTANTS
    OfferGrants,    \* grants of the published offer
    TenantGrants,   \* grants of the operator that may come into effect
    MaxGrants,      \* bounds: the grants in effect at a time,
    MaxAllowances   \*   and the allowances that they come to

VARIABLES
    bound,      \* whether a plan binding is in effect
    grants      \* the operator's grants in effect

allVars == <<vars, bound, grants>>

\* A grant adds to the allowance, raises it to at least its value, or overrides it.
Modes == {"add", "max", "set", "deny"}
Grant == [mode: Modes, value: Limits, priority: Nat]

ASSUME GrantsAreGrants ==
    OfferGrants \subseteq Grant /\ TenantGrants \subseteq Grant /\ IsFiniteSet(OfferGrants)

Overrides == {g \in grants : g.mode \in {"set", "deny"}}
Winners == {g \in Overrides : \A h \in Overrides : h.priority <= g.priority}
Conflict == \E g, h \in Winners : <<g.mode, g.value>> # <<h.mode, h.value>>

Value(g) == g.value
Values(all, modes) == {g \in all : g.mode \in modes}

\* A mutation of Combined: a grant that raises the allowance replaces what others add.
CombinedByMaximum(all) ==
    IF Values(all, {"max"}) # {} THEN Max({g.value : g \in Values(all, {"max"})})
    ELSE MapThenSumSet(Value, Values(all, {"add", "set"}))

\* Without overrides: the grants that add, and the largest of the others.
Combined(all) ==
    IF \E g \in all : g.value = Unlimited THEN Unlimited
    ELSE MapThenSumSet(Value, Values(all, {"add", "set"}))
           + Max({0} \union {g.value : g \in Values(all, {"max"})})

\* Nothing can be reserved without a binding, when the override denies it, or when overrides
\* of one priority disagree, which is an error.
Allowance ==
    IF ~bound \/ Conflict \/ \E g \in Winners : g.mode = "deny" THEN 0
    ELSE IF Winners # {} THEN (CHOOSE g \in Winners : TRUE).value
    ELSE Combined(OfferGrants \union grants)

GrantsInit ==
    /\ bound \in BOOLEAN /\ grants = {}
    /\ SystemInit /\ limit = Allowance

\* With the allowance, the limit that reservations are given.
Resolved ==
    /\ limit' = Allowance' /\ ChangeLimit
    /\ Cardinality(grants') <= MaxGrants /\ Cardinality(granted') <= MaxAllowances
    /\ UNCHANGED <<tasks, bucketLock, eventLock>>

Bind   == bound' = ~bound /\ grants' = grants /\ Resolved
Begins == \E g \in TenantGrants \ grants : grants' = grants \union {g} /\ bound' = bound /\ Resolved
Ends   == \E g \in grants : grants' = grants \ {g} /\ bound' = bound /\ Resolved

Requested ==
    \E p \in Procs :
        \/ \E k \in Keys, b \in Buckets, q \in Quantities :
              Allows(limit, q) /\ ReserveBegin(p, k, b, q)
        \/ \E k \in Keys, outcome \in {"committed", "released"} : SettleBegin(p, k, outcome)
        \/ Proceed(p)
        \/ Abandon(p)

GrantsNext ==
    \/ Bind \/ Begins \/ Ends
    \/ Requested /\ UNCHANGED <<bound, grants>>

GrantsSpec == GrantsInit /\ [][GrantsNext]_allVars /\ Fairness
-----------------------------------------------------------------------------
Atleast(l, m) == l = Unlimited \/ (m # Unlimited /\ m <= l)

\* A grant that comes into effect and overrides nothing never takes anything away, however
\* sums, maxima and overrides combine.
MoreIsNeverLess ==
    [][(grants \subseteq grants' /\ bound' = bound /\ Overrides' = Overrides)
          => Atleast(limit', limit)]_allVars
=============================================================================
