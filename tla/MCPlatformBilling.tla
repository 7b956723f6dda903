------------------------- MODULE MCPlatformBilling -------------------------
(* Operators on small plans, in months of two days, for TLC. *)
EXTENDS PlatformBilling

Tier(tier, order, monthly, annual, setup, included, rate, policy, method, room) ==
    [tier |-> tier, order |-> order, monthly |-> monthly, annual |-> annual, setup |-> setup,
     seats |-> included, rate |-> rate, policy |-> policy, method |-> method, storage |-> room,
     includes |-> {}]

Starter == Tier("starter", 1, 100, 150, 0, 1, 20, "block_additional_usage", "maximum", 1)
Growth  == Tier("growth", 2, 201, 300, 0, 1, 21, "allow_and_charge", "maximum", NoLimit)
Quoted  == Tier("growth", 2, 180, 280, 10, 1, 20, "allow_and_charge", "average_daily", 1)
LastDayCounts == [Growth EXCEPT !.method = "end_of_period"]

Case(terms, cycle, held, used) == [terms |-> terms, cycle |-> cycle, seats |-> held, desk |-> used]

Upgrading == {Case(NoTerms, "monthly", 0, {"plan", "pay", "staff"}),
              Case(Starter, "monthly", 0, {"plan", "pay"}),
              Case(Starter, "monthly", 1, {"contract", "report"})}
Downgrading == {Case(Growth, "monthly", 1, {"plan", "pay", "seats"})}
Adding == {Case(Starter, "monthly", 0, {"addon", "renewal_units", "pay", "storage"})}
Charging == {Case(Growth, "monthly", 1, {"pay", "seats"}),
             Case(Quoted, "annual", 2, {"seats"}),
             Case(LastDayCounts, "annual", 1, {"seats", "manual"})}
Overlapping == {Case(NoTerms, "monthly", 0, {"plan", "pay", "overlap"})}
SomeCases == Upgrading \union Downgrading \union Adding \union Charging \union Overlapping

SomePlans == {Starter, Growth}
SomeContracts == {Quoted}
ExtraStoragePrice == [extra_storage |-> 11]
Half == {50}

\* Operations with many states of their own are tried with fewer requests and payments; the
\* first plan of an operator counts as one of each.
RequestsFor(used) == IF {"staff", "overlap"} \intersect used # {} THEN 1 ELSE 2
MoneyFor(used) == IF {"staff", "seats", "overlap"} \intersect used # {} THEN 2 ELSE 3
DayFor(used) == IF "overlap" \in used THEN 1 ELSE IF {"plan", "seats"} \subseteq used THEN 3 ELSE 4
=============================================================================
