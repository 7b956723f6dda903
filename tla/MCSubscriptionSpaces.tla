------------------------ MODULE MCSubscriptionSpaces ------------------------
(* A company with two employees and a member on his own share two desks. *)
EXTENDS SubscriptionSpaces

CONSTANTS acme, ann, bob, ivy, d1, d2

MCEmployees == [c \in {acme} |-> {ann, bob}]

\* A desk for one, with one more at most, and an office for two that takes as many as come.
DeskPlan == [seats |-> {d1, d2}, people |-> 1, extras |-> TRUE, most |-> 1, priced |-> TRUE]
OfficePlan == [seats |-> {d2}, people |-> 2, extras |-> TRUE, most |-> 0, priced |-> TRUE]
MCPlans == {DeskPlan, OfficePlan}

Case(desk, plans, n, quantity, extra) ==
    [desk |-> desk, plans |-> plans, subs |-> n, quantity |-> quantity, extra |-> extra]

SomeCases == {
    Case({"extra", "bill"}, {OfficePlan}, 1, 1, 3),
    Case({"extra", "bill", "request"}, {OfficePlan}, 1, 1, 1),
    Case({"bill"}, {DeskPlan}, 2, 1, 1),
    Case({"extra", "name"}, {DeskPlan}, 1, 2, 1),
    Case({"extra", "name"}, {OfficePlan}, 1, 1, 2),
    Case({"extra"}, {DeskPlan}, 2, 1, 1),
    Case({"give", "name"}, {DeskPlan}, 1, 2, 1),
    Case({"extra", "name", "bill"}, {OfficePlan}, 1, 1, 1),
    Case({"give", "request"}, {DeskPlan}, 2, 1, 0),
    Case({"give"}, {DeskPlan, OfficePlan}, 2, 2, 0)}

OneOffice == {Case({"extra", "bill"}, {OfficePlan}, 1, 1, 3)}
=============================================================================
