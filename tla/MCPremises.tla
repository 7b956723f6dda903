------------------------------ MODULE MCPremises ------------------------------
(* The desks of MCSubscriptionSpaces, days of two slots and weeks of two days, and two requests,
   scanners and clerks at a time. *)
EXTENDS Premises, MCSubscriptionSpaces, TLC

MCCompanyOf == (ann :> acme) @@ (ivy :> ivy)
MCTerms == {[from |-> 0, to |-> 0]}
=============================================================================
