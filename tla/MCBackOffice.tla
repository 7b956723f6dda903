----------------------------- MODULE MCBackOffice -----------------------------
(* The credits of MCCreditCycle, two requests at a time on leads, workspaces, the payroll and
   files. *)
EXTENDS BackOffice, MCCreditCycle

CONSTANTS r1, r2

AnyRequest == Permutations({r1, r2})

MCSlugs == <<"a", "b">>
MCEdits ==
    {[status |-> s, tier |-> "keep", slug |-> "keep"] : s \in {"active", "suspended"}}
    \union {[status |-> "keep", tier |-> "plan", slug |-> "keep"],
            [status |-> "keep", tier |-> "keep", slug |-> "b"]}
=============================================================================
