--------------------------- MODULE MCCompanyPeople ---------------------------
(* A company of an admin and two employees, of whom it may have one, an individual member and
   one of the operator's team. *)
EXTENDS CompanyPeople, TLC

CONSTANTS boss, e1, e2, other, mate

MCKindOf == (boss :> "company_admin") @@ (e1 :> "employee") @@ (e2 :> "employee")
              @@ (other :> "individual") @@ (mate :> "team")
MCMaxStamps == (boss :> 1) @@ (e1 :> 2) @@ (e2 :> 0) @@ (other :> 1) @@ (mate :> 0)
=============================================================================
