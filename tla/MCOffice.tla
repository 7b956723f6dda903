------------------------------- MODULE MCOffice -------------------------------
(* The company of MCCompanyPeople, one person and one of the operator's team who are told of
   things, two runs of the jobs, and two operators. *)
EXTENDS Office, MCCompanyPeople

MCAgreements == {[ends |-> 2, lockEnds |-> 1, leaves |-> {}, revised |-> FALSE],
                 [ends |-> 2, lockEnds |-> 9, leaves |-> {1}, revised |-> FALSE]}
MCEarlier == {<<"lock_in", 0, 1>>}
MCAmounts == {-1, 2}
=============================================================================
