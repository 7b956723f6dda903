--------------------------- MODULE MCCreditCycle ---------------------------
(* Two subjects for TLC, months of two days, and one process for requests and one for the
   daily job. *)
EXTENDS CreditCycle

CONSTANTS w1, c1, s1, s2, b1
=============================================================================
