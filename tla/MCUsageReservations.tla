------------------------ MODULE MCUsageReservations ------------------------
(* Two operations on two buckets, with a few grants, for TLC. *)
EXTENDS EntitlementGrants

Offered == {[mode |-> "add", value |-> 1, priority |-> 0]}
Extras == {[mode |-> "add", value |-> 2, priority |-> 0], [mode |-> "max", value |-> 1, priority |-> 0],
           [mode |-> "set", value |-> 2, priority |-> 1], [mode |-> "deny", value |-> 0, priority |-> 1]}
=============================================================================
