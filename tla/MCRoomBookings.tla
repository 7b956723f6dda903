--------------------------- MODULE MCRoomBookings ---------------------------
(* One room and one person for TLC: an operator admin who may block rooms and waive
   charges, and whose lot expires before the last instant.  Two processes, each serving
   requests and scheduled jobs in turn, so that any two handlers overlap. *)
EXTENDS RoomBookings, TLC

CONSTANTS w1, w2, adm, own, r1

MCProcesses == Permutations({w1, w2})
MCPayerOf == [u \in Users |-> own]
MCGranted == [y \in Payers |-> 2]
MCExpiry == [y \in Payers |-> 2]
MCCreditsPerSlot == [r \in Rooms |-> 1]
=============================================================================
