------------------------ MODULE MCRoomBookingsSerial ------------------------
(* One room, an operator admin and two employees of one company for TLC, one of them its
   company admin.  Requests and jobs run one at a time. *)
EXTENDS RoomBookings

CONSTANTS w1, c1, adm, boss, emp, own, co, r1

MCPayerOf == [u \in Users |-> IF u = adm THEN own ELSE co]
MCGranted == [y \in Payers |-> IF y = co THEN 3 ELSE 0]
MCExpiry == [y \in Payers |-> 1]
MCCreditsPerSlot == [r \in Rooms |-> 1]
=============================================================================
