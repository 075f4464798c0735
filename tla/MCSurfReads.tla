---------------------------- MODULE MCSurfReads ----------------------------
(* Instances of SurfReads for TLC. *)
EXTENDS SurfReads

None == {}
Pool4 == {"pool4"}
SeatLast == <<"pool4", "seat">>
=============================================================================
