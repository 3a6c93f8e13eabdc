-------------------------------- MODULE MCDoors --------------------------------
(* Instances of Doors: there are always four doors.                            *)
EXTENDS Doors
=============================================================================
