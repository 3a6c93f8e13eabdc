------------------------------ MODULE MCSettings ------------------------------
(* A small instance of Settings: an interlock and the delay of a door.       *)
EXTENDS Settings

MCAccepts == [t \in Tags |-> IF t = "interlock" THEN {0, 4} ELSE {1, 5, 60}]
MCDefaults == [t \in Tags |-> IF t = "interlock" THEN 0 ELSE 5]
=============================================================================
