-------------------------------- MODULE MCAccess --------------------------------
(* Swipes of two cards at three doors: one needs a PIN, and may not use door 3. *)
EXTENDS Access

MCPermitted == (Cards \X Doors) \ (WithPIN \X {3})
================================================================================
