--------------------------------- MODULE MCSys ---------------------------------
(* The run loop with a small queue and a small log. *)
EXTENDS Sys
================================================================================
