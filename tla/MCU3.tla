--------------------------------- MODULE MCU3 ---------------------------------
(* One input of U3, with the filter's coefficients to three decimals: each   *)
(* input has its own filter and none affects another.                        *)
EXTENDS U3
=============================================================================
