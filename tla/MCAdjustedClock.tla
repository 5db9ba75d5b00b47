--------------------------- MODULE MCAdjustedClock ----------------------------
(* Instances of AdjustedClock for TLC. *)
EXTENDS AdjustedClock

CONSTANTS anna, bob
===============================================================================
