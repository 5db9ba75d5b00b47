---------------------------- MODULE MCStrandSends -----------------------------
(* Instances of StrandSends for TLC. *)
EXTENDS StrandSends

CONSTANTS anna, bob
===============================================================================
