------------------------------ MODULE MCSession ------------------------------
(* Instances of Session for TLC: anna has two characters, bob has one. *)
EXTENDS Session, TLC

CONSTANTS s1, s2, anna, bob, a1, a2, b1

TwoAccounts == (a1 :> anna) @@ (a2 :> anna) @@ (b1 :> bob)
==============================================================================
