---------------------------- MODULE MCChatSystem ----------------------------
(* Instances of ChatSystem for TLC. *)
EXTENDS ChatSystem, TLC

CONSTANTS anna, bob, carl, dora, red, blue, m1, m2

ChatSymmetry == Permutations(Entities) \union Permutations(Rooms) \union Permutations(Addresses)
==============================================================================
