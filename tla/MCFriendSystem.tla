---------------------------- MODULE MCFriendSystem ----------------------------
(* Instances of FriendSystem for TLC. *)
EXTENDS FriendSystem

CONSTANTS anna, bob
==============================================================================
