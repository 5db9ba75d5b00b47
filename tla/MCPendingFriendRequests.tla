----------------------- MODULE MCPendingFriendRequests -----------------------
(* Instances of PendingFriendRequests for TLC. *)
EXTENDS PendingFriendRequests

CONSTANTS anna, bob
==============================================================================
