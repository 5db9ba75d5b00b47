---------------------------- MODULE MCWorldEntry ------------------------------
(* Instances of WorldEntry for TLC. *)
EXTENDS WorldEntry

CONSTANTS anna, bob, carl

\* Anna is the friend of both others.
TwoFriendships == {<<anna, bob>>, <<bob, anna>>, <<anna, carl>>, <<carl, anna>>}
===============================================================================
