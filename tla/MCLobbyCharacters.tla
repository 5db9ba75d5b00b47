-------------------------- MODULE MCLobbyCharacters --------------------------
(* Instances of LobbyCharacters for TLC. *)
EXTENDS LobbyCharacters

CONSTANTS s1, s2, s3, anna, bob, c1, c2, c3, c4
==============================================================================
