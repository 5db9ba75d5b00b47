--------------------------- MODULE MCClientProtocol ----------------------------
(***************************************************************************)
(* Instances of ClientProtocol for TLC: the values are in the cfg files.   *)
(***************************************************************************)
EXTENDS ClientProtocol
===============================================================================
