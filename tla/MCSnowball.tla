----------------------------- MODULE MCSnowball -----------------------------
(***************************************************************************)
(* Every graph over at most five nodes, those of two components included,  *)
(* and targets from none to more edges than there can be.                   *)
(***************************************************************************)
EXTENDS Snowball
=============================================================================
