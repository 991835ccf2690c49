--------------------------- MODULE MCAccountCache ---------------------------
(***************************************************************************)
(* Two assets, one of which the position limit does not count; entries of  *)
(* two lots or as many as the balance allows.                              *)
(***************************************************************************)
EXTENDS AccountCache

CONSTANTS btc, eth, dynamic

MCAssets == {btc, eth}
MCQuantities == {2}
=============================================================================
