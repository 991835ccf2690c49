--------------------------- MODULE MCTradingLoop ----------------------------
(***************************************************************************)
(* A short trading day: a few instants around one midnight, so that        *)
(* cooldowns, pauses, the stale limit and the day change all occur.        *)
(***************************************************************************)
EXTENDS TradingLoop

MCLossPause == [n \in 1 .. 4 |-> n]
=============================================================================
