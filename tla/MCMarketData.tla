---------------------------- MODULE MCMarketData ----------------------------
(* The intervals of the program in units of five seconds. *)
EXTENDS MarketData

MCModes == {"direct", "tunnel", "proxy"}
=============================================================================
