----------------------------- MODULE MCEventBus -----------------------------
(***************************************************************************)
(* A small bus: a ring of two slots, one handler that takes everything     *)
(* (like OrderHandler's evidence log) and one that takes a single type.    *)
(***************************************************************************)
EXTENDS EventBus

CONSTANTS signal, ticker

MCEventTypes == {signal, ticker}
MCInterest == [s \in Subs |-> IF s = 1 THEN {All} ELSE {signal}]
=============================================================================
