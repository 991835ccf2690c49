---------------------------- MODULE MCLimitEntry ----------------------------
(***************************************************************************)
(* An entry of two units, so that it can be half filled, two polling       *)
(* rounds, the client's two retries and three calls that go wrong.         *)
(***************************************************************************)
EXTENDS LimitEntry
=============================================================================
