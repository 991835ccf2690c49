----------------------------- MODULE MCRotation -----------------------------
(***************************************************************************)
(* Two symbols with prices that can halve, a stop at a fall of half, an    *)
(* interval of two units.                                                  *)
(***************************************************************************)
EXTENDS Rotation

\* Every setting of the flags.
AllConfigs == [dryRun : BOOLEAN, onStart : BOOLEAN, trailing : BOOLEAN]

TwoPrices == {1, 2}
=============================================================================
