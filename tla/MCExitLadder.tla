---------------------------- MODULE MCExitLadder ----------------------------
(***************************************************************************)
(* A ladder of a few ticks.  The smaller ATR starts the trailing stop      *)
(* before break-even, the larger one after it.                             *)
(***************************************************************************)
EXTENDS ExitLadder

MCAtrs == {0, 1, 3}
MCAtrStop == [a \in MCAtrs |-> 2 * a]
MCAtrTrigger == [a \in MCAtrs |-> a]
MCAtrDistance == [a \in MCAtrs |-> a]
MCPrices == {-2, 1, 2, 3, 4}
MCSlips == {0, 1}

\* "Trailing-stop state (must be restored after a restart, or the trailing stop
\* stops working)": a trailing stop that is active is so after a restart.
TrailingSurvives ==
    [][restarts' # restarts /\ st.held /\ st'.held
       => st'.trailing = st.trailing]_vars
=============================================================================
