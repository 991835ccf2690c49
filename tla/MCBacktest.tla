----------------------------- MODULE MCBacktest -----------------------------
(* A stop two ticks off, half a profit and break-even at one, a trailing stop
   one tick behind from two, a target at three; with the ATR the stop trails
   from one ATR on.  The loss of a day may be four ticks. *)
EXTENDS Backtest

MCEngines == {"kline", "data", "replay", "v2"}
MCLots == {0, 3}
MCAtrs == {1, 2}

JustKline == {"kline"}

\* run_kline_backtest takes half of the profit "symmetrically": a position of
\* either side whose bar has reached the first target has taken it.
FirstTargetTaken == p.side \in Sides /\ p.best >= PartialAt => took
=============================================================================
