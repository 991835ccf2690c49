------------------------------ MODULE Backtest ------------------------------
(***************************************************************************)
(* The simulated trading of the backtest engines: run_kline_backtest,      *)
(* run_backtest_on_data (without half profits and trend exits),            *)
(* run_replay_backtest (ticks instead of bars) and run_backtest_v2.  They  *)
(* see a bar after it has closed and suppose what happened within it.      *)
(*                                                                         *)
(* Prices are counted in ticks of gain from the entry's fill, so that long *)
(* and short look alike: best is a bar's high for a long and its low for a *)
(* short.  Percentages of the entry price and costs are numbers of ticks.  *)
(* What the indicators say is a free choice, and so is the quantity that   *)
(* the simulated capital affords.  The spread of the replay's quotes and   *)
(* v2's parameters for shorts of their own are left out.                   *)
(***************************************************************************)
EXTENDS Integers

CONSTANTS
    Engines,       \* which of the four to model
    Lowest,        \* bound: prices lie between -Lowest and TakeProfit
    Lots,          \* quantities that the capital may afford, 0 among them
    StopLoss, Breakeven, Trigger, Distance, TakeProfit, PartialAt,
    Cost,          \* cost_per_side_pct
    Atrs,          \* values of the 5m ATR, 0 if there is none yet
    AtrStop, AtrTrigger, AtrDistance,
    MaxHold, StaleAfter, StaleGain,
    Cooldown, LongCooldown, MaxTrades, MaxLoss,
    Day,           \* bars in a day
    MaxBars        \* bound on the bars

ASSUME BacktestAssumption ==
    /\ Engines \subseteq {"kline", "data", "replay", "v2"}
    /\ Lots \cup Atrs \subseteq Nat
    /\ {Lowest, StopLoss, Breakeven, Trigger, Distance, TakeProfit, PartialAt,
        AtrStop, AtrTrigger, AtrDistance, Cooldown, Day} \subseteq Nat \ {0}
    /\ {Cost, MaxHold, StaleAfter, StaleGain, LongCooldown, MaxTrades,
        MaxLoss, MaxBars} \subseteq Nat
    /\ Breakeven < Trigger /\ Trigger < TakeProfit
    /\ Distance <= Trigger /\ AtrDistance <= AtrTrigger
    /\ Cost < StopLoss /\ Cost < AtrStop /\ StopLoss <= Lowest

VARIABLES
    engine, useAtr,    \* chosen once
    now,               \* bars seen
    over,              \* the data are at an end
    atr,               \* the 5m ATR
    p,                 \* position, and what state keeps of the last one
    today,             \* daily_trades and daily_pnl
    lastTrade,         \* last_trade_time, or Never
    lastStop,          \* last_exit_was_stoploss
    trades,            \* trade records of the last bar
    last,              \* history: its close, its stop and the ATR of that stop
    unsold,            \* history: what was opened, less what was recorded closed
    took,              \* history: half of this position was sold at a profit
    hurt               \* history: the last exit was a stop at a loss

backtestVars ==
    <<engine, useAtr, now, over, atr, p, today, lastTrade, lastStop, trades,
      last, unsold, took, hurt>>

Never == -1000
Max2(a, b) == IF a > b THEN a ELSE b

Sides == {"Long", "Short"}
Flat == [side |-> "None", qty |-> 0, since |-> 0, best |-> 0, trailing |-> FALSE,
         breakeven |-> FALSE, partial |-> FALSE, atr |-> 0]

Gone == [close |-> 0, level |-> 0, atr |-> 0]

BacktestInit ==
    /\ engine \in Engines
    /\ useAtr \in BOOLEAN
    /\ engine \in {"replay", "v2"} => ~useAtr
    /\ now = 0
    /\ over = FALSE
    /\ atr = 0
    /\ p = Flat
    /\ today = [trades |-> 0, pnl |-> 0]
    /\ lastTrade = Never
    /\ lastStop = FALSE
    /\ trades = {}
    /\ last = Gone
    /\ unsold = 0
    /\ took = FALSE
    /\ hurt = FALSE

Prices == -Lowest .. TakeProfit
Bars ==
    {c \in [worst : Prices, close : Prices, best : Prices] :
        c.worst <= c.close /\ c.close <= c.best}
Ticks == {c \in Bars : c.worst = c.best}

-----------------------------------------------------------------------------
\* Half of the position is sold at the first target; the rest is to break even.

Half(q) == q.qty \div 2

TakesHalf(q, c) ==
    engine = "kline" /\ ~q.partial /\ c.best >= PartialAt /\ Half(q) > 0

\* Mutation of Halved: the rest keeps its old stop.
HalvedUnprotected(q) == [q EXCEPT !.qty = @ - Half(q), !.partial = TRUE]

\* Mutation of Halved: the sale is recorded, the quantity stays.
HalvedInName(q) == [q EXCEPT !.partial = TRUE, !.breakeven = TRUE]

Halved(q) ==
    [q EXCEPT !.qty = @ - Half(q), !.partial = TRUE, !.breakeven = TRUE]

-----------------------------------------------------------------------------
\* The ladder of the stop: a loss, the entry's price, or behind the best price.

Effective(q) == Max2(atr, q.atr)
ByAtr(q) == useAtr /\ Effective(q) > 0
TrailsAt(q) == IF ByAtr(q) THEN AtrTrigger * Effective(q) ELSE Trigger
Behind(q) == IF ByAtr(q) THEN AtrDistance * Effective(q) ELSE Distance

Trails(q) == q.best >= TrailsAt(q)
BreaksEven(q) == q.breakeven \/ q.best >= Breakeven

\* dynamic_sl
Level(q) ==
    IF Trails(q) THEN q.best - Behind(q)
    ELSE IF BreaksEven(q) THEN 0
    ELSE IF ByAtr(q) THEN -(AtrStop * Effective(q)) ELSE -StopLoss

\* The flags that computing it sets.
Guarded(q) ==
    [q EXCEPT !.trailing = @ \/ Trails(q),
              !.breakeven = IF Trails(q) THEN @ ELSE BreaksEven(q)]

\* Mutation of Reached: only this bar counts.
ReachedNow(q, c) == [q EXCEPT !.best = c.best]

Reached(q, c) == [q EXCEPT !.best = Max2(@, c.best)]

-----------------------------------------------------------------------------
\* Why a position is closed in a bar, and at which gain before costs.  hint is
\* what the indicators say.

Stopped(q, why) ==
    IF q.trailing THEN "trailing" ELSE IF q.breakeven THEN "breakeven" ELSE why

Timeout(q) == now - q.since >= MaxHold
Stale(q, c) == now - q.since >= StaleAfter /\ c.close < StaleGain /\ ~q.trailing
\* The trend is broken and a tick is lost, which stands for 0.3 per cent.
Broken(q, c, hint) ==
    engine = "kline" /\ hint = "trend" /\ c.close < 0 /\ ~q.trailing /\ ~q.partial

\* A bar that touches stop and target is taken to have touched the stop first.
WhyBar(q, c, hint) ==
    IF c.worst <= Level(q)
    THEN IF q.side = "Short" /\ c.best >= TakeProfit THEN "stop"
         ELSE Stopped(q, "stop")
    ELSE IF c.best >= TakeProfit THEN "target"
    ELSE IF Broken(q, c, hint) THEN "trend"
    ELSE IF Stale(q, c) THEN "stale"
    ELSE IF Timeout(q) THEN "timeout"
    ELSE IF hint = "rsi" /\ q.side = "Long" THEN "rsi" ELSE "stay"

WhyReplay(q, c, hint) ==
    IF c.close >= TakeProfit THEN "target"
    ELSE IF c.close <= Level(q) THEN Stopped(q, "stop")
    ELSE IF Timeout(q) THEN "timeout"
    ELSE IF hint = "rsi" /\ q.side = "Long" THEN "rsi" ELSE "stay"

WhyV2(q, c, hint) ==
    IF c.worst <= -StopLoss THEN "stop"
    ELSE IF q.best > Distance /\ c.worst <= q.best - Distance THEN "trailing"
    ELSE IF c.best >= TakeProfit THEN "target"
    ELSE IF Timeout(q) THEN "timeout"
    ELSE IF hint = "rsi" THEN "rsi" ELSE "stay"

Why(q, c, hint) ==
    IF engine = "v2" THEN WhyV2(q, c, hint)
    ELSE IF engine = "replay" THEN WhyReplay(q, c, hint)
    ELSE WhyBar(q, c, hint)

StopPrice(q, why) ==
    IF engine # "v2" THEN Level(q)
    ELSE IF why = "trailing" THEN q.best - Distance ELSE -StopLoss

\* Mutation of Filled: whatever closes a position, it is filled at its stop.
FilledAtStop(q, c, why) ==
    IF why = "target" THEN TakeProfit ELSE StopPrice(q, why)

Filled(q, c, why) ==
    IF engine = "replay" \/ why \notin {"stop", "breakeven", "trailing", "target"}
    THEN c.close
    ELSE IF why = "target" THEN TakeProfit ELSE StopPrice(q, why)

\* A record, with what a real order would have needed: a price within the bar.
Record(q, c, why, qty, gain) ==
    [why |-> why, qty |-> qty, gain |-> gain,
     real |-> c.worst <= gain /\ gain <= c.best,
     \* the bar began where the last one ended, under the same stop
     smooth |-> c.worst <= last.close /\ last.close <= c.best /\ Effective(q) = last.atr]

-----------------------------------------------------------------------------
\* One bar of one minute, or one tick.

\* check_daily_reset
Started == IF now % Day = 0 THEN [trades |-> 0, pnl |-> 0] ELSE today

\* v2 counts an exit, too.
Counted(t, gain, exits) ==
    [trades |-> t.trades + exits, pnl |-> t.pnl + gain]

\* Mutation of Painful: time-outs and broken trends only.
PainfulButStops(why) == why \in {"timeout", "trend"}

\* Exits after which the longer cooldown holds.
Painful(why) == why \in {"stop", "timeout", "trend"}

\* Mutation of Cleared: entry_quantity is not cleared.
ClearedInName(q) == [q EXCEPT !.side = "None"]

\* Of the flags only partial_tp_done is read again.
Cleared(q) == [Flat EXCEPT !.partial = q.partial]

Hints == IF engine = "kline" THEN {"none", "rsi", "trend"} ELSE {"none", "rsi"}

Hold(c, hint) ==
    LET q1 == Reached(p, c)
        half == TakesHalf(q1, c)
        q2 == IF half THEN Halved(q1) ELSE q1
        q == IF engine = "v2" THEN q2 ELSE Guarded(q2)
        why == Why(q, c, hint)
        gain == Filled(q, c, why)
        halves == IF half
                  THEN {Record(q, c, "half", Half(q1), PartialAt)} ELSE {}
        net == IF engine \in {"kline", "data"} THEN Cost ELSE 0
        earned == IF half THEN Counted(Started, PartialAt - net, 0) ELSE Started
    IN  /\ took' = (took \/ half)
        /\ IF why = "stay"
           THEN /\ p' = q
                /\ last' = [close |-> c.close, level |-> Level(q), atr |-> Effective(q)]
                /\ today' = earned
                /\ trades' = halves
                /\ unsold' = unsold - IF half THEN Half(q1) ELSE 0
                /\ UNCHANGED <<lastTrade, lastStop, hurt>>
           ELSE /\ p' = Cleared(q)
                /\ last' = Gone
                /\ today' = Counted(earned, gain - net, IF engine = "v2" THEN 1 ELSE 0)
                /\ trades' = halves \cup {Record(q, c, why, q.qty, gain)}
                /\ unsold' = unsold - q.qty - IF half THEN Half(q1) ELSE 0
                /\ lastTrade' = now
                /\ lastStop' = IF engine \in {"kline", "data"} THEN Painful(why)
                               ELSE lastStop
                /\ hurt' = (why \in {"stop", "trailing", "breakeven"} /\ gain < 0)

\* Mutation of Rested: one cooldown for all.
RestedAlike == now - lastTrade >= Cooldown

Rested ==
    now - lastTrade >= IF lastStop /\ LongCooldown > 0 THEN LongCooldown
                                                      ELSE Cooldown

MayEnter ==
    Rested /\ Started.trades < MaxTrades /\ Started.pnl > -MaxLoss

\* What the indicators may call for; Wait is when they call for nothing.
Signals == Sides

\* A long starts with every flag cleared, a short keeps partial_tp_done.
Opened(side, qty, reach) ==
    [side |-> side, qty |-> qty, since |-> now,
     best |-> IF engine = "v2" THEN reach ELSE 0,
     trailing |-> FALSE, breakeven |-> FALSE,
     partial |-> IF side = "Long" THEN FALSE ELSE p.partial,
     atr |-> atr]

\* The entry is at the close, from which the costs take the fill; reach is how
\* far the bar had been above.
Enter(side, qty, reach) ==
    /\ p.side = "None"
    /\ MayEnter
    /\ qty > 0
    /\ p' = Opened(side, qty, reach)
    /\ today' = [Started EXCEPT !.trades = @ + 1]
    /\ lastTrade' = now
    /\ trades' = {}
    /\ last' = [close |-> IF engine \in {"kline", "data"} THEN -Cost ELSE 0,
                level |-> Level(p'), atr |-> Effective(p')]
    /\ unsold' = unsold + qty
    /\ took' = FALSE
    /\ UNCHANGED <<lastStop, hurt>>

\* No signal, no leave or no quantity.
Wait ==
    /\ p.side = "None"
    /\ today' = Started
    /\ trades' = {}
    /\ took' = FALSE
    /\ UNCHANGED <<p, lastTrade, lastStop, last, unsold, hurt>>

Minute ==
    /\ ~over
    /\ now < MaxBars
    /\ now' = now + 1
    /\ \/ /\ p.side \in Sides
          /\ \E c \in IF engine = "replay" THEN Ticks ELSE Bars, hint \in Hints : Hold(c, hint)
       \/ \E side \in Signals, qty \in Lots, reach \in {0, Distance + 1} :
            Enter(side, qty, reach)
       \/ Wait
    /\ UNCHANGED <<engine, useAtr, over, atr>>

\* A bar of five minutes only feeds the indicators.
FiveMinutes ==
    /\ ~over
    /\ useAtr
    /\ atr' \in Atrs \ {atr}
    /\ trades' = {}
    /\ UNCHANGED <<engine, useAtr, now, over, p, today, lastTrade, lastStop, last,
                   unsold, took, hurt>>

\* At the end of the data what is left is closed at the last price.
End ==
    /\ ~over
    /\ over' = TRUE
    /\ trades' = IF p.side \in Sides
                 THEN {[why |-> "end", qty |-> p.qty, gain |-> last.close,
                        real |-> TRUE, smooth |-> TRUE]}
                 ELSE {}
    /\ unsold' = unsold - p.qty
    /\ p' = Cleared(p)
    /\ last' = Gone
    /\ UNCHANGED <<engine, useAtr, now, atr, today, lastTrade, lastStop, took, hurt>>

BacktestNext == Minute \/ FiveMinutes \/ End

BacktestSpec == BacktestInit /\ [][BacktestNext]_backtestVars

-----------------------------------------------------------------------------
\* Types; there is a quantity exactly as long as there is a position.
BacktestTypes ==
    /\ engine \in Engines /\ useAtr \in BOOLEAN
    /\ now \in 0 .. MaxBars /\ over \in BOOLEAN
    /\ atr \in Atrs \cup {0}
    /\ p.side \in Sides \cup {"None"}
    /\ p.qty \in Nat /\ (p.qty > 0 <=> p.side \in Sides)
    /\ p.since \in 0 .. now /\ p.best \in 0 .. Max2(TakeProfit, Distance + 1)
    /\ {p.trailing, p.breakeven, p.partial, lastStop, took, hurt} \subseteq BOOLEAN
    /\ today.trades \in Nat /\ today.pnl \in Int
    /\ lastTrade \in {Never} \cup 0 .. now
    /\ last \in [close : Int, level : Int, atr : Atrs \cup {0}] /\ unsold \in Int
    /\ \A t \in trades : t.qty \in Nat \ {0} /\ t.gain \in Int

\* What the records say was closed is what was opened, but for what is held.
Reconciles == unsold = p.qty

\* No record claims a price outside its bar: a bar that goes on from the last
\* one's close has traded at the stop or target that it is said to have hit.  Not
\* so for v2, and not when the ATR has moved the stop between two bars.
FillsAreReal == engine # "v2" => \A t \in trades : t.smooth => t.real

\* From bar to bar the stop of a position moves in its favour only, as long as
\* the ATR is what it was.
StopHolds ==
    [][(p.side \in Sides /\ p'.side = p.side /\ engine # "v2" /\ last'.atr = last.atr)
       => last'.level >= last.level]_backtestVars

\* Once half of a position was sold at a profit, the rest never closes at a loss
\* before costs, whatever the ATR does.
ProfitLocked == took => \A t \in trades : t.gain >= 0

\* After a stop at a loss the next entry is a long cooldown away, though the
\* stop may have been of any kind, unless the ATR moved it.
LossesRest ==
    [][(p.side = "None" /\ p'.side \in Sides /\ hurt /\ ~useAtr
          /\ engine \in {"kline", "data"})
       => now - lastTrade >= LongCooldown]_backtestVars
=============================================================================
