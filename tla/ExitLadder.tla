----------------------------- MODULE ExitLadder -----------------------------
(***************************************************************************)
(* The stop ladder of one position of MomentumStrategy, from the entry's   *)
(* signal to the answer of the exit that closes it: stop-loss, break-even, *)
(* trailing stop, target, holding time, RSI; the exit that fails and gives *)
(* the position back; the entry price that the fill corrects; an ATR that  *)
(* changes between two tickers; and the restart from the saved snapshot,   *)
(* which tickers do not renew.                                             *)
(*                                                                         *)
(* A price is a number of ticks in favour of the position, counted from    *)
(* the price of the entry's signal, so that a long and a short are the     *)
(* same but for what the code does differently; a percentage of the entry  *)
(* price is a number of ticks.  Snapshots are saved at once and in order   *)
(* here: StateFile is about the saves.                                     *)
(***************************************************************************)
EXTENDS Integers, Sequences

CONSTANTS
    StopLoss,     \* stop_loss_pct
    Breakeven,    \* breakeven_trigger_pct
    Trigger,      \* trailing_trigger_pct
    Distance,     \* trailing_distance_pct
    TakeProfit,   \* take_profit_pct
    Fee,          \* round_trip_fee_pct
    Atrs,         \* values of the ATR; 0: not known yet
    AtrStop,      \* AtrStop[a]: atr_stop_multiplier times a
    AtrTrigger,   \* AtrTrigger[a]: atr_trailing_multiplier times a
    AtrDistance,  \* AtrDistance[a]: atr_trailing_distance times a
    MaxHold,      \* max_hold_seconds
    StaleAge,     \* stale_exit_seconds
    StaleGain,    \* stale_pnl_threshold_pct
    Spread,       \* between bid and ask
    Prices,       \* bound: prices that tickers quote
    Slips,        \* bound: how far a fill may be from its signal
    MaxTrades,    \* bound: entries
    MaxRestarts   \* bound: crashes of the process

(* validate() of config.rs checks the first line; that a trailing stop     *)
(* starts no lower than the break-even stop it replaces it does not.       *)
ASSUME LadderAssumption ==
    /\ {StopLoss, Breakeven, Trigger, Distance, TakeProfit, Fee} \subseteq Nat
    /\ 0 < StopLoss /\ 0 < Breakeven
    /\ Breakeven < Trigger /\ Trigger < TakeProfit
    /\ Fee + Distance <= Trigger
    /\ Atrs \subseteq Nat
    /\ {AtrStop, AtrTrigger, AtrDistance} \subseteq [Atrs -> Nat]
    /\ \A a \in Atrs : AtrDistance[a] <= AtrTrigger[a]
    /\ \A a, b \in Atrs : a <= b => /\ AtrStop[a] <= AtrStop[b]
                                    /\ AtrTrigger[a] <= AtrTrigger[b]
                                    /\ AtrDistance[a] <= AtrDistance[b]
    /\ {MaxHold, StaleAge, Spread, MaxTrades, MaxRestarts} \subseteq Nat
    /\ {StaleGain} \cup Prices \cup Slips \subseteq Int

VARIABLES
    setup,     \* the configuration: which side is traded, use_atr_stops
    st,        \* the fields of StrategyState that a snapshot saves
    ram,       \* those that it does not
    file,      \* the saved snapshot
    orders,    \* signals that have no answer yet, oldest first
    trade,     \* history: number of entries
    age,       \* time since entry_time
    restarts,  \* history: number of restarts
    peak,      \* history: best price that the ladder was shown in this trade
    mark,      \* history: best stop in force in this trade
    saved,     \* history: the stop in force when the file was written
    lost,      \* history: was the last exit at the stop, at a net loss?
    excuse     \* history: what has happened to this trade that may lower it

vars == <<setup, st, ram, file, orders, trade, age, restarts, peak, mark,
          saved, lost, excuse>>

Higher(a, b) == IF a >= b THEN a ELSE b

-----------------------------------------------------------------------------
(* The ladder.                                                             *)

\* current_atr.max(entry_atr): the stop does not tighten when the ATR falls.
Effective(s, a) == Higher(a, s.entryAtr)

Terms(s, a) ==
    LET e == Effective(s, a) IN
    IF setup.byAtr /\ e > 0
    THEN [loss |-> AtrStop[e], trigger |-> AtrTrigger[e],
          distance |-> AtrDistance[e], cover |-> 0]
    ELSE [loss |-> StopLoss, trigger |-> Trigger, distance |-> Distance,
          cover |-> Fee]

Trails(s, a) == s.best - s.entry >= Terms(s, a).trigger
Covers(s, a) == ~Trails(s, a) /\ s.best - s.entry >= Breakeven

\* Mutation of Stop: once active, the trailing stop stays one.
StopSticky(s, a) ==
    IF s.trailing \/ Trails(s, a) THEN s.best - Terms(s, a).distance
    ELSE IF Covers(s, a) THEN s.entry + Terms(s, a).cover
    ELSE s.entry - Terms(s, a).loss

\* dynamic_sl.
Stop(s, a) ==
    IF Trails(s, a) THEN s.best - Terms(s, a).distance
    ELSE IF Covers(s, a) THEN s.entry + Terms(s, a).cover
    ELSE s.entry - Terms(s, a).loss

\* What a ticker at price p does to the position before it judges it.
Climbed(s, p) ==
    LET up == [s EXCEPT !.best = Higher(@, p)] IN
    [up EXCEPT !.trailing = @ \/ Trails(up, ram.atr),
               !.breakeven = @ \/ Covers(up, ram.atr)]

Stopped(s, p) == p <= Stop(s, ram.atr)
Rich(s, p) == p - s.entry >= TakeProfit
Old == age >= MaxHold
Stale(s, p) == age >= StaleAge /\ p - s.entry < StaleGain /\ ~s.trailing

\* overbought: rsi > rsi_overbought, which closes longs only.
ShouldExit(s, p, overbought) ==
    Stopped(s, p) \/ Rich(s, p) \/ Old \/ Stale(s, p) \/ overbought

\* Mutation of Reason: a stale trade is called so though its stop was hit.
ReasonStaleFirst(s, p) ==
    CASE Rich(s, p)                    -> "target"
      [] ~Rich(s, p) /\ Stale(s, p)    -> "stale"
      [] OTHER                         -> IF Stopped(s, p) THEN "stop"
                                          ELSE IF Old THEN "timeout" ELSE "rsi"

Reason(s, p) ==
    CASE Rich(s, p)                     -> "target"
      [] ~Rich(s, p) /\ Stopped(s, p)   -> IF s.trailing THEN "trailing"
                                           ELSE IF s.breakeven THEN "breakeven"
                                           ELSE "stop"
      [] OTHER                          -> IF Stale(s, p) THEN "stale"
                                           ELSE IF Old THEN "timeout" ELSE "rsi"

Net(s, p) == p - s.entry - Fee

-----------------------------------------------------------------------------
Flat == [held |-> FALSE, priced |-> FALSE, entry |-> 0, best |-> 0,
         trailing |-> FALSE, breakeven |-> FALSE, entryAtr |-> 0]

Fresh == [atr |-> 0, fails |-> 0, blocked |-> FALSE, paused |-> FALSE,
          seen |-> FALSE]

Init ==
    /\ setup \in [side : {"Long", "Short"}, byAtr : BOOLEAN]
    /\ st = Flat
    /\ ram = Fresh
    /\ file = Flat
    /\ orders = <<>>
    /\ trade = 0 /\ age = 0 /\ restarts = 0
    /\ peak = 0 /\ mark = 0 /\ saved = 0
    /\ lost = FALSE
    /\ excuse = "none"

\* The history of a step: is there a reason for a lower stop, and the best stop
\* so far as long as there is none.
Record(lowered) ==
    /\ excuse' = IF lowered /\ excuse = "none" THEN "lowered" ELSE excuse
    /\ mark' = IF excuse' # "none" THEN 0
               ELSE IF st'.held THEN Higher(mark, Stop(st', ram'.atr)) ELSE mark

Save ==
    /\ file' = st'
    /\ saved' = IF st'.held THEN Stop(st', ram'.atr) ELSE 0

\* BUY or SHORT: the position counts from the signal on.
Enter ==
    /\ ~st.held /\ ram.atr > 0 /\ ~ram.paused /\ trade < MaxTrades
    /\ st' = [held |-> TRUE, priced |-> TRUE, entry |-> 0, best |-> 0,
              trailing |-> FALSE, breakeven |-> FALSE, entryAtr |-> ram.atr]
    /\ ram' = [ram EXCEPT !.fails = 0, !.seen = TRUE]
    /\ orders' = Append(orders, "enter")
    /\ trade' = trade + 1
    /\ age' = 0 /\ peak' = 0 /\ lost' = FALSE /\ excuse' = "none"
    /\ mark' = Stop(st', ram.atr)
    /\ Save
    /\ UNCHANGED <<setup, restarts>>

\* A ticker while the position is held: 60 s after a failed exit it is ignored.
Ticker == /\ st.held
          /\ ram' = [ram EXCEPT !.seen = TRUE]

Ignore ==
    /\ Ticker /\ ram.blocked
    /\ UNCHANGED <<setup, st, file, orders, trade, age, restarts, peak, mark,
                   saved, lost, excuse>>

Hold(p) ==
    /\ Ticker /\ ~ram.blocked
    /\ st' = Climbed(st, p)
    /\ ~ShouldExit(st', p, FALSE)
    /\ peak' = Higher(peak, p)
    /\ Record(FALSE)
    /\ UNCHANGED <<setup, file, orders, trade, age, restarts, saved, lost>>

\* A net loss at the stop or at the time limit pauses entries, a win ends it.
Close(p, overbought) ==
    LET s == Climbed(st, p) IN
    /\ st.held /\ ~ram.blocked
    /\ overbought => setup.side = "Long"
    /\ ShouldExit(s, p, overbought)
    /\ st' = [s EXCEPT !.held = FALSE]
    /\ ram' = [ram EXCEPT !.seen = TRUE,
                 !.paused = \/ Reason(s, p) \in {"stop", "timeout"}
                               /\ Net(s, p) < 0
                            \/ @ /\ Net(s, p) <= 0]
    /\ orders' = Append(orders, "exit")
    /\ peak' = Higher(peak, p)
    /\ lost' = (Stopped(s, p) /\ Net(s, p) < 0)
    /\ Record(FALSE)
    /\ Save
    /\ UNCHANGED <<setup, trade, age, restarts>>

\* A bar arrives, and no ticker has for 30 s: no ladder, no pause.
EmergencyExit ==
    /\ st.held /\ ram.seen
    /\ st' = [st EXCEPT !.held = FALSE]
    /\ orders' = Append(orders, "exit")
    /\ lost' = FALSE
    /\ UNCHANGED <<setup, ram, trade, age, restarts, peak, mark, excuse>>
    /\ Save

\* A five-minute bar ends.
AtrChanges(a) ==
    /\ a > 0 /\ a # ram.atr
    /\ ram' = [ram EXCEPT !.atr = a]
    /\ st' = st
    /\ Record(Effective(st, a) > Effective(st, ram.atr))
    /\ UNCHANGED <<setup, file, orders, trade, age, restarts, peak, saved,
                   lost>>

Ages ==
    /\ trade > 0 /\ age < MaxHold
    /\ age' = age + 1
    /\ UNCHANGED <<setup, st, ram, file, orders, trade, restarts, peak, mark,
                   saved, lost, excuse>>

\* Mutation of Unblock: the pause is looked at after the first failure only.
UnblockOnce ==
    /\ ram.blocked /\ ram.fails = 1
    /\ ram' = [ram EXCEPT !.blocked = FALSE]
    /\ UNCHANGED <<setup, st, file, orders, trade, age, restarts, peak, mark,
                   saved, lost, excuse>>

Unblock ==
    /\ ram.blocked
    /\ ram' = [ram EXCEPT !.blocked = FALSE]
    /\ UNCHANGED <<setup, st, file, orders, trade, age, restarts, peak, mark,
                   saved, lost, excuse>>

Unpause ==
    /\ ram.paused
    /\ ram' = [ram EXCEPT !.paused = FALSE]
    /\ UNCHANGED <<setup, st, file, orders, trade, age, restarts, peak, mark,
                   saved, lost, excuse>>

-----------------------------------------------------------------------------
(* Answers.                                                                *)

Answered(kind) ==
    /\ orders # <<>> /\ Head(orders) = kind
    /\ orders' = Tail(orders)
    /\ UNCHANGED <<setup, trade, age, restarts, lost>>

\* on_order_filled looks at the order's side only: BUY corrects the entry of a
\* long, SELL (the exit of a long, and the entry of a short) clears the entry
\* when the position is gone already.
Cleared(s) == IF s.held THEN s
              ELSE [s EXCEPT !.priced = FALSE, !.entryAtr = 0]

EntryFilled(slip) ==
    /\ Answered("enter")
    /\ peak' = peak
    /\ st' = IF setup.side = "Short" THEN Cleared(st)
             ELSE IF st.held THEN [st EXCEPT !.entry = slip] ELSE st
    /\ ram' = ram
    /\ Record(st' # st)
    /\ Save

ExitFilled ==
    /\ Answered("exit")
    /\ peak' = peak
    /\ st' = IF setup.side = "Long" THEN Cleared(st) ELSE st
    /\ ram' = ram
    /\ Record(FALSE)
    /\ Save

EntryRejected ==
    /\ Answered("enter")
    /\ peak' = peak
    /\ ram' = ram
    /\ \/ /\ st.held /\ st' = Flat
          /\ Record(FALSE)
          /\ Save
       \/ /\ ~st.held
          /\ UNCHANGED <<st, mark, excuse, file, saved>>

\* Mutation of ExitRejected: the ladder starts again from the bid.
ExitRejectedRebased(bid) ==
    /\ Answered("exit")
    /\ \/ /\ ~st.held /\ st.priced /\ ram.fails + 1 >= 3
          /\ st' = [st EXCEPT !.priced = FALSE]
          /\ ram' = [ram EXCEPT !.fails = 0, !.blocked = FALSE]
          /\ Record(FALSE)
          /\ Save
       \/ /\ ~st.held /\ st.priced /\ ram.fails + 1 < 3
          /\ st' = [st EXCEPT !.held = TRUE,
                      !.best = bid]
          /\ ram' = [ram EXCEPT !.fails = @ + 1, !.blocked = TRUE]
          /\ Record(FALSE)
          /\ Save
       \/ /\ st.held \/ ~st.priced
          /\ ram' = ram
          /\ UNCHANGED <<st, mark, excuse, file, saved>>
    /\ peak' = IF st'.held THEN Higher(peak, st'.best) ELSE peak

\* The position comes back, with the ladder as it was, raised to the bid of the
\* moment; the third failure in a row gives it up.
ExitRejected(bid) ==
    /\ Answered("exit")
    /\ \/ /\ ~st.held /\ st.priced /\ ram.fails + 1 >= 3
          /\ st' = [st EXCEPT !.priced = FALSE]
          /\ ram' = [ram EXCEPT !.fails = 0, !.blocked = FALSE]
          /\ Record(FALSE)
          /\ Save
       \/ /\ ~st.held /\ st.priced /\ ram.fails + 1 < 3
          /\ st' = [st EXCEPT !.held = TRUE,
                      !.best = Higher(@, bid + IF setup.side = "Short"
                                                   THEN Spread ELSE 0)]
          /\ ram' = [ram EXCEPT !.fails = @ + 1, !.blocked = TRUE]
          /\ Record(FALSE)
          /\ Save
       \/ /\ st.held \/ ~st.priced
          /\ ram' = ram
          /\ UNCHANGED <<st, mark, excuse, file, saved>>
    /\ peak' = IF st'.held THEN Higher(peak, st'.best) ELSE peak

\* Mutation of Restored: the snapshot has no entry_atr.
RestoredBare(s) == IF s.held THEN [s EXCEPT !.entryAtr = 0] ELSE Flat

\* StrategyState::new: no position, no ladder.
Restored(s) == IF s.held THEN s ELSE Flat

Restart ==
    /\ restarts < MaxRestarts
    /\ restarts' = restarts + 1
    /\ st' = Restored(file)
    /\ ram' = Fresh
    /\ orders' = <<>>
    /\ excuse' = "restarted"
    /\ peak' = 0 /\ mark' = 0
    /\ UNCHANGED <<setup, file, trade, age, saved, lost>>

-----------------------------------------------------------------------------
Tick == \/ Ignore
        \/ \E p \in Prices : \/ Hold(p)
                             \/ \E overbought \in BOOLEAN : Close(p, overbought)
Answer == \/ \E slip \in Slips : EntryFilled(slip)
          \/ ExitFilled \/ EntryRejected
          \/ \E bid \in Prices : ExitRejected(bid)

Next ==
    \/ Enter \/ Tick \/ EmergencyExit \/ Ages \/ Unblock \/ Unpause
    \/ \E a \in Atrs : AtrChanges(a)
    \/ Answer
    \/ Restart

Spec == Init /\ [][Next]_vars

(* Time passes, some ticker comes after the time limit, and every order is *)
(* answered (TradingLoop shows that OrderExecutionService does).           *)
FairSpec == Spec /\ WF_vars(Old /\ Tick) /\ WF_vars(Ages) /\ WF_vars(Unblock)
                 /\ WF_vars(Answer)

-----------------------------------------------------------------------------
\* Types.
TypeOK ==
    /\ setup \in [side : {"Long", "Short"}, byAtr : BOOLEAN]
    /\ {st, file} \subseteq
         [held : BOOLEAN, priced : BOOLEAN, entry : Int, best : Int,
          trailing : BOOLEAN, breakeven : BOOLEAN, entryAtr : Atrs \cup {0}]
    /\ ram \in [atr : Atrs \cup {0}, fails : 0 .. 2, blocked : BOOLEAN,
                paused : BOOLEAN, seen : BOOLEAN]
    /\ orders \in Seq({"enter", "exit"})
    /\ trade \in 0 .. MaxTrades
    /\ age \in 0 .. MaxHold
    /\ restarts \in 0 .. MaxRestarts
    /\ {peak, mark, saved} \subseteq Int
    /\ lost \in BOOLEAN
    /\ excuse \in {"none", "lowered", "restarted"}

\* In the life of a trade the stop only moves in its favour, also across an exit
\* that failed, unless its fill corrected the entry, the ATR rose above what the
\* stop was computed from, or the process was restarted.
StopHeld == st.held /\ excuse = "none" => Stop(st, ram.atr) >= mark

\* Whatever fills, failed exits and the ATR have done: a position that was shown
\* a gain of break-even, counted from its entry price, is stopped no lower than
\* there.  Only a restart may forget the gain.
BreakevenProtects ==
    st.held /\ excuse # "restarted" /\ peak - st.entry >= Breakeven
        => Stop(st, ram.atr) >= st.entry

\* A position that a restart finds is stopped no lower than it was when it was
\* last saved, although the ATR is not known for the next hours.
RestartKeepsStop ==
    [][restarts' # restarts /\ file.held
       => st'.held /\ st'.priced /\ Stop(st', ram'.atr) >= saved]_vars

\* A trade that was never shown a protecting gain and is closed at its stop at a
\* net loss pauses entries: the reason is not mistaken for a trailing stop.
StopOutPauses ==
    [][/\ lost' /\ orders' = Append(orders, "exit")
       /\ excuse = "none"
       /\ peak' < Breakeven /\ peak' < Terms(st, ram.atr).trigger
       => ram'.paused]_vars

\* No trade is held, or given back by failing exits, for ever: its holding time
\* closes it, and the third failure gives it up.
EveryTradeEnds == \A n \in 1 .. MaxTrades : <>[]~(trade = n /\ st.held)
=============================================================================
