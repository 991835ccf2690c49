---------------------------- MODULE TradingLoop -----------------------------
(***************************************************************************)
(* The loop that trades one symbol: MomentumStrategy decides and assumes   *)
(* its order went through, OrderExecutionService trades, and the answer    *)
(* comes back as an event.  All of them meet on the event bus, which is    *)
(* one FIFO here (EventBus shows why), served by one dispatcher: while an  *)
(* order is being executed nobody handles anything, but time passes and    *)
(* market data keeps queueing up.                                          *)
(*                                                                         *)
(* Spot mode: main.rs forces allow_short off, so positions are "None" or   *)
(* "Long".  Prices and indicators are abstracted: whether a tick enters,   *)
(* exits or holds, and whether an exit wins or loses, is a free choice     *)
(* within the guards of the code.  One unit of account is one entry.       *)
(***************************************************************************)
EXTENDS Integers, Sequences, FiniteSets

CONSTANTS
    Cooldown,     \* cooldown_seconds
    StaleAfter,   \* 30 s without a book ticker: emergency exit
    ExitBlock,    \* 60 s pause after a failed exit
    LossPause,    \* LossPause[n]: pause after n (4: or more) stop-losses in a row
    PoorPause,    \* pause after "insufficient funds"
    DayLen,       \* length of a day
    MaxTrades,    \* max_daily_trades
    MaxLoss,      \* max_daily_loss_pct
    Start,        \* time at which the system starts
    MaxTime,      \* bound: last instant considered
    MaxQueue,     \* bound: events waiting when market data is added
    MaxSignals,   \* bound: signals sent
    SharedBus,    \* do other symbols' orders hold up the dispatcher, too?
    MaxExecutions \* bound: executions of one order

ASSUME LoopAssumption ==
    /\ {Cooldown, StaleAfter, ExitBlock, PoorPause, MaxTrades, MaxLoss,
        MaxTime, MaxQueue, MaxSignals, MaxExecutions} \subseteq Nat
    /\ SharedBus \in BOOLEAN
    /\ DayLen \in Nat \ {0}
    /\ Start \in Nat /\ Start >= Cooldown /\ Start >= DayLen
    /\ LossPause \in [1 .. 4 -> Nat]

VARIABLES
    now,        \* wall clock
    queue,      \* events on the bus that the dispatcher has not taken
    exec,       \* the signal that OrderExecutionService is executing, or Idle
    account,    \* what the exchange account holds, in entries
    st,         \* StrategyState, as far as trading decisions depend on it
    sent,       \* history: signals emitted by the strategy
    answered,   \* history: fills and rejections handled by the strategy
    day,        \* history: today's entries and booked profit not rejected
    adrift,     \* history: entries that the account has and the strategy was
                \* never told of, less those it was told of and has not
    history     \* history: which of the exceptional events have happened

vars == <<now, queue, exec, account, st, sent, answered, day, adrift, history>>

Idle == [kind |-> "idle"]

Day(t) == t \div DayLen

\* A signal remembers what the strategy thought when it was sent.
Signal(side, sized, pnl, d) ==
    [kind |-> "signal", side |-> side, sized |-> sized, pnl |-> pnl, day |-> d]

Filled(sig) == [kind |-> "filled", sig |-> sig]
Rejected(sig, poor, t) ==
    [kind |-> "rejected", sig |-> sig, poor |-> poor, ts |-> t]

Init ==
    /\ now = Start
    /\ queue = <<>>
    /\ exec = Idle
    /\ account = 0
    /\ st = [position |-> "None", priced |-> FALSE, sized |-> FALSE,
             trades |-> 0, pnl |-> 0, exitPnl |-> 0, streak |-> 0,
             failures |-> 0, blockedUntil |-> 0, coolUntil |-> 0,
             lastTrade |-> 0, lastData |-> 0, day |-> 0]
    /\ sent = 0
    /\ answered = 0
    /\ day = [entries |-> 0, booked |-> 0]
    /\ adrift = 0
    /\ history = {}

-----------------------------------------------------------------------------
\* The world outside: time, and market data put on the bus.  The dispatcher
\* handles events in no time unless an order is executed, this symbol's or, on
\* a bus shared with other symbols, one of theirs.
Tick ==
    /\ now < MaxTime
    /\ SharedBus \/ exec # Idle \/ queue = <<>>
    /\ now' = now + 1
    /\ UNCHANGED <<queue, exec, account, st, sent, answered, day, adrift, history>>

Data == {i \in DOMAIN queue : queue[i].kind \in {"ticker", "kline"}}

Enqueue(e) ==
    /\ Len(queue) < MaxQueue
    /\ Cardinality(Data) + sent < MaxSignals   \* each may cause a signal
    /\ queue' = Append(queue, e)
    /\ UNCHANGED <<now, exec, account, st, sent, answered, day, adrift, history>>

\* parse_book_ticker stamps the event with the time of arrival.  ok: the book
\* is sane (bid below ask, spread at most 0.5 %).
Ticker == \E ok \in BOOLEAN :
            Enqueue([kind |-> "ticker", ts |-> now, ok |-> ok])

\* A candle carries its own close time: that of a closed candle may belong to
\* the day before when it arrives just after midnight.
Kline == \E d \in {Day(now), Day(now - 1)} :
            Enqueue([kind |-> "kline", day |-> d])

-----------------------------------------------------------------------------
\* StrategyState::check_daily_reset.
DailyReset(s, d) ==
    IF d = s.day THEN s
    ELSE [s EXCEPT !.day = d, !.trades = 0, !.pnl = 0,
                   !.streak = 0, !.coolUntil = 0]

\* What a change of the strategy's day does to today's totals, and whether it
\* went back to a day that was over.
Totals(s) == IF s.day = st.day THEN day ELSE [entries |-> 0, booked |-> 0]
Back(s) == IF s.day < st.day THEN {"dayBack"} ELSE {}

Outstanding == sent > answered

\* The strategy publishes a signal while it handles the head of the queue.
Emit(sig, s, totals, noted) ==
    /\ st' = s
    /\ queue' = Append(Tail(queue), sig)
    /\ sent' = sent + 1
    /\ day' = totals
    /\ history' = history \cup noted
                    \cup (IF Outstanding THEN {"crossed"} ELSE {})
    /\ UNCHANGED <<answered, adrift>>

\* The head of the queue is handled and nothing is published.
Quiet(s) ==
    /\ st' = s
    /\ queue' = Tail(queue)
    /\ day' = Totals(s)
    /\ history' = history \cup Back(s)
    /\ UNCHANGED <<sent, answered, adrift>>

\* Mutation of Leave: the exit forgets its entry price at once.
LeaveForgets(s, pnl) == [s EXCEPT !.position = "None", !.pnl = @ + pnl,
                                  !.exitPnl = pnl, !.priced = FALSE]

\* An exit books its profit at once; entry price and size stay until the
\* answer is known.
Leave(s, pnl) == [s EXCEPT !.position = "None", !.pnl = @ + pnl,
                           !.exitPnl = pnl]

Exit(s, after, pnl) ==
    Emit(Signal("SELL", s.sized, pnl, s.day), after,
         [Totals(s) EXCEPT !.booked = @ + pnl], Back(s))

Pause(n) == LossPause[IF n < 4 THEN n ELSE 4]

\* Stop-losses in a row lengthen the pause; a winning exit ends it.
Streak(s, ts, pnl, stop) ==
    CASE pnl < 0 /\ stop -> [s EXCEPT !.streak = @ + 1,
                                      !.coolUntil = ts + Pause(s.streak + 1)]
      [] pnl > 0         -> [s EXCEPT !.streak = 0, !.coolUntil = 0]
      [] OTHER           -> s

\* on_book_ticker, with a position.
Holding(s) == s.position = "Long" /\ s.priced

TickerExit(s, ts) ==
    /\ Holding(s)
    /\ ts >= s.blockedUntil
    /\ \E pnl \in {-1, 1}, stop \in BOOLEAN :
         Exit(s, Streak([Leave(s, pnl) EXCEPT !.lastTrade = ts],
                        ts, pnl, stop), pnl)

\* on_book_ticker, without one: the guards before the indicators are asked.
MayEnter(s, ts) ==
    /\ s.position = "None"
    /\ ts - s.lastTrade >= Cooldown
    /\ ts >= s.coolUntil
    /\ s.trades < MaxTrades
    /\ s.pnl > -MaxLoss

TickerEntry(s, ts) ==
    /\ MayEnter(s, ts)
    /\ Emit(Signal("BUY", FALSE, 0, s.day),
            [s EXCEPT !.position = "Long", !.priced = TRUE, !.sized = FALSE,
                      !.lastTrade = ts, !.trades = @ + 1, !.failures = 0],
            [Totals(s) EXCEPT !.entries = @ + 1], Back(s))

OnBookTicker(e) ==
    LET seen == [st EXCEPT !.lastData = e.ts]
        s    == DailyReset(seen, Day(e.ts))
    IN  IF ~e.ok THEN Quiet(seen)
        ELSE \/ Quiet(s)
             \/ TickerExit(s, e.ts)
             \/ TickerEntry(s, e.ts)

\* on_kline: emergency exit when the last book ticker that was handled is too
\* old by the wall clock.  Otherwise only indicators change.
Stale == st.lastData > 0 /\ now - st.lastData > StaleAfter

OnKline(e) ==
    IF Holding(st) /\ Stale
    THEN LET s == DailyReset(st, e.day)
         IN  \E pnl \in {-1, 1} : Exit(s, Leave(s, pnl), pnl)
    ELSE Quiet(st)

-----------------------------------------------------------------------------
\* The strategy's side of an answer.
Settle(s, totals, noted) ==
    /\ st' = s
    /\ queue' = Tail(queue)
    /\ answered' = answered + 1
    /\ day' = totals
    /\ history' = history \cup noted
    /\ UNCHANGED sent

OnOrderFilled(e) ==
    LET bought == IF st.position = "Long"
                  THEN [st EXCEPT !.priced = TRUE, !.sized = TRUE] ELSE st
        sold   == [st EXCEPT !.sized = FALSE,
                             !.priced = @ /\ st.position # "None"]
    IN  /\ Settle(IF e.sig.side = "BUY" THEN bought ELSE sold, day, {})
        /\ UNCHANGED adrift

\* Today's totals lose what was rejected, if it belonged to today.
Unbook(sig) ==
    IF sig.day # st.day THEN day
    ELSE IF sig.side = "BUY" THEN [day EXCEPT !.entries = @ - 1]
    ELSE [day EXCEPT !.booked = @ - sig.pnl]

\* Mutation of Undone: a failed entry leaves the position on.
UndoneKeepsPosition(s) ==
    [s EXCEPT !.sized = FALSE, !.trades = IF @ > 0 THEN @ - 1 ELSE 0]

\* A failed entry is undone, unless the position is gone already.
Undone(s) ==
    [s EXCEPT !.position = "None", !.priced = FALSE, !.sized = FALSE,
              !.trades = IF @ > 0 THEN @ - 1 ELSE 0]

EntryRejected(e) ==
    /\ e.sig.side = "BUY"
    /\ Settle(IF st.position = "None" THEN st
              ELSE IF e.poor
                   THEN [Undone(st) EXCEPT !.coolUntil = e.ts + PoorPause]
                   ELSE Undone(st),
              Unbook(e.sig), {})
    /\ UNCHANGED adrift

\* Mutation of RolledBack: the day's profit keeps the exit that failed.
RolledBackKeepsPnl(s) == [s EXCEPT !.exitPnl = 0, !.failures = @ + 1]

\* A failed exit takes its profit off the day again.
RolledBack(s) ==
    [s EXCEPT !.pnl = @ - s.exitPnl, !.exitPnl = 0, !.failures = @ + 1]

\* Mutation of TooManyFailures: one failure more.
OneFailureMore(n) == n > 3

TooManyFailures(n) == n >= 3

\* It restores the position and blocks exits for a while; the third failure
\* in a row drops the position instead, and what the account holds is adrift.
ExitRejected(e) ==
    LET back == RolledBack(st)
        late == IF st.exitPnl # 0 /\ e.sig.day # st.day
                THEN {"lateRollback"} ELSE {}
    IN  /\ e.sig.side = "SELL"
        /\ IF ~(st.position = "None" /\ st.priced)
           THEN Settle(st, Unbook(e.sig), {}) /\ UNCHANGED adrift
           ELSE IF TooManyFailures(back.failures)
           THEN /\ Settle([back EXCEPT !.priced = FALSE, !.failures = 0,
                                       !.blockedUntil = 0],
                          Unbook(e.sig), late)
                /\ adrift' = adrift + 1
           ELSE /\ Settle([back EXCEPT !.position = "Long",
                                       !.blockedUntil = e.ts + ExitBlock],
                          Unbook(e.sig), late)
                /\ UNCHANGED adrift

OnOrderRejected(e) == EntryRejected(e) \/ ExitRejected(e)

-----------------------------------------------------------------------------
\* The dispatcher takes the oldest event once the last one is done with.
Handle ==
    /\ queue # <<>>
    /\ exec = Idle
    /\ LET e == Head(queue)
       IN  \/ e.kind = "ticker" /\ OnBookTicker(e)
           \/ e.kind = "kline" /\ OnKline(e)
           \/ e.kind = "filled" /\ OnOrderFilled(e)
           \/ e.kind = "rejected" /\ OnOrderRejected(e)
    /\ UNCHANGED <<now, exec, account>>

Take ==
    /\ queue # <<>>
    /\ exec = Idle
    /\ Head(queue).kind = "signal"
    /\ exec' = Head(queue)
    /\ queue' = Tail(queue)
    /\ UNCHANGED <<now, account, st, sent, answered, day, adrift, history>>

Answer(e) ==
    /\ exec' = Idle
    /\ queue' = Append(queue, e)
    /\ UNCHANGED <<now, st, sent, answered, day, history>>

\* The client sends an order again when it lost the reply, without an id of its
\* own, and a limit entry that failed is followed by a market order: one signal's
\* order may be executed several times (LimitEntry), in part or whole, which counts
\* as whole here.  Each SELL needs the asset; one sent before its BUY's fill was
\* known sells the configured quantity, not the one bought, and may leave a part.
Traded(n) ==
    IF exec.side = "BUY" THEN {account + n}
    ELSE IF account < n THEN {}
    ELSE IF exec.sized THEN {account - n}
    ELSE (account - n) .. account

\* Executions that the answer does not tell of.
Untold(n) == IF exec.side = "BUY" THEN n ELSE -n

\* The answer tells of one.
ExecuteFilled ==
    /\ exec # Idle
    /\ \E n \in 1 .. MaxExecutions :
         /\ account' \in Traded(n)
         /\ adrift' = adrift + Untold(n - 1)
    /\ Answer(Filled(exec))

\* Mutation of ExecuteRejected: the error is logged and not published.
ExecuteRejectedSilently ==
    /\ exec # Idle
    /\ exec' = Idle
    /\ UNCHANGED <<now, queue, account, st, sent, answered, day, adrift, history>>

\* Sizing, the risk check or the exchange says no; or the exchange executed the
\* order, the replies were lost, and the client gives up or is refused at last.
ExecuteRejected ==
    /\ exec # Idle
    /\ \E n \in 0 .. MaxExecutions, poor \in BOOLEAN :
         /\ poor => exec.side = "BUY"
         /\ account' \in Traded(n)
         /\ adrift' = adrift + Untold(n)
         /\ Answer(Rejected(exec, poor, now))

Execute == ExecuteFilled \/ ExecuteRejected

Next == Tick \/ Ticker \/ Kline \/ Handle \/ Take \/ Execute

\* The dispatcher task runs when it can; a REST call ends within its timeout.
Fairness == WF_vars(Handle \/ Take) /\ WF_vars(Execute)

Spec == Init /\ [][Next]_vars
FairSpec == Spec /\ Fairness

-----------------------------------------------------------------------------
SideOf == {"BUY", "SELL"}
SignalSet == [kind : {"signal"}, side : SideOf, sized : BOOLEAN,
              pnl : {-1, 0, 1}, day : Nat]
EventSet == [kind : {"ticker"}, ts : Nat, ok : BOOLEAN]
              \cup [kind : {"kline"}, day : Nat]
              \cup SignalSet
              \cup [kind : {"filled"}, sig : SignalSet]
              \cup [kind : {"rejected"}, sig : SignalSet, poor : BOOLEAN, ts : Nat]

StateSet == [position : {"None", "Long"}, priced : BOOLEAN, sized : BOOLEAN,
             trades : Nat, pnl : Int, exitPnl : {-1, 0, 1}, streak : Nat,
             failures : 0 .. 2, blockedUntil : Nat, coolUntil : Nat,
             lastTrade : Nat, lastData : Nat, day : Nat]

\* Types; at most one order is being executed.
TypeOK ==
    /\ now \in Nat
    /\ queue \in Seq(EventSet)
    /\ exec \in SignalSet \cup {Idle}
    /\ account \in Nat
    /\ st \in StateSet
    /\ sent \in Nat /\ answered \in 0 .. sent
    /\ day \in [entries : Int, booked : Int]
    /\ adrift \in Int
    /\ history \subseteq {"crossed", "dayBack", "lateRollback"}

\* Every order has been answered and the answer handled.
Settled == ~Outstanding

\* What the account holds by what the strategy was told.
Owned == account - adrift

\* The strategy believes in its orders before they are executed, and believes
\* rightly in the end: once all answers are in, what the account holds is exactly
\* the position, apart from what is adrift: executions that no answer told of and
\* positions given up after three failed exits.  Rollbacks, late answers and the
\* day's change add nothing to that, unless a signal crossed an answer.
PositionAgrees ==
    Settled /\ "crossed" \notin history
        => Owned = IF st.position = "Long" THEN 1 ELSE 0

\* The totals that gate the next entry count exactly today's entries and exits
\* that were not rejected; a rejection undoes what the signal booked.
TotalsAgree ==
    history \cap {"crossed", "dayBack", "lateRollback"} = {}
        => st.trades = day.entries /\ st.pnl = day.booked

\* While the account holds more than what is adrift, the entry price is
\* remembered, so a late rejection can restore the position: only a confirmed or
\* abandoned exit forgets it, whatever was executed twice or told of falsely.
PriceKept == "crossed" \notin history /\ Owned > 0 => st.priced

\* Every signal is answered, and the strategy handles the answer.
EverySignalAnswered ==
    \A k \in 1 .. MaxSignals : sent >= k ~> answered >= k

=============================================================================
