# Specification of the Binance trading system

TLA+ models of the event-driven trading program in `src/` (the Rust crate
`src/src`), TLC runs that check them on small instances, and TLAPS proofs of
what holds for every instance. The source is the reference; documents and
comments are quoted where the code does something else.

## 1. The system

| Part | State | Operations | Talks to |
|---|---|---|---|
| `TokioEventBus`, `EventDispatcher` (`event_bus.rs`) | broadcast ring of 2000 events, map id → handler, next id; the dispatcher's receive position | `publish`, `subscribe`, `unsubscribe`, `run` | everything below; one dispatcher calls all handlers and waits for all of them |
| `MomentumStrategy` (one per symbol) | position, entry price and quantity, day totals, cooldowns, stop-loss streak, exit failures, indicators | `on_kline`, `on_agg_trade`, `on_book_ticker`, `on_order_filled`, `on_order_rejected` | gets market data and answers from the bus, publishes `TradingSignal`; saves a state file |
| `OrderExecutionService` | cached balances, limit-entry settings | `handle`/`execute_signal`, `place_limit_then_market`, `sync_balance`, periodic sync task | gets signals, asks `RiskMonitorService`, calls `BinanceClient`, publishes `OrderSubmitted`, `OrderFilled`, `OrderRejected` |
| `BinanceClient` | ban deadline shared by all clones | `get`, `post`, `delete` with retries; `handle_response`, `handle_api_error` | the exchange |
| `RiskRules`, `RiskMonitorService` | last order time, order count, daily loss, day | `pre_trade_check`, `record_order`, `update_loss`, `update_position` | called by the execution service |
| `MarketDataService` | connection, backoff, last message time | `start`, `connect_and_run`, `handle_message` | publishes tickers, trades, klines |
| `RotationService` | state file: last rebalance, holding, entry and peak price | `run`, `tick`, trailing stop, `execute_rotation` | calls `BinanceClient` only; in rotation mode nothing else trades |
| `FundingRateService` | last rate per symbol | poller, `current_rate` | read by the strategy |
| `OrderHandler` | log of order events | `handle` | bus |
| Backtest engines (`engine.rs`, `strategy_v2.rs`) | simulated position, capital, day totals, indicators | `run_kline_backtest`, `run_replay_backtest`, `run_backtest_on_data`, `run_backtest_v2` | read recorded bars, fill a report; nothing runs beside them |
| Indicators, configuration, logger, events, tools | – | – | – |

`main.rs` wires them: one bus, one dispatcher task; spot mode turns short
selling off; balances are synchronised before the execution service subscribes.
With `strategy_type = "MomentumRotation"` (the configured one) only the rotation
service runs.

### What is hard in it

* **One dispatcher for everything.** A handler that waits for the exchange (a
  limit entry waits up to 30 s and makes a dozen calls with retries) holds up
  all events; the ring fills; when it overflows, the dispatcher ends.
* **Belief before fact.** The strategy changes its position when it *sends* a
  signal; fills and rejections come back later through the same queue, behind
  market data that was already in it. Midnight may lie between.
* **Calls that fail half-way.** A POST may be executed although its reply is
  lost, and is sent again; a cancellation may fail; a query may fail; the
  process may crash between two orders or between an order and a save.
* **State files.** They are saved at some points only and describe an account
  that moves on without them.
* **Shared, cached numbers.** The balance cache and the ban deadline are written
  by two tasks.
* **Silence.** A dead websocket says nothing. Only time tells it from a quiet
  market, and every step of a connection can stall.
* **Judging a bar afterwards.** A backtest knows the extremes of a bar, not their
  order, and moves its stop and compares with it in the same breath.

### What makes each part correct

* Bus: each subscriber gets exactly the events it asked for, once, in order; a
  published event is eventually taken, or the dispatcher was overtaken.
* Strategy with execution: belief and account agree once all answers are in; day
  totals count what happened that day; the entry price survives until the exit
  is certain; every signal is answered.
* Stop ladder: the stop never moves against the position without a reason; a gain
  of break-even stays protected; a restart finds the stop that was saved; a trade
  that was stopped out pauses entries; every trade ends.
* State file: whatever is written last can be loaded; strategy and account agree
  once all answers are in; the day's limit, cooldowns and pauses survive a crash.
* Limit entry: exact without faults; with faults, a bounded excess, nothing
  reported that was not bought; it ends.
* Rate limit: after an error -1003 only calls already begun are still sent, and an
  order is repeated for network failures only.
* Rotation: trades keep an interval's distance whatever restarts come between; a
  stop follows a fall of the holding's own price; the file comes to agree with
  the account.
* Balance cache: it is the account to the last unit except for named reasons, and
  comes back to it; what passed sizing and checks can be paid for; entries keep their
  distance from the last order and stay below the position limit.
* Market data: a dead connection is replaced in bounded time, a live one is kept
  however quiet, failures back off, and data come again when the network does.
* Backtest: what is closed adds up to what was opened; recorded stops and targets
  are prices of their bar; the stop never loosens; a half profit is never lost
  again; a loss is followed by the long cooldown.

## 2. Modules

| Module | Models | Notes |
|---|---|---|
| `Mailboxes` | – | abstract bus: one mailbox per subscription, read in order; may be shut once |
| `EventBus` | `event_bus.rs` | ring, subscriptions, dispatcher; `ImplementsMailboxes` is the refinement |
| `EventBusProofs` | – | TLAPS proofs about `EventBus`, the refinement of `Mailboxes` included |
| `TradingLoop` | `momentum_strategy.rs`, `execute_signal`/`handle` of `order_execution_service.rs` | one symbol; the bus is a FIFO queue, which `EventBus` justifies while the dispatcher lives |
| `TradingLoopProofs` | – | TLAPS proofs about `TradingLoop` |
| `LimitEntry` | `place_limit_then_market`, the fallback in `execute_signal`, `BinanceClient` | one BUY against an exchange with faults |
| `ExitLadder` | exits of `on_book_ticker`, the fills and rejections of `momentum_strategy.rs` | one position in ticks of gain; long and short |
| `ExitLadderProofs` | – | TLAPS proofs about `ExitLadder` |
| `StateFile` | `PersistentState`, `StrategyState::new`, what is saved when | snapshots, crashes, both sides |
| `StateFileProofs` | – | TLAPS proofs about `StateFile` |
| `RateLimit` | `get`, `post`, `delete`, `get_klines`, `handle_response`, `handle_api_error` of `binance_client.rs` | several tasks, one deadline |
| `ClientProofs` | – | TLAPS proofs about `RateLimit` and `LimitEntry` |
| `Rotation` | `rotation_service.rs` | ticks, crashes, state file |
| `RotationProofs` | – | TLAPS proofs about `Rotation` |
| `AccountCache` | `sync_balance`, the sync task, sizing and booking in `execute_signal`, `RiskRules` | the cache against the account, orders of several symbols |
| `AccountCacheProofs` | – | TLAPS proofs about `AccountCache` |
| `MarketData` | `start`, `connect_and_run`, `handle_connection_generic` of `market_data_service.rs` | one connection, time in ticks |
| `Backtest` | the four engines of `backtest/` | one position, bars in ticks of gain |
| `MarketProofs` | – | TLAPS proofs about `MarketData` and `Backtest` |
| `MC*` | – | instances for TLC |

Two of the proof modules extend two models each, what is done over one client and
what is done with the market's data; so that the names do not clash, the
specification of `LimitEntry` is `EntrySpec` and that of `Backtest` is
`BacktestSpec`, with their parts and types named alike.

### EventBus

Events are numbered by publication; `published` is everything ever sent, and the
ring is its last `Capacity` entries, so an event is `Lagged` when that many were
sent after it. `Dispatch` is a `recv` with the filter over the handlers
subscribed at that moment; `busy` are the handlers that `join_all` waits for;
`Finish` is a handler's return, `Ok` or `Err`. Handlers publish while they run,
which is `Publish`. `Stop` is the end of `while let Ok(event)` on
`RecvError::Lagged`. `handled`, `since` and `until` are history.

### TradingLoop

`queue` is the bus, `exec` the signal in execution (while it is there nobody
handles anything), `account` what the exchange holds. `Handle` is one handler of
the strategy: `OnBookTicker`, `OnKline`, `OnOrderFilled`, `OnOrderRejected`, with
the guards of the code in their order. `Take` and `Execute…` are `handle` and
`execute_signal`.

Abstractions: prices and indicators are a free choice within the guards (a tick
may enter, exit or hold; an exit wins or loses one unit); warming up is part of
that choice; shorts are off as `main.rs` forces them to be; the cached balance is
the account's; a rejection is one free choice that stands for sizing, the risk
check and the exchange. `SharedBus` lets time pass while other symbols' orders
hold up the dispatcher. A position is an entry, so a sale of the wrong quantity
leaves a whole unit or nothing.

A signal's order may be executed up to `MaxExecutions` times, whatever its answer
says: the client posts again when a reply is lost, without an id of its own, and a
failed limit entry is followed by a market order (`LimitEntry` has both). `adrift` is
the ledger of that: what the account holds more, or less, than the strategy was told
of, and the positions that a third failed exit gave up. The agreement is claimed of
what is left of the account then (`Owned`), so a doubled purchase does not hide a
belief that is wrong by one more.

`history` names events outside of which a property is claimed, so that it cannot
hide anything else: `crossed` – a signal sent while an earlier one was
unanswered; `dayBack` – a candle of the day before took the strategy's day back;
`lateRollback` – an exit rejected on another day than it was sent. TLC reaches each
of them.

Three modules look at the strategy from three sides: `TradingLoop` at the race
between events and answers, `ExitLadder` at the prices, `StateFile` at the file.
What is a free choice in one is an action in another: `TradingLoop`'s and
`StateFile`'s exits are the decisions of `ExitLadder`, whose snapshots are saved at
once and in order, which is what `StateFile` does not assume.

### ExitLadder

Prices are ticks in favour of the position, counted from the price of the entry's
signal, so that a long and a short share one ladder; what the code does
differently for the two stays different: only a long's fill corrects the entry, a
short's entry is filled by a SELL, the RSI closes longs only, and the position
given back is raised to the bid, which for a short is better than the ask that
tickers show (`Spread`). `st` is what a snapshot saves, `ram` what it does not
(the ATR and the counts of failures among it), `file` the last snapshot.

`Enter` is the signal, from which on the position counts. `Hold` and `Close` are
one ticker: the best price and the flags first, then the decision and its reason.
`Ignore` is a ticker in the minute after a failed exit. `EmergencyExit` and
`AtrChanges` are `on_kline`. `EntryFilled`, `ExitFilled`, `EntryRejected` and
`ExitRejected` are the answers, `Restart` is `StrategyState::new`. `setup` chooses
the side and `use_atr_stops`.

`peak`, `mark`, `saved`, `lost` and `excuse` are history: the best price shown, the
best stop in force, the stop when the file was written, whether the exit was a net
loss at the stop, and what has happened to the trade that may lower its stop (a
corrected entry, a grown ATR, a restart). The minute of `Unblock` and the pause of
`Unpause` may be of any length, the latter's four durations included.

### StateFile

`st` and `ram` as above, without prices: whether a ticker enters or exits, and with
what outcome, is a free choice within the guards. `pending` are the snapshots that
`spawn_blocking` tasks are writing: `SaveEnds` renames any of them, `SaveFails`
drops one, `Restart` drops all, together with the signals in the air, of which the
exchange has executed any subset. `account` is what the exchange holds, `orders`
the signals without an answer. `shorts` is `allow_short`, which a restart may find
changed. An order may be executed several times, as in `TradingLoop`, and `adrift` is
the same ledger; once strategy and account are apart for another reason, what the
account holds may be anything and is no longer followed (0 stands for it).

The emergency exit takes the day from the bar, which may be yesterday's: today's
entries and pause are forgotten, and the next ticker begins the day anew. `backs`
counts such bars of a day.

A cooldown runs from an instant that the file saves. Instants are numbered and
only the cooldown of the last one may still run, so a clock that steps back (the
unsigned difference in line 1341 would then wrap) is not in the model.

`mishaps` names what the promises leave out: `apart` – something made strategy and
account disagree beyond the ledger (an answer to a position that is not there any
more, the late fill of a short's entry, a crash with orders in the air or without the
last snapshot); `stale` – a restart found an older snapshot; `forgot` – a pause after
losses was forgotten: by a restart, for no snapshot saves it, by a bar of yesterday,
or because it was set before the day's first ticker, which resets it. The file's
`stale` is judged by its content: a failed save does no harm until a restart.

### LimitEntry

`pc` names the next call; `Fails` is what `get`, `post` and `delete` do when a
call goes wrong: a send error is retried, the exchange having acted on it or
not; a response error is not retried and may start a ban; a ban in force fails a
call before it is sent. The deadline belongs to all clones of the client:
`OthersBan` is another task, such as the balance sync, being told of a ban at any
moment of the entry, which then fails calls that nothing was wrong with
(`banShared` says that it happened). `Fill` and `Expire` are the exchange's own steps, and may
come between any two calls. The dust that `round_step_size` drops is left out:
`Quantity` counts units that can be traded. What the orders bought (`InOrders`) and
what they may still buy (`StillOpen`) are sets of units, a pair of an order and a
number each, so that totals are cardinalities.

### RateLimit

`calls[c]` is the call that task `c` makes: `Begin` looks at the deadline, `Send` is
an attempt, `NetworkFails` its end without an answer (with or without the request
having been executed), `Arrive` the exchange's answer, `Receive` the client's
reading of it, with the store of the deadline on error -1003. The sleep between
attempts is any time between `NetworkFails` and the next `Send`. `get_klines`
neither looks nor stores nor repeats. A ban's message tells its end, or something
that does not parse (0).

`told` is the latest pause that any task was told of, `shortened` says that a shorter
one was stored over one in force, `during[c]` counts what `c` has sent in it. The
answers to `get_klines` are not counted as told: that call does not read the code.

### Rotation

One action per stretch of `tick()` between two calls. A tick knows nothing that
it did not load, so an error, a lost reply and a crash end it alike (`Abort`),
except that `tick` takes an error inside the trailing stop for a failed price and
goes on (`StopFails`). `mishaps` is history: `unsaved` – a trade the file does not
know of; `unpriced` – the new holding's price could not be fetched; `halfway` – a
sale without its purchase. `high` and `spacing` are history, too. Every setting of
the flags is an initial state.

### AccountCache

`account` is the exchange's, `cache` is `AccountBalance`, `order` the order in
execution and `sync` the answer that the sync task has but has not stored.
`execute_signal` is in three parts: `Enter` or `Exit` is everything before the
order (sizing, `pre_trade_check`, the cut of an exit to what is free); `Executed`,
`Refused` and `Lost` are the exchange's outcomes; `Book` is everything after the
reply (the cache, `record_order`). `Lost` is an execution that no answer tells of, or
a limit order that stays open because the cancellation failed: after it the order is
given up, or sent once more, and may be executed and booked once more. What stays
open (`left`) binds cash, and is filled at any time (`Stray`). `account` is what is
free, as `get_account` tells it. The task is `Sample` and then `Store` or
`SyncFails`; an order may be placed, executed and booked between the two.

`drift` names why the cache may differ from the account: `lost` – something
executed or left open that no answer told of; `polled`, `mixed` – a commission estimated because the
reply of a limit order lists no fills, or added up over different coins;
`crossed` – an answer stored that an order had crossed. An answer that crossed no
order clears it.

Abstractions: a lot of every asset costs one unit of cash, and a fee takes one
unit of what is received, or comes in BNB; there is no dust and no slippage.
`Misread` is what a commission of mixed coins comes to when read in lots. The
daily loss is 0, as nothing in the program updates it; the task's waiting times
and its backoff are any.

### MarketData

`phase` is where `start` is: in an attempt (`connecting`, with the step of
`connect_and_run` it awaits), in the message loop (`running`), or asleep after an
`Err` (`failed`) or an `Ok` (`lost`). Each mode has its own list of steps; `Timed`
are those under `timeout(connect_timeout)`. `Pass`, `Refused`, `Declined` and
`TimesOut` end a step; `Declined` is a far end that is there and answers with an error
(a proxy's status other than 200, a failed handshake), which it may do at any time and
for ever, so `Recovers` asks that it stops; `Message`, `Closed` and `Beat` are the arms of the `select!`.

Time passes in `Tick` only, and no deadline lets it pass: a timer fires when it
is due. The network is up or down. A far end that is `gone` says nothing, whether
the near side can know it or not; one that is `here` answers a step before its
timeout and a ping before the next beat. Writing (`request`, `subscribe`, pings
and pongs) takes no time. What a text says is left out: `handle_message` publishes
it or logs an error, and the connection goes on.

`elapsed` stops counting above `AliveThreshold` and `failures` at `MaxFailures`,
beyond which nothing tells them apart, so the model runs for ever.

### Backtest

Prices are ticks of gain from the entry's fill, so one ladder serves both sides;
`best` is the highest high of a long and the lowest low of a short. A bar is its
worst, closing and best price, in every combination; the replay's ticks are bars
of one price. `Hold` is a bar with a position: extreme, half profit, stop, exit,
in the code's order, which differs between the engines (`WhyBar`, `WhyReplay`,
`WhyV2`). `Enter` and `Wait` are a bar without one; `FiveMinutes` a bar that only
moves the ATR; `End` the forced close. Indicators and the affordable quantity are
a free choice. Cooldowns are positive, so that no bar both closes and opens.

`last`, `unsold`, `took` and `hurt` are history, and so are the last bar's
`trades`, in which `real` says that the recorded price lies within the bar and
`smooth` that the bar goes on from the last close under the same ATR: a gap, or a
grown ATR, may put the stop outside of the bar, and the engines do not care.

## 3. Runs

| Run | Shows | Bounds |
|---|---|---|
| `event_bus` | exact delivery, progress, refinement of `Mailboxes` | a ring of 2, 2 subscriptions (one takes everything, one a single type of 2), 4 events: enough to overrun the ring |
| `trading_loop` | agreement but for what is adrift, day totals, kept price, every signal answered | times up to 6 with days of 3 (two midnights matter: the start's and one later), 4 signals (entry, exit, retry, and one more), 2 events waiting, an order executed up to 2 times whether told of or not |
| `exit_ladder` | a stop that holds, protected gains, restarts, pauses, an end | five prices around a ladder of 2, 3 and 4 ticks; an ATR that starts to trail before break-even and one that does after it; both sides; a fill one tick off; 3 failed exits; one restart; holding time 2, stale after 1 |
| `restart_trailing` | *violated*: an active trailing stop is active after a restart | same |
| `state_file` | loadable snapshots, agreement, the day's limit, cooldowns and pauses | 3 instants (an entry, its exit, the next entry), 2 signals in the air, 2 snapshots in writing, 2 days, one entry a day, one crash, 2 failed exits to give up, 2 executions of an order with one entry adrift at a time, one bar of yesterday a day |
| `limit_entry` | exact without faults, bounded excess, never overstated, an end | 2 units (half fills), 2 polls, 2 retries, 3 faults, any number of bans told to other tasks |
| `rate_limit` | stragglers only, orders repeated for failures only | 2 tasks, 1 retry, a pause of 1 and an unread ban of 2, bans that end at 3: a ban outlasts a pause |
| `rotation` | spacing, justified stops, healing | 2 symbols, prices that can halve, interval of 2, 2 faults, all flags |
| `account_cache` | exact booking, funded orders, the limit, healing | 2 assets, cash of 3 and a limit of 2 (a doubled entry passes it), 3 orders, one fault (an execution not told of, an order left open, or a failed sync), an interval of 1 |
| `market_data` | resumption in time, live connections kept, backoff, recovery | the program's own intervals in units of 5 s, all modes, network failing at any time |
| `backtest` | reconciliation, real fills, kept half profit, stop that holds, rest after losses | prices from 3 below to 4 above the entry, 3 lots (a half is 1), 4 bars with midnight after 2, with and without ATR |
| `backtest_target` | *violated*: a position of either side takes its first target | same, one engine |

Deadlock checking is off where the model really may end: the bus after its
bounded number of events, the loop after its last instant, the entry when it is
over, the account after its last order and instant, the ladder and the state file
after their last trade and restart, the clients at the last instant, the backtest at
the end of its data. The rotation and the market data never end, and are checked for
deadlock.

**Fairness.** The dispatcher is a task that tokio polls when it can run, and each
await inside a handler is a timer or an HTTP call with a timeout (30 s in
`BinanceClient::new`); hence weak fairness of `Start`, of `Dispatch \/ Stop` and
of each handler's return, of `Handle \/ Take` and `Execute`, of the client's next
call in `LimitEntry`, of a tick's next step in `Rotation`,
and in `AccountCache` of the reply, the booking and the two halves of the task,
which loops for ever. `Rotation` has strong
fairness of `Sleep`: `run` sleeps between any two ticks, so time passes. So it
does in `MarketData` (strong fairness of `Tick`), whose timers fire (`Wake`,
`TimesOut`, `Beat`) and whose far end, while it is there, gets on with a step and
answers pings. In `ExitLadder` time passes (`Ages`, `Unblock`), a ticker that finds
the holding time over comes sooner or later (`WF(Old /\ Tick)`: the market data
recover, which `MarketData` shows), and each signal is answered (`Answer`, which
`TradingLoop` shows of the execution service). `StateFile` and `RateLimit` claim
safety only. Nothing else is assumed fair that the outside does: publishing, fills,
price moves, faults, the network.

**Why the bounds are enough.** Each bound is above the first value at which the
interesting case occurs (a ring overrun with a handler busy; an answer on the
next day; a third failed exit; a partial fill with a failed query; a fault
between two orders and a second one while recovering); the mutants below find
their violation within the same bounds. Each property has a mutant, an operator
before the original named "Mutation of …": a plausible slip in the code, under
which TLC finds the property violated.

## 4. What the runs refute

* A trailing stop that a ticker activated is gone after a restart: tickers save no
  snapshot, so the ladder is that of the entry's fill or of the last failed exit
  (`momentum_strategy.rs:986`, against the comment at line 57). What does survive
  is proved (`RestartsKeepTheStop`).
* A short in the backtest inherits `partial_tp_done` from the last position, of
  either side, and after a half profit takes none (`engine.rs:1065`, against `:599`).

Seen while modelling, and part of the models without a run of their own. Where a
property has to except one of them, the exception is named in it (`history`,
`mishaps`, `excuse`, `drift`, `shortened`):

* the dispatcher ends for good when the ring overtakes it (`event_bus.rs:146`);
* the emergency exit looks at the last ticker *handled*, not received
  (`momentum_strategy.rs:571`);
* a ticker queued behind a BUY sells what is not bought yet; the BUY's answer then
  finds no position, and belief and account stay apart (`crossed`,
  `momentum_strategy.rs:976`);
* one failed call, or a ban that only another task was told of, is enough for a
  limit entry to buy up to twice its quantity (`order_execution_service.rs:596`;
  `ExcessExplained` has the bound), and nothing tells the strategy, which sells one
  quantity later and knows nothing of the other (`adrift`);
* a bar of yesterday that closes a position resets the day's entries and ends the
  pause after losses (`backs`, `forgot`, `momentum_strategy.rs:579`);
* a growing ATR moves an active trailing stop back to break-even, or lowers it
  (`lowered`, `momentum_strategy.rs:993`); a price that falls through the
  break-even stop is a loss that is called a break-even stop and starts no pause
  (`:1119`, long and short);
* the fill of a short's entry is a SELL and clears the price of the position when an
  exit is already on its way; if that COVER then fails, the short is not restored
  (`apart`, `momentum_strategy.rs:1783`);
* tickers in the minute after a failed exit do not raise the best price
  (`momentum_strategy.rs:978`);
* a shorter pause is stored over a longer one (`shortened`,
  `binance_client.rs:506`); attempts after the first do not look at the deadline
  (`:333`); `get_klines` knows of no pause (`:757`);
* a commission paid in two coins is taken from one column
  (`order_execution_service.rs:665`); the position that entries are checked against
  counts BTC only (`:54`); the daily loss it is checked with is never updated
  (`risk_monitor_service.rs:112`);
* after a rotation whose price fetch failed the trailing stop measures the new
  holding from the old one's peak (`rotation_service.rs:243`); a dry run below the
  stop restarts the interval at every tick (`:296`);
* a proxy that sends its status line and nothing more holds an attempt for ever
  (`market_data_service.rs:407`; `Recovers` excepts it as `Stalled`);
* v2 starts its trailing stop with the high of the bar before the entry
  (`strategy_v2.rs:328`).

## 5. Proofs

`EventBusProofs` proves, for every capacity, set of event types, number of
subscriptions and assignment of interests (`BusAssumption`):

* `TypeCorrect`: `Spec => []TypeOK`
* `Delivery`: `Spec => []DeliveredExactly`
* `StopsOnLag`: `Spec => []StopsOnlyOnLag`, the dispatcher stops only after the ring
  has overwritten an event it had not received

All follow from `Invariant`, `Spec => []IInv`. Exact delivery alone is not
inductive: that `Dispatch` adds exactly one due event needs the receive position
to lie within what was published (`Positions`), that only ids already given out
subscribe (`Known`), and that a busy handler works on the last event taken, which
it wanted and was subscribed for or has left since (`AtWork`). The step from
`IInv` to `IInv'` is one case per action.

`Refinement` (same module) is `Spec => ImplementsMailboxes`. The
mailbox of a subscription is the event it works on together with the wanted part
of the ring; each action of `EventBus` maps to an action of `Mailboxes` or to a
stutter (a dispatched event that nobody wants).

`RotationProofs` proves, for every set of symbols, range of prices, interval and
bound (`RotationAssumption`): `TypeCorrect`, `SpacingKept` (`TradeSpacing`: trades
of the bot keep the interval although it crashes and restarts in between) and
`StopsAreJustified` (`StopJustified`). The invariant adds to the types that what a
tick loaded, and what the file says, is not older than the last trade that was
saved (`Spaced`, `Traded`), and that the peak in memory and in the file belongs to
the holding that is there (`Own`): a stop compares the two, so neither alone is
inductive.

`AccountCacheProofs` proves, for every set of assets, limit and bound
(`AccountAssumption`): `TypeCorrect`, `CacheIsExact` (`CacheExact`), `OrdersAreFunded`
(`OrdersFunded`), `EntriesAreSpaced` (`EntriesRest`) and `PositionIsCapped`
(`PositionCapped`). `CacheExact` speaks of the moment between two orders; the
invariant says what holds inside one: the cache is the account before the order
while it is placed, and booking the executed order on it gives the account after
(`Exact`); a clean answer is the account (`Clean`); the last order recorded is not
before the last one done (`Resting`); an order that was checked against an exact
cache fits the limit together with what is left open, but for what was bought or left
open untold since (`Fits`); misread commissions make the cache poorer than the account
and never richer, save a polled one in lots (`Modest`).

`MarketProofs` proves, for all intervals and modes (`MarketAssumption`):
`TypeCorrect`, `ResumesSoon` (`Resumes`) and `LiveStays` (`LiveKept`). The
invariant says that the time since the last message and the time to the next beat
together keep within the heartbeat's timeout and one beat, and within one or two
beats if the far end is there and has answered or still owes a pong (`Beating`),
that both are reset before a new connection (`Fresh`), and how long a sleep may
still be (`Sleeping`). `BackoffDoubles` (`BackoffKept`) has two hypotheses: that three
connect timeouts are no longer than `AliveThreshold` (they are 90 s and 90 s in
`market_data_service.rs`; a longer `connect_timeout` breaks it), and that failures are
counted until the wait is at its maximum. An attempt has taken at most a timeout for
each step behind it (`Timely`), so it never counts as a connection, and the wait has
been doubled once for each failure (`Doubled`). That 2^(n+1) is twice 2^n is itself
proved, of the number of subsets of a set (`Doubling`), for the provers know no powers.

Of `Backtest` the same module proves, for every engine, setting, ATR and course of
prices that `BacktestAssumption` allows: `BacktestTypeCorrect` (`BacktestTypes`),
`RecordsReconcile` (`Reconciles`), `RecordsAreReal` (`FillsAreReal`), `ProfitIsLocked`
(`ProfitLocked`), `StopNeverFalls` (`StopHolds`) and `LossesAreFollowedByRest`
(`LossesRest`). The stop is a rung of a ladder (`Rung`) that a better price or the
break-even flag only climbs (`RungRises`). None of the properties is inductive alone:
the invariant (`BacktestInvariant`) adds that the last close lies above the stop that
was in force (`LastStop`), which is why a bar that goes on from it trades at the stop
before it trades below; that it lies below the first target as long as no half was
sold (`HalfDue`); that a position which sold its half is protected and did not close at a
loss since (`HalfDone`); and that without the ATR a trailing or break-even stop never
is a loss, so what is a loss is called a stop and is followed by the long cooldown
(`TrailEarned`, `HurtRests`). Of `BacktestAssumption`, `config.rs:509` validates the order of
break-even, trigger and target; that a trailing distance is no larger than its trigger,
and that the costs of an entry do not reach the first stop, is not validated. Both hold
of `config/default.toml`, the latter unless the ATR is next to nothing.

`ExitLadderProofs` proves, for every ladder, set of prices and ATR values that
`LadderAssumption` allows, and any number of trades and restarts: `LadderTypes`,
`StopNeverFallsBack` (`StopHeld`), `BreakevenIsKept` (`BreakevenProtects`),
`RestartsKeepTheStop` (`RestartKeepsStop`) and `StopOutsPause` (`StopOutPauses`).
The argument is about the ladder first: the stop is monotonic in the best price
(`LevelRises`, which needs that a trailing stop starts no lower than the break-even
stop it replaces), and lower only if the ATR it is computed from is larger
(`StopRises`). The invariant then says that a position has a price and an entry
ATR (`HeldOK`), that the best price is the best one shown, also while an exit is in
the air (`PeakOK`), that the flags which name an exit's reason are true of the
ladder (`MarkOK`), and that a file read without an ATR gives the stop it was saved
with (`FileOK`). Of `LadderAssumption`, `config.rs:509` validates the positive
percentages and the order of break-even, trigger and target; that the trailing
distance and the fee fit under the trigger is not validated, and holds of
`config/default.toml`.

`TradingLoopProofs` proves, for every cooldown, pause, limit, length of the day and
bound (`LoopAssumption`): `TypeCorrect`, `PositionIsRight` (`PositionAgrees`),
`TotalsAreRight` (`TotalsAgree`) and `PriceIsKept` (`PriceKept`). An order is underway
from its signal until its answer is handled, and the places where it can be (on the bus
as a signal, in execution, on the bus as an answer) are counted: there are as many as
signals without an answer (`Counted`), hence at most one unless signals crossed
(`OneAtATime`). For that one the invariant says what the strategy believes while it
waits (`Beliefs`), which of the day's trades it is (`Books`), and what the account holds
before and after its execution, less what is adrift (`Accounts`); when none is underway,
the last one is `PositionAgrees`. An execution moves account and ledger alike, but for
the one that the answer tells of (`ExecutionTold`).

`StateFileProofs` proves, for every limit and any number of snapshots, signals, days
and crashes (`FileAssumption`): `StateFileTypes`, `AnySnapshotLoads` (`Loadable`),
`DayLimitSurvives` (`DayLimitKept`), `RestsSurvive` (`RestsKept`) and `AgreeWhenQuiet`
(`AgreesWhenQuiet`). Every snapshot in writing is a valid one (`SavesOK`), so the order
does not matter for loading; for the limit and the rests, the state *and* the last
snapshot, to which a restart goes back, have counted today's entries (`DayOK`) and know
the instant of the running cooldown (`RestsOK`); a bar of yesterday forgives one limit
of entries (`Forgiven`), for no more had been counted. For the agreement the invariant
speaks of all signals in the air: what the account holds together with what they will
change (`Net`) is what the strategy holds and what is adrift (`Agreed`).

`ClientProofs` proves, for any set of tasks, number of retries, pauses and bans
(`RateAssumption`): `RateTypes`, `OnlyStragglersSend` (`OnlyStragglers`) and
`OrdersRepeatForFailures` (`RepeatedForFailuresOnly`). In a pause that was not
shortened the stored deadline is the one told (`Informed`), so no call begins, and
what a task has sent in it together with the attempts it has left is at most one
call's (`Stragglers`).

Of `LimitEntry` it proves, for every quantity, any number of polls, retries and faults
(`EntryAssumption`): `EntryTypeCorrect` (`EntryTypes`), `ExcessIsExplained`
(`ExcessExplained`) and `NothingOverstated` (`NeverOverstated`). `Exposure` is what is
bought or may still be. The invariant (`EntryInvariant`) says for each place in the entry
how much of one quantity per failed call, and one for a ban shared by another task, must
still be free for what the calls from there on may buy (`Room`); what was reported or
will be is in the order that the client knows (`Known`, `Told`); and only a failed call or
such a ban leads to the fallback (`Faulted`). A fill
turns an open unit into a bought one, so `Exposure` does not change by it.

Proved and not checked by a run: the type invariants of `EventBus`, `Rotation`,
`AccountCache`, `MarketData`, `ExitLadder`, `StateFile` and `RateLimit`, `StopsOnlyOnLag`
and `EntriesRest` (entries keep their distance from the last order).

Only model-checked: the liveness properties (`EventuallyDispatched`,
`EverySignalAnswered`, `EntryEnds`, `CacheHeals`, `Heals`, `Recovers`, `EveryTradeEnds`),
as fairness and ENABLED are out of the provers' reach, and the two that are violated.
Every other property that a run checks is proved.

## 6. Not modelled, and why

* The evidence log, the logger, parsing and signing, and the query tools are pure
  I/O.
* `config.rs` is data: its validation is quoted where a proof needs it, its defaults
  where a bound is chosen.
* Indicators are floating-point filters, and the entry conditions, the score and the
  funding filter only decide *whether* a guard's door is used, which the models leave
  free. The ATR alone acts on what has been entered; `ExitLadder` lets it be anything.
* Virtual shorts (`track_virtual_short`) simulate a trade that is only logged.
* Of the backtest the report's statistics, the loader and the command line
  (`bin/backtest.rs`, which sets up configurations and prints comparisons) are left
  out.
* The clock never steps back.

## 7. Plan

1. `ExitLadder` against the ladder of `Backtest`: the same prices, tick by tick, lead
   to the same stop.
2. The report's statistics (drawdown, streaks) against a reference definition.
3. The virtual shorts, should anything come to depend on them.
