------------------------------ MODULE StateFile -----------------------------
(***************************************************************************)
(* What MomentumStrategy remembers of a symbol and what its state file     *)
(* does: snapshots are written by detached tasks that may finish in any    *)
(* order, fail, or be cut off by a crash, and a restart believes the file. *)
(* The exchange account, the orders in the air and the waiting times go on *)
(* meanwhile.  Prices are left out (ExitLadder has them): whether a ticker *)
(* enters or exits is a free choice within the guards.                     *)
(*                                                                         *)
(* A cooldown runs from an instant that the file saves (last_trade_time);  *)
(* instants are numbered, and only the last one's cooldown may be running. *)
(***************************************************************************)
EXTENDS Integers, Sequences, FiniteSets, SequencesExt

CONSTANTS
    DailyTrades,    \* max_daily_trades
    GiveUp,         \* failed exits in a row that give a position up: 3
    MaxInstants,    \* bound: entries and exits
    MaxDay,         \* bound: days
    MaxOrders,      \* bound: orders in the air when one is added
    MaxPending,     \* bound: snapshots being written when one is added
    MaxRestarts,    \* bound: crashes
    MaxExecutions,  \* bound: executions of one order
    MaxAdrift,      \* bound: what strategy and account may lack of each other
    MaxBacks        \* bound: times a day that a bar of yesterday takes today back

ASSUME FileAssumption ==
    /\ DailyTrades \in Nat /\ MaxInstants \in Nat /\ MaxOrders \in Nat
    /\ MaxPending \in Nat /\ MaxRestarts \in Nat /\ MaxExecutions \in Nat
    /\ MaxAdrift \in Nat /\ MaxBacks \in Nat
    /\ GiveUp \in Nat \ {0} /\ MaxDay \in Nat \ {0}

VARIABLES
    shorts,    \* allow_short, which only the testnet has; a restart may change it
    st,        \* the fields of StrategyState that a snapshot saves
    ram,       \* those that it does not
    orders,    \* signals without an answer, oldest first
    account,   \* what the account holds, in entries; negative: owed.  Once apart
               \* from the strategy it may hold anything: 0 stands for that
    pending,   \* snapshots being written, oldest first
    file,      \* the file: a snapshot, or <<>>
    newest,    \* history: the last snapshot that was made
    clock,     \* the day, and the waiting times that are running
    entered,   \* history: entries of today that were not rejected
    backs,     \* history: times that a bar of yesterday took today back
    adrift,    \* history: what the account has and the strategy was never told
               \* of, less what it was told of and the account has not
    restarts,  \* history: number of restarts
    mishaps    \* history: "apart": answers crossed, or a restart did not know of
               \* an order, a snapshot or a short; "stale": it found an old
               \* snapshot; "forgot": it, or yesterday's date, ended a pause

vars == <<shorts, st, ram, orders, account, pending, file, newest, clock, entered,
          backs, adrift, restarts, mishaps>>

\* A snapshot.
Saved == [side : {"None", "Long", "Short"}, priced : BOOLEAN,
          trades : 0 .. DailyTrades, day : 0 .. MaxDay, stamp : 0 .. MaxInstants]

Fresh == [side |-> "None", priced |-> FALSE, trades |-> 0, day |-> 0,
          stamp |-> 0]

Forgotten == [fails |-> 0, paused |-> FALSE]

Init ==
    /\ shorts \in BOOLEAN
    /\ st = Fresh
    /\ ram = Forgotten
    /\ orders = <<>>
    /\ account = 0
    /\ pending = <<>>
    /\ file = <<>>
    /\ newest = <<>>
    /\ clock = [day |-> 1, instant |-> 0, cooling |-> FALSE, resting |-> FALSE]
    /\ entered = 0
    /\ backs = 0
    /\ adrift = 0
    /\ restarts = 0
    /\ mishaps = {}

-----------------------------------------------------------------------------
(* The strategy.                                                           *)

Save ==
    /\ pending' = Append(pending, st')
    /\ newest' = <<st'>>

\* check_daily_reset, for any other day than that of the totals; it ends the pause
\* after losses, too.
Reset(s, day) == IF s.day = day THEN s ELSE [s EXCEPT !.trades = 0, !.day = day]
PausedAfter(day) == ram.paused /\ st.day = day

Today(s) == Reset(s, clock.day)
Paused == PausedAfter(clock.day)

\* The cooldown is over, or it is another trade's that the file told of.
Rested == clock.cooling => st.stamp # clock.instant

Room == Len(orders) < MaxOrders /\ Len(pending) < MaxPending

\* A trade at this moment starts a cooldown.
Trade == clock.instant + 1

\* A ticker that trades nothing, on a new day.
Quiet ==
    /\ st.day # clock.day
    /\ st' = Today(st)
    /\ ram' = [ram EXCEPT !.paused = FALSE]
    /\ UNCHANGED <<shorts, orders, account, pending, file, newest, clock, entered,
                   backs, adrift, restarts, mishaps>>

Enter(side) ==
    /\ st.side = "None" /\ Rested /\ ~Paused
    /\ Today(st).trades < DailyTrades
    /\ side = "Short" => shorts
    /\ Room /\ clock.instant < MaxInstants
    /\ st' = [side |-> side, priced |-> TRUE, trades |-> Today(st).trades + 1,
              day |-> clock.day, stamp |-> Trade]
    /\ ram' = [ram EXCEPT !.fails = 0, !.paused = Paused]
    /\ orders' = Append(orders, IF side = "Long" THEN "buy" ELSE "short")
    /\ clock' = [clock EXCEPT !.instant = Trade, !.cooling = TRUE]
    /\ entered' = entered + 1
    /\ Save
    /\ UNCHANGED <<shorts, account, file, backs, adrift, restarts, mishaps>>

Exits == IF st.side = "Long" THEN "sell" ELSE "cover"

\* outcome: a loss that pauses entries, a win that ends the pause, or neither.
Exit(outcome) ==
    /\ st.side # "None" /\ st.priced
    /\ Room /\ clock.instant < MaxInstants
    /\ st' = [Today(st) EXCEPT !.side = "None", !.stamp = Trade]
    /\ ram' = [ram EXCEPT !.paused = outcome = "loss" \/ (Paused /\ outcome # "win")]
    /\ orders' = Append(orders, Exits)
    /\ clock' = [clock EXCEPT !.instant = Trade, !.cooling = TRUE,
                   !.resting = outcome = "loss" \/ (@ /\ outcome # "win")]
    /\ Save
    /\ UNCHANGED <<shorts, account, file, entered, backs, adrift, restarts, mishaps>>

\* A bar arrives and no ticker has for 30 s: no cooldown, no pause.  The bar's day
\* is the one that counts, and that may be yesterday: today's entries and today's
\* pause are forgotten then, and the next ticker starts today anew.
EmergencyExit ==
    /\ st.side # "None" /\ st.priced
    /\ Room
    /\ \E day \in {clock.day - 1, clock.day} \ {0} :   \* the program starts on day 1
         /\ st' = [Reset(st, day) EXCEPT !.side = "None"]
         /\ ram' = [ram EXCEPT !.paused = PausedAfter(day)]
         /\ day < st.day => backs < MaxBacks
         /\ backs' = IF day < st.day THEN backs + 1 ELSE backs
         /\ mishaps' = IF day < st.day /\ clock.resting
                       THEN mishaps \cup {"forgot"} ELSE mishaps
    /\ orders' = Append(orders, Exits)
    /\ Save
    /\ UNCHANGED <<shorts, account, file, clock, entered, adrift, restarts>>

-----------------------------------------------------------------------------
(* The exchange executes an order or refuses it, and the answer arrives.   *)

Effect(order) == IF order \in {"buy", "cover"} THEN 1 ELSE -1

\* The client sends an order again when it lost the reply, without an id of its
\* own, and a limit entry that failed is followed by a market order: one signal's
\* order may be executed several times (LimitEntry).
Moved(order, n) == IF order \in {"buy", "cover"} THEN n ELSE -n

Apart == "apart" \in mishaps

\* Spot cannot sell what it does not hold; the testnet's account holds plenty.
Possible(order, n) == order = "sell" => shorts \/ Apart \/ account >= n

\* The order is executed at least so many times; the strategy counts so many.
Executes(order, least, counted) ==
    \E n \in least .. MaxExecutions :
       /\ Possible(order, n)
       /\ account' = IF Apart' THEN 0 ELSE account + Moved(order, n)
       /\ adrift' = IF Apart' THEN 0 ELSE adrift + Moved(order, n - counted)
       /\ adrift' \in -MaxAdrift .. MaxAdrift

Taken(order) ==
    /\ orders # <<>> /\ order = Head(orders)
    /\ Len(pending) < MaxPending
    /\ orders' = Tail(orders)

\* Mutation of Cleared: the price is cleared whatever is held.
ClearedAlways == [st EXCEPT !.priced = FALSE]

\* on_order_filled: SELL is a long's exit or a short's entry.
Cleared == IF st.side = "None" THEN [st EXCEPT !.priced = FALSE] ELSE st

\* The answer tells of one execution.
Fill(order) ==
    /\ Taken(order)
    /\ st' = IF order \in {"sell", "short"} THEN Cleared ELSE st
    /\ mishaps' = IF order = "short" /\ st' # st THEN mishaps \cup {"apart"}
                  ELSE mishaps
    /\ Executes(order, 1, 1)
    /\ Save
    /\ UNCHANGED <<shorts, ram, file, clock, entered, backs, restarts>>

\* An order whose replies were all lost is reported as failed.
Fails(order, mishap, counted) ==
    /\ mishaps' = mishaps \cup mishap
    /\ Executes(order, 0, counted)

Opened(order) == IF order = "buy" THEN "Long" ELSE "Short"

\* What goes wrong when an entry is rejected: it is not the one that the strategy
\* holds now, or its pause comes before the day's first ticker, which ends it.
Unheard(order, poor) ==
    UNION {IF st.side = Opened(order) THEN {} ELSE {"apart"},
           IF st.side # "None" /\ poor /\ st.day # clock.day THEN {"forgot"} ELSE {}}

\* Mutation of RejectEntry: the state is not saved.
RejectEntryUnsaved(order, poor) ==
    /\ order \in {"buy", "short"}
    /\ Taken(order)
    /\ Fails(order, Unheard(order, poor), 0)
    /\ \/ /\ st.side # "None"
          /\ st' = [st EXCEPT !.side = "None", !.priced = FALSE,
                              !.trades = IF @ > 0 THEN @ - 1 ELSE 0]
          /\ ram' = [ram EXCEPT !.paused = @ \/ poor]
          /\ clock' = [clock EXCEPT !.resting = @ \/ poor]
          /\ entered' = IF entered > 0 THEN entered - 1 ELSE 0
          /\ UNCHANGED <<pending, newest>>
       \/ /\ st.side = "None"
          /\ UNCHANGED <<st, ram, clock, entered, pending, newest>>
    /\ UNCHANGED <<shorts, file, backs, restarts>>

\* poor: for lack of funds, which pauses entries.
RejectEntry(order, poor) ==
    /\ order \in {"buy", "short"}
    /\ Taken(order)
    /\ Fails(order, Unheard(order, poor), 0)
    /\ \/ /\ st.side # "None"
          /\ st' = [st EXCEPT !.side = "None", !.priced = FALSE,
                              !.trades = IF @ > 0 THEN @ - 1 ELSE 0]
          /\ ram' = [ram EXCEPT !.paused = @ \/ poor]
          /\ clock' = [clock EXCEPT !.resting = @ \/ poor]
          /\ entered' = IF entered > 0 THEN entered - 1 ELSE 0
          /\ Save
       \/ /\ st.side = "None"
          /\ UNCHANGED <<st, ram, clock, entered, pending, newest>>
    /\ UNCHANGED <<shorts, file, backs, restarts>>

\* The exit is undone, or after too many failures the position is given up.
RejectExit(order) ==
    /\ order \in {"sell", "cover"}
    /\ Taken(order)
    /\ UNCHANGED <<shorts, file, clock, entered, backs, restarts>>
    /\ \/ /\ st.side = "None" /\ st.priced /\ ram.fails + 1 < GiveUp
          /\ Fails(order, {}, 0)
          /\ st' = [st EXCEPT !.side = IF order = "sell" THEN "Long" ELSE "Short"]
          /\ ram' = [ram EXCEPT !.fails = @ + 1]
          /\ Save
       \/ /\ st.side = "None" /\ st.priced /\ ram.fails + 1 >= GiveUp
          /\ Fails(order, {}, 1)
          /\ st' = [st EXCEPT !.priced = FALSE]
          /\ ram' = [ram EXCEPT !.fails = 0]
          /\ Save
       \/ /\ st.side # "None" \/ ~st.priced
          /\ Fails(order, {"apart"}, 0)
          /\ UNCHANGED <<st, ram, pending, newest>>

-----------------------------------------------------------------------------
(* The file.                                                               *)

\* Any of the tasks may be the next to rename its file over the state file.
SaveEnds(i) ==
    /\ file' = <<pending[i]>>
    /\ pending' = RemoveAt(pending, i)
    /\ UNCHANGED <<shorts, st, ram, orders, account, newest, clock, entered, backs,
                   adrift, restarts, mishaps>>

\* The disk is full, the directory is gone: logged, and that is all.
SaveFails(i) ==
    /\ pending' = RemoveAt(pending, i)
    /\ UNCHANGED <<shorts, st, ram, orders, account, file, newest, clock, entered,
                   backs, adrift, restarts, mishaps>>

\* What StrategyState::new takes for a valid snapshot.
Loads(s) == s.side # "None" => s.priced

\* Mutation of Restored: the day's totals start anew.
RestoredAnew(s, allowed) ==
    IF ~Loads(s) THEN Fresh
    ELSE LET side == IF s.side = "Short" /\ ~allowed THEN "None" ELSE s.side IN
         [side |-> side, priced |-> side # "None", trades |-> 0,
          day |-> clock.day, stamp |-> s.stamp]

\* Mutation of Restored: the last trade's time is not restored.
RestoredRested(s, allowed) ==
    IF ~Loads(s) THEN Fresh
    ELSE LET side == IF s.side = "Short" /\ ~allowed THEN "None" ELSE s.side IN
         [side |-> side, priced |-> side # "None",
          trades |-> IF s.day = clock.day THEN s.trades ELSE 0,
          day |-> clock.day, stamp |-> 0]

\* Then MomentumStrategy::new drops a short where there are none.
Restored(s, allowed) ==
    IF ~Loads(s) THEN Fresh
    ELSE LET side == IF s.side = "Short" /\ ~allowed THEN "None" ELSE s.side IN
         [side |-> side, priced |-> side # "None",
          trades |-> IF s.day = clock.day THEN s.trades ELSE 0,
          day |-> clock.day, stamp |-> s.stamp]

\* The process dies, with the snapshots that are not written and the orders in
\* the air, some of which the exchange has executed, once or several times.
Restart ==
    /\ restarts < MaxRestarts
    /\ restarts' = restarts + 1
    /\ shorts' \in BOOLEAN
    /\ st' = IF file = <<>> THEN Fresh ELSE Restored(file[1], shorts')
    /\ ram' = Forgotten
    /\ orders' = <<>> /\ pending' = <<>>
    /\ mishaps' = UNION {mishaps,
         IF file # newest \/ orders # <<>> \/ shorts # shorts' THEN {"apart"} ELSE {},
         IF file # newest THEN {"stale"} ELSE {},
         IF clock.resting THEN {"forgot"} ELSE {}}
    /\ account' = IF Apart' THEN 0 ELSE account
    /\ adrift' = IF Apart' THEN 0 ELSE adrift
    /\ UNCHANGED <<file, newest, clock, entered, backs>>

-----------------------------------------------------------------------------
(* Time.                                                                   *)

Midnight ==
    /\ clock.day < MaxDay
    /\ clock' = [clock EXCEPT !.day = @ + 1, !.resting = FALSE]
    /\ entered' = 0
    /\ backs' = 0
    /\ UNCHANGED <<shorts, st, ram, orders, account, pending, file, newest, adrift,
                   restarts, mishaps>>

Elapse ==
    /\ \/ clock.cooling /\ clock' = [clock EXCEPT !.cooling = FALSE]
       \/ clock.resting /\ clock' = [clock EXCEPT !.resting = FALSE]
    /\ ram' = [ram EXCEPT !.paused = @ /\ clock'.resting]
    /\ UNCHANGED <<shorts, st, orders, account, pending, file, newest, entered,
                   backs, adrift, restarts, mishaps>>

Next ==
    \/ Quiet \/ EmergencyExit
    \/ \E side \in {"Long", "Short"} : Enter(side)
    \/ \E outcome \in {"loss", "win", "flat"} : Exit(outcome)
    \/ \E order \in {"buy", "sell", "short", "cover"} :
         \/ Fill(order) \/ RejectExit(order)
         \/ \E poor \in BOOLEAN : RejectEntry(order, poor)
    \/ \E i \in 1 .. Len(pending) : SaveEnds(i) \/ SaveFails(i)
    \/ Restart
    \/ Midnight \/ Elapse

Spec == Init /\ [][Next]_vars
-----------------------------------------------------------------------------
\* Types.
TypeOK ==
    /\ shorts \in BOOLEAN
    /\ st \in Saved
    /\ ram \in [fails : 0 .. GiveUp, paused : BOOLEAN]
    /\ orders \in Seq({"buy", "sell", "short", "cover"})
    /\ account \in Int
    /\ pending \in Seq(Saved)
    /\ {file, newest} \subseteq Seq(Saved)
    /\ clock \in [day : 1 .. MaxDay, instant : 0 .. MaxInstants,
                  cooling : BOOLEAN, resting : BOOLEAN]
    /\ entered \in Nat /\ backs \in Nat
    /\ adrift \in Int
    /\ restarts \in 0 .. MaxRestarts
    /\ mishaps \subseteq {"apart", "stale", "forgot"}

\* Whichever snapshot ends up in the file, and whatever fills and rejections made
\* of the state: a restart never has to drop a position as invalid.
Loadable ==
    /\ Loads(st)
    /\ \A i \in DOMAIN pending : Loads(pending[i])
    /\ file # <<>> => Loads(file[1])

Held == CASE st.side = "Long" -> 1 [] st.side = "Short" -> -1
          [] st.side = "None" -> 0

\* When no order is in the air the strategy and the account agree, also after
\* restarts, but for the executions that no answer told of and the positions that
\* were given up, and unless answers crossed or a restart did not know better.
AgreesWhenQuiet ==
    orders = <<>> /\ "apart" \notin mishaps => account = Held + adrift

\* A day sees no more entries than the limit, restarts or not, as long as each
\* restart finds the last snapshot; a bar of yesterday that closes a position makes
\* room for the limit again, and nothing else does.
DayLimitKept == "stale" \notin mishaps => entered <= DailyTrades * (backs + 1)

Enters == \E order \in {"buy", "short"} : orders' = Append(orders, order)

\* The cooldown of a trade survives a restart that finds the last snapshot; the
\* pause after losses lasts until midnight, a restart or a bar of yesterday.
RestsKept ==
    [][Enters => /\ clock.cooling => "stale" \in mishaps
                 /\ clock.resting => "forgot" \in mishaps]_vars
=============================================================================
