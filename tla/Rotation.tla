------------------------------ MODULE Rotation ------------------------------
(***************************************************************************)
(* RotationService: a task that wakes every few hours, loads its state     *)
(* file, checks a trailing stop on the holding the file names and, once a  *)
(* rebalancing interval has passed, sells what the account holds and buys  *)
(* the target instead.                                                     *)
(*                                                                         *)
(* One action per stretch of tick() between two calls of the exchange.     *)
(* Everything a tick knows is local to it, so an error that `?` returns, a *)
(* reply that is lost after the exchange has acted, and a crash of the     *)
(* process all end alike: the tick is over and the file is as it was.      *)
(* Abort is all three; after a lost reply it follows the step that traded. *)
(* Only an error inside the trailing stop does not end the tick.           *)
(*                                                                         *)
(* Time is counted in units of which Interval make a rebalancing interval; *)
(* a tick takes no time.  The account holds one symbol or only cash, and   *)
(* nobody else trades on it.  The target is a free choice: the indicators, *)
(* and which symbols' candles could not be downloaded, decide it.          *)
(***************************************************************************)
EXTENDS Integers

CONSTANTS
    Symbols,      \* config.symbols
    Cash,         \* None: nothing but USDT
    Prices,       \* prices of a symbol
    StopPct,      \* trailing_stop_pct, in percent
    Interval,     \* rebalance_interval_days
    Configs,      \* [dryRun, onStart, trailing]: the flags of RotationConfig
    MaxFaults     \* bound: errors, crashes and failed saves

ASSUME RotationAssumption ==
    /\ Cash \notin Symbols
    /\ Prices \subseteq Nat \ {0}
    /\ StopPct \in 1 .. 100
    /\ Interval \in Nat \ {0}
    /\ Configs \subseteq [dryRun : BOOLEAN, onStart : BOOLEAN, trailing : BOOLEAN]
    /\ MaxFaults \in Nat

VARIABLES
    config,       \* flags this process runs with
    price,        \* last daily close of each symbol
    held,         \* what the account holds
    file,         \* rotation_state.json
    pc,           \* where tick() is, or "asleep"
    st,           \* the tick's RotationState
    current,      \* the tick's current
    target,       \* the tick's target
    faults,       \* history: calls that failed, crashes, failed saves
    high,         \* history: highest price of held since it is held
    spacing,      \* history: time since a stop or a rotation was completed
    mishaps       \* history: which kinds of half-done ticks have happened

tick == <<pc, st, current, target>>
seen == <<high, spacing, mishaps>>
vars == <<config, price, held, file, tick, faults, seen>>

Holdings == Symbols \cup {Cash}

\* last_rebalance_ms = 0; otherwise its age.
Never == Interval + 1
NoPeak == 0

\* RotationState::default, and what a tick knows while there is none.
Default == [age |-> Never, holding |-> Cash, peak |-> NoPeak]

Max2(a, b) == IF a < b THEN b ELSE a
High(s, p) == IF s = Cash THEN NoPeak ELSE p[s]

Init ==
    /\ config \in Configs
    /\ price \in [Symbols -> Prices]
    /\ held \in Holdings
    /\ file = Default
    /\ pc = "asleep"
    /\ st = Default
    /\ current = Cash
    /\ target = Cash
    /\ faults = 0
    /\ high = High(held, price)
    /\ spacing = Interval
    /\ mishaps = {}

-----------------------------------------------------------------------------
\* The world: prices move and time passes.
Move ==
    /\ \E s \in Symbols, p \in Prices : price' = [price EXCEPT ![s] = p]
    /\ high' = Max2(high, High(held, price'))
    /\ UNCHANGED <<config, held, file, tick, faults, spacing, mishaps>>

\* saturating_sub, and only elapsed < interval is ever asked.
Older(age) == IF age < Interval THEN age + 1 ELSE age

Sleep ==
    /\ pc = "asleep"
    /\ file' = [file EXCEPT !.age = Older(@)]
    /\ spacing' = Older(spacing)
    /\ UNCHANGED <<config, price, held, tick, faults, high, mishaps>>

-----------------------------------------------------------------------------
Fault == faults < MaxFaults /\ faults' = faults + 1

\* What a tick leaves behind that ends before it has saved: a trade the file
\* does not know of, or a sale without its purchase.
Unsaved == CASE pc \in {"settle", "stopped", "rotated"} -> {"unsaved"}
             [] pc = "buy" /\ current # Cash             -> {"halfway"}
             [] OTHER                                    -> {}

EndTick == pc' = "asleep" /\ st' = Default /\ current' = Cash /\ target' = Cash

Abort ==
    /\ pc # "asleep"
    /\ Fault
    /\ EndTick
    /\ mishaps' = mishaps \cup Unsaved
    /\ UNCHANGED <<config, price, held, file, high, spacing>>

\* RotationState::save.  A failure is only logged.
Save(s) ==
    \/ file' = s /\ UNCHANGED <<faults, mishaps>>
    \/ Fault /\ mishaps' = mishaps \cup Unsaved /\ UNCHANGED file

Unsaving == UNCHANGED <<file, faults, mishaps>>

Goto(label, s) == pc' = label /\ st' = s /\ UNCHANGED <<current, target>>

World == <<config, price, held, high, spacing>>

\* The next step of a tick that has dealt with its first run.
StopOrDue(s) ==
    IF config.trailing /\ s.holding # Cash THEN "stop" ELSE "due"

Begin ==
    /\ pc = "asleep"
    /\ Goto(IF file.age = Never THEN "first" ELSE StopOrDue(file), file)
    /\ Unsaving
    /\ UNCHANGED World

\* The first run looks at the account, and waits an interval or goes on.
FirstRun ==
    LET s == [st EXCEPT !.holding = held]
    IN  /\ pc = "first"
        /\ IF config.onStart THEN Goto(StopOrDue(s), s)
           ELSE Goto("save", [s EXCEPT !.age = 0])
        /\ Unsaving
        /\ UNCHANGED World

\* The end of a tick that saves; one that traded starts the spacing again.
Finish ==
    /\ pc \in {"save", "stopped", "rotated"}
    /\ Save(st)
    /\ EndTick
    /\ spacing' = IF pc = "save" THEN spacing ELSE 0
    /\ UNCHANGED <<config, price, held, high>>

-----------------------------------------------------------------------------
\* evaluate_trailing_stop.
Peak(old, p) == Max2(IF old = NoPeak THEN p ELSE old, p)
Triggered(peak, p) == (peak - p) * 100 >= StopPct * peak

\* check_trailing_stop, up to the sale.  A price that cannot be fetched skips
\* the check; a dry run restarts the interval instead of selling.
CheckStop ==
    LET p == price[st.holding]
        s == [st EXCEPT !.peak = Peak(@, p)]
    IN  /\ pc = "stop"
        /\ \/ Fault /\ Goto("due", st) /\ UNCHANGED <<file, mishaps>>
           \/ ~Triggered(s.peak, p) /\ Save(s) /\ Goto("due", s)
           \/ /\ Triggered(s.peak, p)
              /\ IF config.dryRun THEN Goto("save", [s EXCEPT !.age = 0])
                 ELSE Goto("stopping", s)
              /\ Unsaving
        /\ UNCHANGED World

\* The first half of execute_rotation: everything the account has of s, which
\* may be nothing, is sold.
SellAll(s) ==
    /\ held' = IF held = s THEN Cash ELSE held
    /\ high' = IF held = s THEN NoPeak ELSE high
    /\ UNCHANGED <<config, price, spacing>>

\* Mutation of AfterStop: the interval is not restarted.
AfterStopKeepsTimer(s) == [s EXCEPT !.holding = Cash, !.peak = NoPeak]

\* The interval starts again, so that nothing is bought before it has passed.
AfterStop(s) == [s EXCEPT !.holding = Cash, !.peak = NoPeak, !.age = 0]

StopSell ==
    /\ pc = "stopping"
    /\ SellAll(st.holding)
    /\ Goto("stopped", AfterStop(st))
    /\ Unsaving

\* tick() takes any error of the stop for one of the price: it goes on, whether
\* the exchange refused the order or executed it and the reply was lost.
StopFails ==
    /\ pc = "stopping"
    /\ \/ UNCHANGED World /\ UNCHANGED mishaps
       \/ SellAll(st.holding) /\ mishaps' = mishaps \cup {"unsaved"}
    /\ Goto("due", st)
    /\ Fault
    /\ UNCHANGED file

-----------------------------------------------------------------------------
NotDue ==
    /\ pc = "due"
    /\ st.age < Interval
    /\ EndTick
    /\ Unsaving
    /\ UNCHANGED World

Route(now, goal) ==
    IF goal = now \/ config.dryRun THEN "same"
    ELSE IF now = Cash THEN "buy" ELSE "sell"

\* compute_target, then detect_current_holding.
Evaluate ==
    /\ pc = "due"
    /\ st.age >= Interval
    /\ target' \in Holdings
    /\ current' = held
    /\ st' = [st EXCEPT !.age = 0]
    /\ pc' = Route(current', target')
    /\ Unsaving
    /\ UNCHANGED World

\* Mutation of Known: the state keeps the holding that the file named.
KnownStale(s) == s

\* The detected holding replaces the one from the file.
Known(s) == [s EXCEPT !.holding = current]

\* Nothing to trade, or only a dry run.  A missing peak is made up for when
\* the holding stays, if its price can be fetched.
Same ==
    LET s      == Known(st)
        noPeak == target = current /\ current # Cash /\ s.peak = NoPeak
    IN  /\ pc = "same"
        /\ \/ ~noPeak /\ Goto("save", s) /\ Unsaving
           \/ noPeak /\ Goto("save", [s EXCEPT !.peak = price[current]])
                     /\ Unsaving
           \/ noPeak /\ Goto("save", s) /\ Fault /\ UNCHANGED <<file, mishaps>>
        /\ UNCHANGED World

Sell ==
    /\ pc = "sell"
    /\ SellAll(current)
    /\ Goto(IF target = Cash THEN "settle" ELSE "buy", st)
    /\ Unsaving

Buy ==
    /\ pc = "buy"
    /\ held' = target
    /\ high' = price[target]
    /\ Goto("settle", st)
    /\ Unsaving
    /\ UNCHANGED <<config, price, spacing>>

\* Mutation of Fresh: the peak of the old holding stays.
FreshKeepsPeak(p) == [st EXCEPT !.holding = target]

\* The new holding's peak starts at its price, or none for cash.
Fresh(p) == [st EXCEPT !.holding = target, !.peak = p]

\* A price that cannot be fetched leaves the old holding's peak.
Settle ==
    /\ pc = "settle"
    /\ \/ Goto("rotated", Fresh(High(target, price))) /\ Unsaving
       \/ /\ target # Cash
          /\ Goto("rotated", [st EXCEPT !.holding = target])
          /\ Fault
          /\ mishaps' = mishaps \cup {"unpriced"}
          /\ UNCHANGED file
    /\ UNCHANGED World

Tick == \/ Begin \/ FirstRun \/ CheckStop \/ StopSell \/ StopFails \/ NotDue
        \/ Evaluate \/ Same \/ Sell \/ Buy \/ Settle \/ Finish

Next == Move \/ Sleep \/ Tick \/ Abort

\* run() is a loop that never ends, each await has a timeout, and a crashed
\* process is started again.  Between ticks run() sleeps, so time passes.
Fairness == WF_vars(Tick) /\ SF_vars(Sleep)

Spec == Init /\ [][Next]_vars
FairSpec == Spec /\ Fairness

-----------------------------------------------------------------------------
Labels == {"asleep", "first", "stop", "stopping", "due", "same", "sell", "buy",
           "settle", "save", "stopped", "rotated"}
StateSet == [age : 0 .. Never, holding : Holdings, peak : Prices \cup {NoPeak}]

\* Types; and a tick sells or buys only where there is something to.
TypeOK ==
    /\ config \in Configs
    /\ price \in [Symbols -> Prices]
    /\ held \in Holdings
    /\ file \in StateSet
    /\ pc \in Labels
    /\ st \in StateSet
    /\ current \in Holdings
    /\ target \in Holdings
    /\ faults \in 0 .. MaxFaults
    /\ high \in Prices \cup {NoPeak}
    /\ spacing \in 0 .. Interval
    /\ mishaps \subseteq {"unsaved", "unpriced", "halfway"}
    /\ pc \in {"stop", "stopping"} => st.holding # Cash
    /\ pc = "sell" => held = current /\ held # Cash
    /\ pc = "buy" => held = Cash /\ target # Cash

\* The file's peak is a price that the holding has had since it is held: only
\* a trade that was not saved or a price that was not fetched leaves it with
\* the peak of something else.
PeakIsOwn ==
    pc = "asleep" /\ held # Cash /\ file.holding = held
        => file.peak <= high \/ mishaps \cap {"unsaved", "unpriced"} # {}

\* Once an interval is started, by a stop or a rotation, nothing is rotated
\* before it has passed, whatever restarts, failed calls and failed saves come
\* between; only a trade that was not saved may be followed sooner.
TradeSpacing ==
    [][held' # held /\ pc # "stopping" /\ "unsaved" \notin mishaps
        => spacing = Interval]_vars

\* The trailing stop really sells after a fall of StopPct from the highest
\* price since the holding is held.
StopJustified ==
    [][pc = "stop" /\ pc' = "stopping" /\ held = st.holding
            /\ mishaps \cap {"unsaved", "unpriced"} = {}
        => Triggered(high, price[held])]_vars

\* Whatever failed before: when nothing fails any more, the file comes to name
\* what the account holds, and goes on to.
Heals == <>[](pc = "asleep" => file.holding = held)

=============================================================================
