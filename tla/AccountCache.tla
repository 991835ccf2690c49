---------------------------- MODULE AccountCache ----------------------------
(***************************************************************************)
(* The balance that OrderExecutionService keeps of the account, the orders *)
(* it sizes and checks against it (RiskRules), and the task that fetches   *)
(* the account once in a while and writes over what the orders have booked *)
(* meanwhile.                                                              *)
(*                                                                         *)
(* The dispatcher executes one signal at a time; execute_signal is here    *)
(* Enter or Exit (everything up to the order), an outcome at the exchange, *)
(* and Book (everything after the reply).  The task's request is answered  *)
(* with the account of some moment (Sample) and stored later (Store).      *)
(*                                                                         *)
(* One signal's order may be sent to the exchange more than once: by the   *)
(* client, which lost a reply, or at market after a limit entry that       *)
(* failed.  What only the exchange knows of is Lost, and may stay open.    *)
(*                                                                         *)
(* A lot of every asset costs one unit of cash and a fee takes one unit of *)
(* what is received, or comes in BNB; there is no LOT_SIZE dust.  Signals, *)
(* their symbols and their quantities are a free choice.                   *)
(***************************************************************************)
EXTENDS Integers

CONSTANTS
    Assets,        \* assets with a column in AccountBalance
    Btc,           \* the one that position_value counts
    Dynamic,       \* suggested_quantity = None
    Quantities,    \* quantities that signals suggest
    InitialCash,
    UsesLimit,     \* use_limit_entry
    AllocationPct, Reserve, MaxSingleOrder, MaxPosition, MinInterval,
    Misread,       \* lots that a mixed commission comes to, read in lots
    MaxOrders,     \* bound: orders placed
    MaxFaults,     \* bound: executions that no answer tells of, failed syncs
    MaxTime        \* bound on the clock

ASSUME AccountAssumption ==
    /\ Btc \in Assets
    /\ {"USDT", "BNB"} \cap Assets = {}
    /\ Quantities \subseteq Nat \ {0}
    /\ Dynamic \notin Nat
    /\ UsesLimit \in BOOLEAN
    /\ AllocationPct \in 0 .. 100
    /\ {InitialCash, Reserve, MaxSingleOrder, MaxPosition, MinInterval,
        MaxOrders, MaxFaults, MaxTime} \subseteq Nat
    /\ Misread \in Nat \ {0}

VARIABLES
    now,           \* wall clock
    account,       \* what is free on the exchange's account: [cash, lots]
    left,          \* lots in limit orders left open that the code knows nothing of
    cache,         \* AccountBalance
    lastOrder,     \* last_order_time, or Never
    order,         \* the order being executed, or Nothing
    sync,          \* the sync task's unstored answer, or Nothing
    orders,        \* history: orders placed
    faults,        \* history: executions not told of and failed syncs
    lastDone,      \* history: when an order was last executed and answered
    drift          \* history: why the cache may differ from the account

vars == <<now, account, left, cache, lastOrder, order, sync, orders, faults,
          lastDone, drift>>

Never == -1
Nothing == [stage |-> "none"]
NoLots == [a \in Assets |-> 0]

Min2(a, b) == IF a < b THEN a ELSE b
Max2(a, b) == IF a > b THEN a ELSE b

\* sync_balance at the start fills the cache, before any signal.
Init ==
    /\ now = 0
    /\ account = [cash |-> InitialCash, lots |-> NoLots]
    /\ left = NoLots
    /\ cache = account
    /\ lastOrder = Never
    /\ order = Nothing
    /\ sync = Nothing
    /\ orders = 0
    /\ faults = 0
    /\ lastDone = Never
    /\ drift = {}

Tick ==
    /\ now < MaxTime
    /\ now' = now + 1
    /\ UNCHANGED <<account, left, cache, lastOrder, order, sync, orders, faults,
                   lastDone, drift>>

-----------------------------------------------------------------------------
\* Sizing and risk check of an entry.

\* The smallest of allocation, balance less reserve, and single-order limit.
Deployable(cash) ==
    Min2(Min2((cash * AllocationPct) \div 100, Max2(cash - Reserve, 0)),
         MaxSingleOrder)

Sized(wish, cash) ==
    IF wish = Dynamic THEN Deployable(cash) ELSE Min2(wish, Deployable(cash))

Rested == lastOrder = Never \/ now - lastOrder >= MinInterval

\* Mutation of Checked: the position held is not added.
CheckedAlone(qty, position) == Rested /\ qty <= Min2(MaxSingleOrder, cache.cash)

\* RiskRules::pre_trade_check.  Its daily loss is never updated and stays 0.
Checked(qty, position) ==
    /\ Rested
    /\ qty <= MaxSingleOrder
    /\ qty <= cache.cash
    /\ position + qty <= MaxPosition

\* An order remembers why the cache it was checked against may have been off,
\* and what the check could not see: Btc in orders left open, and what the order
\* itself buys beyond its one execution.
Place(side, a, qty) ==
    /\ order' = [stage |-> "placed", side |-> side, asset |-> a, qty |-> qty,
                 at |-> now, drift |-> drift, over |-> left[Btc],
                 coin |-> "none", report |-> "none"]
    /\ orders < MaxOrders
    /\ orders' = orders + 1
    /\ UNCHANGED <<now, account, left, cache, lastOrder, sync, faults, lastDone,
                   drift>>

\* A signal that is refused before any order changes nothing.
Enter(a, wish) ==
    LET qty == Sized(wish, cache.cash)
    IN  /\ order = Nothing
        /\ qty > 0
        /\ Checked(qty, cache.lots[Btc])
        /\ Place("BUY", a, qty)

\* An exit is cut down to what the cache has, but not below half.
Enough(qty, free) == 2 * Min2(qty, free) >= qty

\* Mutation of Exit: the order asks for the quantity wished for.
ExitUncut(a, wish) ==
    /\ order = Nothing
    /\ Enough(wish, cache.lots[a])
    /\ Place("SELL", a, wish)

Exit(a, wish) ==
    /\ order = Nothing
    /\ Enough(wish, cache.lots[a])
    /\ Place("SELL", a, Min2(wish, cache.lots[a]))

-----------------------------------------------------------------------------
\* What executing an order does, before its fee.
Trade(bal, o) ==
    IF o.side = "BUY"
    THEN [cash |-> bal.cash - o.qty,
          lots |-> [bal.lots EXCEPT ![o.asset] = @ + o.qty]]
    ELSE [cash |-> bal.cash + o.qty,
          lots |-> [bal.lots EXCEPT ![o.asset] = Max2(@ - o.qty, 0)]]

\* Taking a fee from one of the columns; BNB has none.
Less(bal, coin, fee) ==
    IF coin = "USDT" THEN [bal EXCEPT !.cash = @ - fee]
    ELSE IF coin \in Assets
    THEN [cash |-> bal.cash, lots |-> [bal.lots EXCEPT ![coin] = Max2(@ - fee, 0)]]
    ELSE bal

\* A fee is taken from what is received, or from BNB.  One that is less than a
\* unit is left out.
FeeCoins(o) ==
    IF o.qty = 1 THEN {"BNB"}
    ELSE {IF o.side = "BUY" THEN o.asset ELSE "USDT", "BNB"}

IsLimit(o) == o.side = "BUY" /\ UsesLimit

\* How the reply describes the fee: market fills list it; a limit order that
\* was polled has no fills; a mixed execution lists that of the market part.
Reports(o) ==
    IF IsLimit(o) THEN {"listed", "polled", "mixed"} ELSE {"listed"}

Funded(o) == o.qty <= IF o.side = "BUY" THEN account.cash
                                        ELSE account.lots[o.asset]

\* An answer on its way to the sync task is not the account's any more.
Overtaken == sync' = IF sync = Nothing THEN sync ELSE [sync EXCEPT !.clean = FALSE]

AtExchange(coin) ==
    /\ order.stage = "placed"
    /\ Funded(order)
    /\ account' = Less(Trade(account, order), coin, 1)
    /\ Overtaken
    /\ UNCHANGED <<now, left, cache, lastOrder, orders>>

Executed ==
    /\ order.stage = "placed"
    /\ \E coin \in FeeCoins(order), report \in Reports(order) :
         /\ AtExchange(coin)
         /\ order' = [order EXCEPT !.stage = "executed", !.coin = coin,
                                   !.report = report]
    /\ lastDone' = now
    /\ UNCHANGED <<faults, drift>>

\* Refused by the exchange, or the connection: an Err that leaves nothing.
Refused ==
    /\ order.stage = "placed"
    /\ order' = Nothing
    /\ UNCHANGED <<now, account, left, cache, lastOrder, sync, orders, faults,
                   lastDone, drift>>

\* A limit order stays open: what it may cost is not free any more.
StaysOpen ==
    /\ IsLimit(order) /\ Funded(order)
    /\ account' = [account EXCEPT !.cash = @ - order.qty]
    /\ left' = [left EXCEPT ![order.asset] = @ + order.qty]
    /\ Overtaken
    /\ UNCHANGED <<now, cache, lastOrder, orders>>

\* Executed or left open, and no answer will tell: the reply was lost, or asking
\* and cancelling failed.  The order is given up, or is sent once more.
Lost ==
    /\ order.stage = "placed"
    /\ faults < MaxFaults
    /\ StaysOpen \/ \E coin \in FeeCoins(order) : AtExchange(coin)
    /\ faults' = faults + 1
    /\ drift' = drift \cup {"lost"}
    /\ order' \in {Nothing, [order EXCEPT !.over = @ + order.qty]}
    /\ UNCHANGED lastDone

\* A limit order that was left open is filled in part or whole, at any time; or a
\* cancellation that went unheard made its cash free again.
Stray ==
    /\ \E a \in Assets : \E q \in 1 .. left[a] :
         /\ left' = [left EXCEPT ![a] = @ - q]
         /\ \/ \E coin \in FeeCoins([side |-> "BUY", asset |-> a, qty |-> q]) :
                 account' = Less([account EXCEPT !.lots[a] = @ + q], coin, 1)
            \/ /\ order.stage = "placed" /\ IsLimit(order)
               /\ account' = [account EXCEPT !.cash = @ + q]
    /\ Overtaken
    /\ drift' = drift \cup {"lost"}
    /\ UNCHANGED <<now, cache, lastOrder, order, orders, faults, lastDone>>

\* The commission as the code computes it: without fills, or for the limit
\* part of a mixed execution, an estimate in USDT; in the latter it is added
\* to the fee of the fills whatever coin that was paid in.
Commission(o) ==
    IF o.report = "polled" THEN [coin |-> "USDT", fee |-> 1]
    ELSE [coin |-> o.coin,
          fee  |-> IF o.report = "mixed" /\ o.coin \in Assets THEN Misread ELSE 1]

\* Mutation of Booked: the quantity is booked, but not its fee.
BookedWithoutFee(o) == Trade(cache, o)

\* Cash below nothing is taken for nothing.
Booked(o) ==
    LET c == Commission(o)
    IN  [Less(Trade(cache, o), c.coin, c.fee) EXCEPT !.cash = Max2(@, 0)]

\* Why booking this order may leave the cache off the account.
Misbooked(o) == {o.report} \cap {"polled", "mixed"}

Book ==
    /\ order.stage = "executed"
    /\ cache' = Booked(order)
    /\ lastOrder' = now
    /\ drift' = drift \cup Misbooked(order)
    /\ order' = Nothing
    /\ UNCHANGED <<now, account, left, sync, orders, faults, lastDone>>

-----------------------------------------------------------------------------
\* The exchange answers get_account.  Cash that an open limit order locks is
\* not free.  An answer is clean while no order is between its placing and its
\* booking.
Sample ==
    /\ sync = Nothing
    /\ \E locked \in {0} \cup
            (IF order.stage = "placed" /\ UsesLimit /\ order.side = "BUY"
             THEN {Min2(order.qty, account.cash)} ELSE {}) :
         sync' = [free  |-> [account EXCEPT !.cash = @ - locked],
                  clean |-> order = Nothing]
    /\ UNCHANGED <<now, account, left, cache, lastOrder, order, orders, faults,
                   lastDone, drift>>

\* Mutation of Stored: the cash is not taken over.
StoredLotsOnly(free) == [cache EXCEPT !.lots = free.lots]

Stored(free) == free

\* A clean answer makes up for everything, another one may be off itself.
Store ==
    /\ sync # Nothing
    /\ cache' = Stored(sync.free)
    /\ drift' = IF sync.clean THEN {} ELSE drift \cup {"crossed"}
    /\ sync' = Nothing
    /\ UNCHANGED <<now, account, left, lastOrder, order, orders, faults, lastDone>>

\* get_account fails or the client is banned: the task only waits longer.
SyncFails ==
    /\ sync # Nothing
    /\ faults < MaxFaults
    /\ faults' = faults + 1
    /\ sync' = Nothing
    /\ UNCHANGED <<now, account, left, cache, lastOrder, order, orders, lastDone,
                   drift>>

Signals ==
    \E a \in Assets :
        \/ \E wish \in Quantities \cup {Dynamic} : Enter(a, wish)
        \/ \E wish \in Quantities : Exit(a, wish)

Reply == Executed \/ Refused \/ Lost

Next == Tick \/ Signals \/ Reply \/ Stray \/ Book \/ Sample \/ Store \/ SyncFails

\* A call ends within its timeout, and the task goes round for ever.
Fairness == WF_vars(Reply) /\ WF_vars(Book) /\ WF_vars(Sample)
              /\ WF_vars(Store \/ SyncFails)

Spec == Init /\ [][Next]_vars
FairSpec == Spec /\ Fairness

-----------------------------------------------------------------------------
Balances == [cash : Nat, lots : [Assets -> Nat]]

Reasons == {"lost", "polled", "mixed", "crossed"}

OrderSet == [stage : {"placed", "executed"}, side : {"BUY", "SELL"},
             asset : Assets, qty : Nat \ {0}, at : Nat,
             drift : SUBSET Reasons, over : Nat,
             coin : Assets \cup {"USDT", "BNB", "none"},
             report : {"listed", "polled", "mixed", "none"}]

\* Types; an order asks for something, and the clock is not behind an order.
TypeOK ==
    /\ now \in 0 .. MaxTime
    /\ account \in Balances
    /\ left \in [Assets -> Nat]
    /\ cache \in Balances
    /\ lastOrder \in {Never} \cup 0 .. now
    /\ lastDone \in {Never} \cup 0 .. now
    /\ order \in OrderSet \cup {Nothing}
    /\ sync \in [free : Balances, clean : BOOLEAN] \cup {Nothing}
    /\ orders \in 0 .. MaxOrders
    /\ faults \in 0 .. MaxFaults
    /\ drift \in SUBSET Reasons

\* Between two signals the cache is what the account has free, to the last unit,
\* unless since the last answer that crossed no order something was executed that
\* no answer told of, a commission was estimated, or an answer was stored that an
\* order had crossed.
CacheExact == order = Nothing /\ drift = {} => cache = account

\* An order that passed sizing and checks can be paid for: an estimated commission
\* makes the cache poorer than the account in cash, and a misread one in lots, but
\* never richer.  A polled one leaves the fee in the cache's lots, and a sale of
\* them may ask for too much.
OrdersFunded ==
    /\ order.stage = "placed"
    /\ order.over = 0
    /\ order.drift \cap {"lost", "crossed"} = {}
    /\ order.side = "SELL" => "polled" \notin order.drift
    => Funded(order)

Buys == account' # account /\ order.stage = "placed" /\ order.side = "BUY"

\* An entry is never checked sooner than MinInterval after the last order that
\* was executed and answered, exits included, however long its reply took.
EntriesRest ==
    [][Buys /\ lastDone # Never
        => order.at - lastDone >= MinInterval]_vars

\* An entry checked against an exact cache takes what is held of Btc above the
\* limit by no more than was left open or bought over and above, untold; other
\* assets are not counted.
PositionCapped ==
    [][Buys /\ order.drift = {}
        => account'.lots[Btc] <= MaxPosition + order.over]_vars

\* The cache comes to agree with the account whatever has happened, and stays.
CacheHeals == <>[](cache = account)
=============================================================================
