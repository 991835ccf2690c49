------------------------- MODULE AccountCacheProofs -------------------------
(***************************************************************************)
(* For every set of assets, all limits and any number of orders and faults:*)
(* what the cache says is what the account has, save for the reasons that  *)
(* drift names; and the risk check keeps its distance and its limit.       *)
(***************************************************************************)
EXTENDS AccountCache, TLAPS

\* A clean answer is still the account, and no order is waiting to be booked.
Clean ==
    sync # Nothing /\ sync.clean =>
        sync.free = account /\ order.stage # "executed"

\* Without drift the cache is the account; while an order waits to be booked
\* it lags by exactly that order.
Exact ==
    drift = {} =>
        /\ order.stage # "executed" => cache = account
        /\ order.stage = "executed" =>
             account = Less(Trade(cache, order), order.coin, 1)

\* An order answered is an order recorded, but for the one in hand.
Resting ==
    /\ order.stage # "executed" /\ lastDone # Never =>
         lastOrder # Never /\ lastDone <= lastOrder
    /\ order.stage = "placed" /\ order.side = "BUY" /\ lastDone # Never =>
         order.at - lastDone >= MinInterval

\* An entry that was checked against an exact cache still fits the limit, but for
\* what was left open or bought untold.
Fits ==
    order.stage = "placed" /\ order.side = "BUY" /\ order.drift = {} =>
        account.lots[Btc] + left[Btc] + order.qty <= MaxPosition + order.over

\* Balance b has the cash of c and, unless a commission was estimated in the wrong
\* coin, its lots.
Covers(b, c) ==
    /\ c.cash <= b.cash
    /\ "polled" \notin drift => \A a \in Assets : c.lots[a] <= b.lots[a]

\* Misreading commissions makes the cache no richer than the account.
Modest ==
    drift \cap {"lost", "crossed"} = {} =>
        /\ order.stage # "executed" => Covers(account, cache)
        /\ order.stage = "executed" =>
             Covers(account, Less(Trade(cache, order), order.coin, 1))

IInv == TypeOK /\ Clean /\ Exact /\ Resting /\ Fits /\ Modest /\ OrdersFunded

-----------------------------------------------------------------------------
\* A balance whose cash may be overdrawn.
Ledgers == [cash : Int, lots : [Assets -> Nat]]

\* Trades lead from balances to balances, if the cash suffices.
LEMMA TradeType ==
    ASSUME NEW bal \in Balances, NEW o,
           o.side \in {"BUY", "SELL"}, o.asset \in Assets, o.qty \in Nat
    PROVE  /\ Trade(bal, o) \in Ledgers
           /\ o.side = "BUY" /\ o.qty <= bal.cash => Trade(bal, o).cash >= 0
           /\ o.side = "SELL" => Trade(bal, o).cash >= o.qty
<1>1. CASE o.side = "BUY"
  BY <1>1 DEF Trade, Balances, Ledgers
<1>2. CASE o.side = "SELL"
  <2>1. Max2(bal.lots[o.asset] - o.qty, 0) \in Nat
    BY DEF Max2, Balances
  <2>2. [bal.lots EXCEPT ![o.asset] = Max2(@ - o.qty, 0)] \in [Assets -> Nat]
    BY <2>1 DEF Balances
  <2>3. QED
    BY <1>2, <2>2 DEF Balances, Ledgers, Trade
<1>3. QED
  BY <1>1, <1>2

\* A fee touches the cash only if it is paid in USDT.
LEMMA LessType ==
    ASSUME NEW bal \in Ledgers, NEW coin, NEW fee \in Nat
    PROVE  /\ Less(bal, coin, fee) \in Ledgers
           /\ Less(bal, coin, fee).cash
                = IF coin = "USDT" THEN bal.cash - fee ELSE bal.cash
<1>1. CASE coin = "USDT"
  BY <1>1 DEF Less, Ledgers
<1>2. CASE coin # "USDT" /\ coin \in Assets
  <2>1. Max2(bal.lots[coin] - fee, 0) \in Nat
    BY <1>2 DEF Max2, Ledgers
  <2>2. [bal.lots EXCEPT ![coin] = Max2(@ - fee, 0)] \in [Assets -> Nat]
    BY <2>1 DEF Ledgers
  <2>3. QED
    BY <1>2, <2>2 DEF Less, Ledgers
<1>3. CASE coin # "USDT" /\ coin \notin Assets
  BY <1>3 DEF Less
<1>4. QED
  BY <1>1, <1>2, <1>3

\* What a trade and a fee do to cash and lots.
LEMMA TradeEffect ==
    ASSUME NEW bal \in Balances, NEW o, NEW a \in Assets,
           o.side \in {"BUY", "SELL"}, o.asset \in Assets, o.qty \in Nat
    PROVE  /\ Trade(bal, o).cash =
                IF o.side = "BUY" THEN bal.cash - o.qty ELSE bal.cash + o.qty
           /\ Trade(bal, o).lots[a] =
                IF a # o.asset THEN bal.lots[a]
                ELSE IF o.side = "BUY" THEN bal.lots[a] + o.qty
                ELSE Max2(bal.lots[a] - o.qty, 0)
<1>1. CASE o.side = "BUY"
  BY <1>1 DEF Trade, Balances
<1>2. CASE o.side = "SELL"
  BY <1>2 DEF Trade, Balances
<1>3. QED
  BY <1>1, <1>2

LEMMA LessEffect ==
    ASSUME NEW bal \in Ledgers, NEW coin, NEW fee \in Nat, NEW a \in Assets
    PROVE  Less(bal, coin, fee).lots[a] =
             IF a = coin THEN Max2(bal.lots[a] - fee, 0) ELSE bal.lots[a]
<1>1. "USDT" \notin Assets
  BY AccountAssumption
<1>2. CASE coin = "USDT"
  BY <1>1, <1>2 DEF Less, Ledgers
<1>3. CASE coin # "USDT" /\ coin \in Assets
  BY <1>3 DEF Less, Ledgers
<1>4. CASE coin # "USDT" /\ coin \notin Assets
  BY <1>4 DEF Less
<1>5. QED
  BY <1>2, <1>3, <1>4

\* What the exchange does to the account leaves a balance.
LEMMA ExchangeType ==
    ASSUME TypeOK, NEW coin \in FeeCoins(order), AtExchange(coin)
    PROVE  account' \in Balances
<1>1. /\ order.side \in {"BUY", "SELL"} /\ order.asset \in Assets
      /\ order.qty \in Nat \ {0}
      /\ account \in Balances
  BY DEF TypeOK, OrderSet, AtExchange, Nothing
<1> DEFINE t == Trade(account, order)
<1>2. /\ t \in Ledgers
      /\ t.cash >= 0
      /\ order.side = "SELL" => t.cash >= order.qty
  <2>1. /\ t \in Ledgers
        /\ order.side = "BUY" /\ order.qty <= account.cash => t.cash >= 0
        /\ order.side = "SELL" => t.cash >= order.qty
    <3>1. order.qty \in Nat
      BY <1>1
    <3>2. t \in Ledgers
      BY <1>1, <3>1, TradeType
    <3>3. order.side = "BUY" /\ order.qty <= account.cash => t.cash >= 0
      BY <1>1, <3>1, TradeType
    <3>4. order.side = "SELL" => t.cash >= order.qty
      BY <1>1, <3>1, TradeType
    <3>5. QED
      BY <3>2, <3>3, <3>4
  <2>2. order.side = "BUY" => order.qty <= account.cash
    BY DEF AtExchange, Funded
  <2>3. QED
    BY <1>1, <2>1, <2>2 DEF Ledgers
<1>3. coin = "USDT" => t.cash >= 1
  BY <1>1, <1>2, AccountAssumption DEF FeeCoins, Ledgers
<1>4. account' = Less(t, coin, 1)
  BY DEF AtExchange
<1> HIDE DEF t
<1>5. account' \in Ledgers /\ account'.cash = IF coin = "USDT" THEN t.cash - 1 ELSE t.cash
  BY <1>2, <1>4, LessType
<1>6. account'.cash \in Nat
  BY <1>2, <1>3, <1>5 DEF Ledgers
<1>7. QED
  BY <1>5, <1>6 DEF Balances, Ledgers

\* An answer on its way stays one, and is clean no more.
LEMMA AnswerType ==
    ASSUME TypeOK, Overtaken
    PROVE  /\ sync' \in [free : Balances, clean : BOOLEAN] \cup {Nothing}
           /\ sync' # Nothing => ~sync'.clean
BY DEF TypeOK, Overtaken

\* An order left open takes its cost out of the cash, and counts as left.
LEMMA StaysOpenType ==
    ASSUME TypeOK, order.stage = "placed", StaysOpen
    PROVE  /\ account' \in Balances /\ account'.lots = account.lots
           /\ left' \in [Assets -> Nat]
           /\ \A a \in Assets : left'[a] <= left[a] + order.qty
<1>1. /\ order.asset \in Assets /\ order.qty \in Nat /\ order.side = "BUY"
      /\ order.qty <= account.cash /\ account \in Balances
      /\ left \in [Assets -> Nat]
  BY DEF TypeOK, OrderSet, StaysOpen, IsLimit, Funded, Nothing
<1>2. /\ account' = [account EXCEPT !.cash = @ - order.qty]
      /\ left' = [left EXCEPT ![order.asset] = @ + order.qty]
  BY DEF StaysOpen
<1>3. account.cash - order.qty \in Nat
  BY <1>1 DEF Balances
<1>4. account' \in Balances /\ account'.lots = account.lots
  BY <1>1, <1>2, <1>3 DEF Balances
<1>5. left' \in [Assets -> Nat] /\ \A a \in Assets : left'[a] <= left[a] + order.qty
  BY <1>1, <1>2
<1>6. QED
  BY <1>4, <1>5

\* A stray fill moves lots from those left open to those held, at a fee; a
\* cancellation makes cash free.  Neither takes anything from the account.
LEMMA StrayType ==
    ASSUME TypeOK, Stray
    PROVE  /\ account' \in Balances /\ left' \in [Assets -> Nat]
           /\ account'.cash >= account.cash
           /\ \A a \in Assets :
                /\ account'.lots[a] >= account.lots[a]
                /\ account'.lots[a] + left'[a] <= account.lots[a] + left[a]
<1>0. PICK a \in Assets : \E q \in 1 .. left[a] :
        /\ left' = [left EXCEPT ![a] = @ - q]
        /\ \/ \E coin \in FeeCoins([side |-> "BUY", asset |-> a, qty |-> q]) :
                account' = Less([account EXCEPT !.lots[a] = @ + q], coin, 1)
           \/ account' = [account EXCEPT !.cash = @ + q]
  BY DEF Stray
<1>1. PICK q \in 1 .. left[a] :
        /\ left' = [left EXCEPT ![a] = @ - q]
        /\ \/ \E coin \in FeeCoins([side |-> "BUY", asset |-> a, qty |-> q]) :
                account' = Less([account EXCEPT !.lots[a] = @ + q], coin, 1)
           \/ account' = [account EXCEPT !.cash = @ + q]
  BY <1>0
<1>2. /\ account \in Balances /\ left \in [Assets -> Nat]
      /\ q \in Nat \ {0} /\ q <= left[a]
  BY DEF TypeOK
<1>3. /\ left' \in [Assets -> Nat]
      /\ \A b \in Assets : left'[b] = IF b = a THEN left[b] - q ELSE left[b]
  BY <1>1, <1>2
<1>4. CASE account' = [account EXCEPT !.cash = @ + q]
  <2>1. /\ account' \in Balances /\ account'.lots = account.lots
        /\ account'.cash >= account.cash
    BY <1>2, <1>4 DEF Balances
  <2>2. QED
    BY <1>2, <1>3, <2>1 DEF Balances
<1>5. CASE \E coin \in FeeCoins([side |-> "BUY", asset |-> a, qty |-> q]) :
             account' = Less([account EXCEPT !.lots[a] = @ + q], coin, 1)
  <2>1. PICK coin \in FeeCoins([side |-> "BUY", asset |-> a, qty |-> q]) :
          account' = Less([account EXCEPT !.lots[a] = @ + q], coin, 1)
    BY <1>5
  <2>2. coin \in {a, "BNB"} /\ (q = 1 => coin = "BNB")
    BY DEF FeeCoins
  <2> DEFINE t == [account EXCEPT !.lots[a] = @ + q]
  <2>3. /\ t \in Ledgers /\ t.cash = account.cash
        /\ \A b \in Assets :
             t.lots[b] = IF b = a THEN account.lots[b] + q ELSE account.lots[b]
    BY <1>2 DEF Balances, Ledgers
  <2>4. account' = Less(t, coin, 1)
    BY <2>1
  <2> HIDE DEF t
  <2>5. coin # "USDT" /\ "BNB" \notin Assets
    BY <2>2, AccountAssumption
  <2>6. account' \in Ledgers /\ account'.cash = account.cash
    BY <2>3, <2>4, <2>5, LessType
  <2>7. account' \in Balances
    BY <1>2, <2>6 DEF Balances, Ledgers
  <2>8. ASSUME NEW b \in Assets
        PROVE  /\ account'.lots[b] >= account.lots[b]
               /\ account'.lots[b] + left'[b] <= account.lots[b] + left[b]
    <3>1. account'.lots[b] = IF b = coin THEN Max2(t.lots[b] - 1, 0) ELSE t.lots[b]
      BY <2>3, <2>4, LessEffect
    <3>2. account.lots[b] \in Nat /\ left[b] \in Nat
      BY <1>2 DEF Balances
    <3>3. CASE b = a
      <4>1. t.lots[b] = account.lots[b] + q /\ left'[b] = left[b] - q
        BY <1>3, <2>3, <3>3
      <4>2. QED
        BY <1>2, <2>2, <2>5, <3>1, <3>2, <4>1 DEF Max2
    <3>4. CASE b # a
      <4>1. b # coin /\ t.lots[b] = account.lots[b] /\ left'[b] = left[b]
        BY <1>3, <2>2, <2>3, <2>5, <3>4
      <4>2. QED
        BY <3>1, <3>2, <4>1
    <3>5. QED
      BY <3>3, <3>4
  <2>9. account'.cash >= account.cash
    BY <1>2, <2>6 DEF Balances
  <2>10. QED
    BY <1>3, <2>7, <2>8, <2>9
<1>6. QED
  BY <1>1, <1>4, <1>5

\* Executing the order adds at most its quantity to what is held of any asset.
LEMMA ExchangeLots ==
    ASSUME TypeOK, NEW coin \in FeeCoins(order), AtExchange(coin), NEW a \in Assets
    PROVE  account'.lots[a] <= account.lots[a] + order.qty
<1>1. /\ order.side \in {"BUY", "SELL"} /\ order.asset \in Assets
      /\ order.qty \in Nat /\ account \in Balances
  BY DEF TypeOK, OrderSet, AtExchange, Nothing
<1> DEFINE t == Trade(account, order)
<1>2. t \in Ledgers
  BY <1>1, TradeType
<1>3. t.lots[a] \in Nat /\ t.lots[a] <= account.lots[a] + order.qty
  BY <1>1, TradeEffect DEF Max2, Balances
<1>4. account' = Less(t, coin, 1)
  BY DEF AtExchange
<1> HIDE DEF t
<1>5. account'.lots[a] = IF a = coin THEN Max2(t.lots[a] - 1, 0) ELSE t.lots[a]
  BY <1>2, <1>4, LessEffect
<1>6. account.lots[a] \in Nat
  BY <1>1 DEF Balances
<1>7. QED
  BY <1>1, <1>3, <1>5, <1>6 DEF Max2

\* Booking leaves a balance, however far off the cache is.
LEMMA BookedType ==
    ASSUME TypeOK, order.stage = "executed"
    PROVE  Booked(order) \in Balances
<1>1. order.side \in {"BUY", "SELL"} /\ order.asset \in Assets
      /\ order.qty \in Nat /\ cache \in Balances
  BY DEF TypeOK, OrderSet, Nothing
<1> DEFINE c == Commission(order)
           d == Less(Trade(cache, order), c.coin, c.fee)
<1>2. c.fee \in Nat
  BY AccountAssumption DEF Commission
<1>3. Booked(order) = [d EXCEPT !.cash = Max2(@, 0)]
  BY DEF Booked
<1> HIDE DEF c
<1>4. d \in Ledgers
  BY <1>1, <1>2, TradeType, LessType
<1> HIDE DEF d
<1>5. Max2(d.cash, 0) \in Nat
  BY <1>4 DEF Max2, Ledgers
<1>6. QED
  BY <1>3, <1>4, <1>5 DEF Balances, Ledgers

\* An entry that is checked has a size.
LEMMA SizedType ==
    ASSUME NEW wish \in Quantities \cup {Dynamic}, NEW cash \in Nat
    PROVE  Sized(wish, cash) \in Int
<1>1. (cash * AllocationPct) \div 100 \in Int
  BY AccountAssumption
<1>2. Deployable(cash) \in Int
  BY <1>1, AccountAssumption DEF Deployable, Min2, Max2
<1>3. QED
  BY <1>2, AccountAssumption DEF Sized, Min2

-----------------------------------------------------------------------------
\* The invariant holds initially: the start has synchronised the cache.
LEMMA InvInit == Init => IInv
<1> SUFFICES ASSUME Init PROVE IInv
  OBVIOUS
<1> USE AccountAssumption DEF Init, Never, Nothing
<1>1. account \in Balances /\ left \in [Assets -> Nat]
  BY DEF Balances, NoLots
<1>2. TypeOK
  BY <1>1 DEF TypeOK
<1>3. Clean /\ Exact /\ Resting /\ Fits /\ Modest /\ OrdersFunded
  BY <1>1 DEF Clean, Exact, Resting, Fits, Modest, Covers, OrdersFunded, Balances
<1>4. QED
  BY <1>2, <1>3 DEF IInv

\* Orders keep their type when they are placed and when they are executed.
LEMMA PlacedType ==
    ASSUME TypeOK, NEW side \in {"BUY", "SELL"}, NEW a \in Assets,
           NEW qty \in Nat \ {0}, Place(side, a, qty)
    PROVE  order' \in OrderSet
<1>1. now \in Nat /\ left[Btc] \in Nat /\ drift \in SUBSET Reasons
  BY AccountAssumption DEF TypeOK
<1>2. QED
  BY <1>1 DEF Place, OrderSet

LEMMA ExecutedType ==
    ASSUME TypeOK, Executed
    PROVE  order' \in OrderSet
<1>1. PICK coin \in FeeCoins(order), report \in Reports(order) :
        order' = [order EXCEPT !.stage = "executed", !.coin = coin,
                               !.report = report]
  BY DEF Executed
<1>2. order \in OrderSet
  BY DEF TypeOK, Executed, Nothing
<1>3. coin \in Assets \cup {"USDT", "BNB", "none"}
  BY <1>2 DEF FeeCoins, OrderSet
<1>4. report \in {"listed", "polled", "mixed", "none"}
  BY DEF Reports
<1>5. QED
  BY <1>1, <1>2, <1>3, <1>4 DEF OrderSet

\* Types are kept by every step.
LEMMA TypeStep == TypeOK /\ [Next]_vars => TypeOK'
<1> SUFFICES ASSUME TypeOK, [Next]_vars PROVE TypeOK'
  OBVIOUS
<1> USE AccountAssumption DEF TypeOK, Never, Reasons
<1>1. CASE Tick
  BY <1>1 DEF Tick
<1>2. ASSUME NEW a \in Assets, NEW wish \in Quantities \cup {Dynamic},
             Enter(a, wish)
      PROVE  TypeOK'
  <2> DEFINE qty == Sized(wish, cache.cash)
  <2>1. qty \in Nat \ {0}
    <3>1. cache.cash \in Nat
      BY DEF Balances
    <3>2. Sized(wish, cache.cash) \in Int
      BY <3>1, SizedType
    <3>3. qty > 0
      BY <1>2 DEF Enter
    <3> HIDE DEF TypeOK, Reasons, Never
    <3>4. QED
      BY <3>2, <3>3
  <2>2. Place("BUY", a, qty)
    BY <1>2 DEF Enter
  <2> HIDE DEF qty
  <2>3. order' \in OrderSet
    BY <2>1, <2>2, PlacedType
  <2>4. QED
    BY <2>2, <2>3 DEF Place
<1>3. ASSUME NEW a \in Assets, NEW wish \in Quantities, Exit(a, wish)
      PROVE  TypeOK'
  <2> DEFINE qty == Min2(wish, cache.lots[a])
  <2>1. cache.lots[a] \in Nat /\ wish \in Nat \ {0}
    BY DEF Balances
  <2>2. qty \in Nat \ {0}
    BY <1>3, <2>1 DEF Exit, Enough, Min2
  <2>3. Place("SELL", a, qty)
    BY <1>3 DEF Exit
  <2> HIDE DEF qty
  <2>4. order' \in OrderSet
    BY <2>2, <2>3, PlacedType
  <2>5. QED
    BY <2>3, <2>4 DEF Place
<1>4. CASE Executed
  <2>1. PICK coin \in FeeCoins(order) : AtExchange(coin)
    BY <1>4 DEF Executed
  <2>2. account' \in Balances
    BY <2>1, ExchangeType
  <2>3. order' \in OrderSet
    BY <1>4, ExecutedType
  <2>4. sync' \in [free : Balances, clean : BOOLEAN] \cup {Nothing}
    BY <2>1, AnswerType DEF AtExchange
  <2>6. UNCHANGED <<now, left, cache, lastOrder, orders, faults, drift>> /\ lastDone' = now
    BY <1>4, <2>1 DEF Executed, AtExchange
  <2>7. QED
    BY <2>2, <2>3, <2>4, <2>6
<1>5. CASE Refused
  BY <1>5 DEF Refused
<1>6. CASE Lost
  <2>1. order.stage = "placed" /\ order # Nothing
    BY <1>6 DEF Lost, Nothing
  <2>2. account' \in Balances /\ left' \in [Assets -> Nat] /\ Overtaken
    <3>1. CASE StaysOpen
      BY <2>1, <3>1, StaysOpenType DEF StaysOpen
    <3>2. CASE \E coin \in FeeCoins(order) : AtExchange(coin)
      BY <3>2, ExchangeType DEF AtExchange
    <3>3. QED
      BY <1>6, <3>1, <3>2 DEF Lost
  <2>3. sync' \in [free : Balances, clean : BOOLEAN] \cup {Nothing}
    BY <2>2, AnswerType
  <2>4. UNCHANGED <<now, cache, lastOrder, orders, lastDone>>
    BY <1>6 DEF Lost, StaysOpen, AtExchange
  <2>5. order' \in OrderSet \cup {Nothing}
    <3>1. order \in OrderSet
      BY <2>1
    <3>2. order.over + order.qty \in Nat
      BY <3>1 DEF OrderSet
    <3>3. [order EXCEPT !.over = @ + order.qty] \in OrderSet
      BY <3>1, <3>2 DEF OrderSet
    <3>4. QED
      BY <1>6, <3>3 DEF Lost
  <2>6. faults' \in 0 .. MaxFaults
        /\ drift' \in SUBSET Reasons
    BY <1>6 DEF Lost
  <2>7. QED
    BY <2>2, <2>3, <2>4, <2>5, <2>6
<1>7. CASE Book
  <2>1. cache' \in Balances
    BY <1>7, BookedType DEF Book
  <2>2. QED
    BY <1>7, <2>1 DEF Book, Misbooked
<1>8. CASE Sample
  <2>1. PICK locked \in {0, Min2(order.qty, account.cash)} :
          sync' = [free  |-> [account EXCEPT !.cash = @ - locked],
                   clean |-> order = Nothing]
            /\ (locked # 0 => order.stage = "placed")
    BY <1>8 DEF Sample
  <2>2. locked = 0 \/ order # Nothing
    BY <2>1 DEF Nothing
  <2>3. account.cash - locked \in Nat
    BY <2>2 DEF Min2, Balances
  <2>4. sync' \in [free : Balances, clean : BOOLEAN]
    BY <2>1, <2>3 DEF Balances
  <2>5. UNCHANGED <<now, account, left, cache, lastOrder, order, orders, faults,
                    lastDone, drift>>
    BY <1>8 DEF Sample
  <2>6. QED
    BY <2>4, <2>5
<1>9. CASE Store
  BY <1>9 DEF Store, Stored
<1>10. CASE SyncFails
  BY <1>10 DEF SyncFails
<1>11. CASE UNCHANGED vars
  BY <1>11 DEF vars
<1>12. CASE Stray
  <2>1. sync' \in [free : Balances, clean : BOOLEAN] \cup {Nothing}
    BY <1>12, AnswerType DEF Stray
  <2>2. account' \in Balances /\ left' \in [Assets -> Nat]
    BY <1>12, StrayType
  <2>3. QED
    BY <1>12, <2>1, <2>2 DEF Stray
<1>13. QED
  BY <1>1, <1>2, <1>3, <1>4, <1>5, <1>6, <1>7, <1>8, <1>9, <1>10, <1>11, <1>12
     DEF Next, Signals, Reply

\* A clean answer is the account until an order is executed, and that makes it
\* unclean.
LEMMA CleanStep == TypeOK /\ Clean /\ [Next]_vars => Clean'
<1> SUFFICES ASSUME TypeOK, Clean, [Next]_vars PROVE Clean'
  OBVIOUS
<1> USE DEF TypeOK, Clean
<1>1. CASE Tick
  BY <1>1 DEF Tick
<1>2. ASSUME NEW a \in Assets, NEW wish \in Quantities \cup {Dynamic},
             Enter(a, wish)
      PROVE  Clean'
  BY <1>2 DEF Enter, Place
<1>3. ASSUME NEW a \in Assets, NEW wish \in Quantities, Exit(a, wish)
      PROVE  Clean'
  BY <1>3 DEF Exit, Place
<1>4. CASE Executed
  BY <1>4, AnswerType DEF Executed, AtExchange
<1>5. CASE Refused
  BY <1>5 DEF Refused, Nothing
<1>6. CASE Lost
  BY <1>6, AnswerType DEF Lost, StaysOpen, AtExchange
<1>7. CASE Book
  BY <1>7 DEF Book, Nothing
<1>8. CASE Sample
  <2>1. order = Nothing => sync'.free = account
    <3>1. SUFFICES ASSUME order = Nothing PROVE sync'.free = account
      OBVIOUS
    <3>2. sync'.free = [account EXCEPT !.cash = @ - 0]
      BY <1>8, <3>1 DEF Sample, Nothing
    <3>3. QED
      BY <3>2 DEF Balances
  <2>2. sync'.clean => order = Nothing
    <3>1. SUFFICES ASSUME order # Nothing PROVE ~sync'.clean
      OBVIOUS
    <3>2. PICK f : sync' = [free |-> f, clean |-> order = Nothing]
      BY <1>8, Zenon DEF Sample
    <3>3. (order = Nothing) = FALSE
      BY <3>1
    <3>4. sync' = [free |-> f, clean |-> FALSE]
      BY <3>2, <3>3, Zenon
    <3>5. QED
      BY <3>4
  <2>3. UNCHANGED <<account, order>>
    BY <1>8 DEF Sample
  <2>4. QED
    BY <2>1, <2>2, <2>3 DEF Nothing
<1>9. CASE Store
  BY <1>9 DEF Store
<1>10. CASE SyncFails
  BY <1>10 DEF SyncFails
<1>11. CASE UNCHANGED vars
  BY <1>11 DEF vars
<1>12. CASE Stray
  BY <1>12, AnswerType DEF Stray
<1>13. QED
  BY <1>1, <1>2, <1>3, <1>4, <1>5, <1>6, <1>7, <1>8, <1>9, <1>10, <1>11, <1>12
     DEF Next, Signals, Reply

\* Booking an order whose fee was listed brings the cache to the account.
LEMMA BookedExactly ==
    ASSUME TypeOK, order.stage = "executed", Misbooked(order) = {},
           account = Less(Trade(cache, order), order.coin, 1)
    PROVE  Booked(order) = account
<1>1. Commission(order).coin = order.coin /\ Commission(order).fee = 1
  BY DEF Commission, Misbooked
<1>2. Booked(order) = [account EXCEPT !.cash = Max2(@, 0)]
  BY <1>1 DEF Booked
<1>3. Max2(account.cash, 0) = account.cash
  BY DEF Max2, TypeOK, Balances
<1>4. QED
  BY <1>2, <1>3 DEF TypeOK, Balances

\* What an executed order keeps of the one placed.
LEMMA ExecutedFields ==
    ASSUME TypeOK, Executed
    PROVE  \E coin \in FeeCoins(order) :
             /\ AtExchange(coin) /\ order'.coin = coin
             /\ order'.stage = "executed" /\ order'.side = order.side
             /\ order'.asset = order.asset /\ order'.qty = order.qty
<1>1. PICK coin \in FeeCoins(order), report \in Reports(order) :
        /\ AtExchange(coin)
        /\ order' = [order EXCEPT !.stage = "executed", !.coin = coin,
                                  !.report = report]
  BY DEF Executed
<1>2. order \in OrderSet
  BY DEF TypeOK, Executed, Nothing
<1>3. QED
  BY <1>1, <1>2 DEF OrderSet

\* Orders and answers keep the cache exact or name the reason.
LEMMA ExactStep == TypeOK /\ Clean /\ Exact /\ [Next]_vars => Exact'
<1> SUFFICES ASSUME TypeOK, Clean, Exact, [Next]_vars PROVE Exact'
  OBVIOUS
<1>1. CASE Tick
  BY <1>1 DEF Tick, Exact
<1>2. ASSUME NEW a \in Assets, NEW wish \in Quantities \cup {Dynamic},
             Enter(a, wish)
      PROVE  Exact'
  BY <1>2 DEF Enter, Place, Exact, Nothing
<1>3. ASSUME NEW a \in Assets, NEW wish \in Quantities, Exit(a, wish)
      PROVE  Exact'
  BY <1>3 DEF Exit, Place, Exact, Nothing
<1>4. CASE Executed
  <2>1. PICK coin \in FeeCoins(order) :
          /\ AtExchange(coin) /\ order'.coin = coin /\ order'.stage = "executed"
          /\ order'.side = order.side /\ order'.asset = order.asset
          /\ order'.qty = order.qty
    BY <1>4, ExecutedFields
  <2>2. UNCHANGED <<cache, drift>>
    BY <1>4, <2>1 DEF Executed, AtExchange
  <2>3. SUFFICES ASSUME drift = {}
                 PROVE  account' = Less(Trade(cache, order'), coin, 1)
    BY <2>1, <2>2 DEF Exact
  <2>4. cache = account
    BY <2>1, <2>3 DEF Exact, AtExchange
  <2>5. Trade(cache, order') = Trade(account, order)
    BY <2>1, <2>4 DEF Trade
  <2>6. QED
    BY <2>1, <2>5 DEF AtExchange
<1>5. CASE Refused
  BY <1>5 DEF Refused, Exact, Nothing
<1>6. CASE Lost
  BY <1>6 DEF Lost, Exact
<1>7. CASE Book
  <2>1. SUFFICES ASSUME drift' = {} PROVE cache' = account'
    BY <1>7 DEF Book, Exact, Nothing
  <2>2. drift = {} /\ Misbooked(order) = {} /\ order.stage = "executed"
    BY <1>7, <2>1 DEF Book
  <2>3. Booked(order) = account
    BY <2>2, BookedExactly DEF Exact
  <2>4. QED
    BY <1>7, <2>3 DEF Book
<1>8. CASE Sample
  BY <1>8 DEF Sample, Exact
<1>9. CASE Store
  BY <1>9 DEF Store, Stored, Exact, Clean
<1>10. CASE SyncFails
  BY <1>10 DEF SyncFails, Exact
<1>11. CASE UNCHANGED vars
  BY <1>11 DEF vars, Exact
<1>12. CASE Stray
  BY <1>12 DEF Stray, Exact
<1>13. QED
  BY <1>1, <1>2, <1>3, <1>4, <1>5, <1>6, <1>7, <1>8, <1>9, <1>10, <1>11, <1>12
     DEF Next, Signals, Reply

\* Every answered order is recorded before the next one is checked.
LEMMA RestingStep == TypeOK /\ Resting /\ [Next]_vars => Resting'
<1> SUFFICES ASSUME TypeOK, Resting, [Next]_vars PROVE Resting'
  OBVIOUS
<1> USE AccountAssumption DEF TypeOK, Resting, Never
<1>1. CASE Tick
  BY <1>1 DEF Tick
<1>2. ASSUME NEW a \in Assets, NEW wish \in Quantities \cup {Dynamic},
             Enter(a, wish)
      PROVE  Resting'
  BY <1>2 DEF Enter, Place, Checked, Rested, Nothing
<1>3. ASSUME NEW a \in Assets, NEW wish \in Quantities, Exit(a, wish)
      PROVE  Resting'
  BY <1>3 DEF Exit, Place, Nothing
<1>4. CASE Executed
  <2>1. order'.stage = "executed"
    BY <1>4, ExecutedFields
  <2>2. QED
    BY <2>1
<1>5. CASE Refused
  BY <1>5 DEF Refused, Nothing
<1>6. CASE Lost
  <2>1. order \in OrderSet /\ order.stage = "placed"
    BY <1>6 DEF Lost, Nothing
  <2>2. order' = Nothing \/ order' = [order EXCEPT !.over = @ + order.qty]
    BY <1>6 DEF Lost
  <2>3. order' # Nothing => /\ order'.stage = order.stage /\ order'.side = order.side
                            /\ order'.at = order.at
    BY <2>1, <2>2 DEF OrderSet
  <2>4. UNCHANGED <<lastOrder, lastDone>>
    BY <1>6 DEF Lost, StaysOpen, AtExchange
  <2>5. QED
    BY <2>1, <2>2, <2>3, <2>4 DEF Nothing
<1>7. CASE Book
  BY <1>7 DEF Book, Nothing
<1>8. CASE Sample
  BY <1>8 DEF Sample
<1>9. CASE Store
  BY <1>9 DEF Store
<1>10. CASE SyncFails
  BY <1>10 DEF SyncFails
<1>11. CASE UNCHANGED vars
  BY <1>11 DEF vars
<1>12. CASE Stray
  BY <1>12 DEF Stray
<1>13. QED
  BY <1>1, <1>2, <1>3, <1>4, <1>5, <1>6, <1>7, <1>8, <1>9, <1>10, <1>11, <1>12
     DEF Next, Signals, Reply

\* An entry that fits when it is checked fits until it is executed.
LEMMA FitsStep == TypeOK /\ Exact /\ Fits /\ [Next]_vars => Fits'
<1> SUFFICES ASSUME TypeOK, Exact, Fits, [Next]_vars PROVE Fits'
  OBVIOUS
<1>1. CASE Tick
  BY <1>1 DEF Tick, Fits
<1>2. ASSUME NEW a \in Assets, NEW wish \in Quantities \cup {Dynamic},
             Enter(a, wish)
      PROVE  Fits'
  <2> DEFINE qty == Sized(wish, cache.cash)
  <2>1. qty \in Int
    BY SizedType DEF TypeOK, Balances
  <2>2. cache.lots[Btc] + qty <= MaxPosition /\ order = Nothing
    BY <1>2 DEF Enter, Checked
  <2>3. /\ order'.qty = qty /\ order'.over = left[Btc] /\ order'.drift = drift
        /\ UNCHANGED <<account, left>>
    BY <1>2 DEF Enter, Place
  <2>4. left[Btc] \in Nat /\ cache.lots[Btc] \in Nat /\ MaxPosition \in Nat
    BY AccountAssumption DEF TypeOK, Balances
  <2> HIDE DEF qty
  <2>5. SUFFICES ASSUME drift = {}
                 PROVE  account.lots[Btc] + left[Btc] + qty <= MaxPosition + left[Btc]
    BY <2>3 DEF Fits
  <2>6. account.lots[Btc] = cache.lots[Btc]
    BY <2>2, <2>5 DEF Exact, Nothing
  <2>7. QED
    BY <2>1, <2>2, <2>4, <2>6
<1>3. ASSUME NEW a \in Assets, NEW wish \in Quantities, Exit(a, wish)
      PROVE  Fits'
  BY <1>3 DEF Exit, Place, Fits
<1>4. CASE Executed
  <2>1. order'.stage = "executed"
    BY <1>4, ExecutedFields
  <2>2. QED
    BY <2>1 DEF Fits
<1>5. CASE Refused
  BY <1>5 DEF Refused, Fits, Nothing
<1>6. CASE Lost
  <2>1. order \in OrderSet /\ order.stage = "placed"
    BY <1>6 DEF Lost, TypeOK, Nothing
  <2>2. CASE order' = Nothing
    BY <2>2 DEF Fits, Nothing
  <2>3. CASE order' = [order EXCEPT !.over = @ + order.qty]
    <3>1. /\ order'.side = order.side /\ order'.drift = order.drift
          /\ order'.qty = order.qty /\ order'.over = order.over + order.qty
          /\ order.qty \in Nat /\ order.over \in Nat
      BY <2>1, <2>3 DEF OrderSet
    <3>2. /\ account'.lots[Btc] \in Nat /\ left'[Btc] \in Nat
          /\ account.lots[Btc] \in Nat /\ left[Btc] \in Nat
      <4>1. TypeOK'
        BY TypeStep
      <4>2. QED
        BY <4>1, AccountAssumption DEF TypeOK, Balances
    <3>3. account'.lots[Btc] + left'[Btc] <= account.lots[Btc] + left[Btc] + order.qty
      <4>1. CASE StaysOpen
        BY <2>1, <3>1, <3>2, <4>1, StaysOpenType, AccountAssumption
      <4>2. CASE \E coin \in FeeCoins(order) : AtExchange(coin)
        <5>1. account'.lots[Btc] <= account.lots[Btc] + order.qty /\ left' = left
          BY <4>2, ExchangeLots, AccountAssumption DEF AtExchange
        <5>2. QED
          BY <3>1, <3>2, <5>1
      <4>3. QED
        BY <1>6, <4>1, <4>2 DEF Lost
    <3>4. MaxPosition \in Nat
      BY AccountAssumption
    <3>5. QED
      BY <2>1, <3>1, <3>2, <3>3, <3>4 DEF Fits
  <2>4. QED
    BY <1>6, <2>2, <2>3 DEF Lost
<1>7. CASE Book
  BY <1>7 DEF Book, Fits, Nothing
<1>8. CASE Sample
  BY <1>8 DEF Sample, Fits
<1>9. CASE Store
  BY <1>9 DEF Store, Fits
<1>10. CASE SyncFails
  BY <1>10 DEF SyncFails, Fits
<1>11. CASE UNCHANGED vars
  BY <1>11 DEF vars, Fits
<1>12. CASE Stray
  <2>1. UNCHANGED order
    BY <1>12 DEF Stray
  <2>2. /\ account'.lots[Btc] \in Nat /\ left'[Btc] \in Nat
        /\ account.lots[Btc] \in Nat /\ left[Btc] \in Nat
    <3>1. TypeOK'
      BY TypeStep
    <3>2. QED
      BY <3>1, AccountAssumption DEF TypeOK, Balances
  <2>3. account'.lots[Btc] + left'[Btc] <= account.lots[Btc] + left[Btc]
    BY <1>12, StrayType, AccountAssumption
  <2>4. MaxPosition \in Nat
    BY AccountAssumption
  <2>5. order # Nothing => order.qty \in Nat /\ order.over \in Nat
    BY DEF TypeOK, OrderSet
  <2>6. QED
    BY <2>1, <2>2, <2>3, <2>4, <2>5 DEF Fits, Nothing
<1>13. QED
  BY <1>1, <1>2, <1>3, <1>4, <1>5, <1>6, <1>7, <1>8, <1>9, <1>10, <1>11, <1>12
     DEF Next, Signals, Reply

\* What covers a balance covers it after the same trade.
LEMMA TradeCovers ==
    ASSUME NEW b \in Balances, NEW c \in Balances, NEW o \in OrderSet, NEW coin,
           Covers(b, c)
    PROVE  Covers(Less(Trade(b, o), coin, 1), Less(Trade(c, o), coin, 1))
<1>1. o.side \in {"BUY", "SELL"} /\ o.asset \in Assets /\ o.qty \in Nat
  BY DEF OrderSet
<1> DEFINE tb == Trade(b, o)
           tc == Trade(c, o)
<1>2. tb \in Ledgers /\ tc \in Ledgers
  BY <1>1, TradeType
<1>3. tc.cash <= tb.cash
  <2>1. /\ tb.cash = IF o.side = "BUY" THEN b.cash - o.qty ELSE b.cash + o.qty
        /\ tc.cash = IF o.side = "BUY" THEN c.cash - o.qty ELSE c.cash + o.qty
    BY <1>1 DEF Trade
  <2>2. c.cash <= b.cash /\ c.cash \in Nat /\ b.cash \in Nat
    BY DEF Covers, Balances
  <2>3. QED
    BY <1>1, <2>1, <2>2
<1>4. ASSUME "polled" \notin drift, NEW a \in Assets
      PROVE  tc.lots[a] <= tb.lots[a]
  <2>1. c.lots[a] <= b.lots[a] /\ c.lots[a] \in Nat /\ b.lots[a] \in Nat
    BY <1>4 DEF Covers, Balances
  <2>2. QED
    BY <1>1, <2>1, TradeEffect DEF Max2
<1> HIDE DEF tb, tc
<1>5. Less(tc, coin, 1).cash <= Less(tb, coin, 1).cash
  BY <1>2, <1>3, LessType DEF Ledgers
<1>6. ASSUME "polled" \notin drift, NEW a \in Assets
      PROVE  Less(tc, coin, 1).lots[a] <= Less(tb, coin, 1).lots[a]
  <2>1. tc.lots[a] <= tb.lots[a] /\ tc.lots[a] \in Nat /\ tb.lots[a] \in Nat
    BY <1>2, <1>4, <1>6 DEF Ledgers
  <2>2. QED
    BY <1>2, <2>1, LessEffect DEF Max2
<1>7. QED
  BY <1>5, <1>6 DEF Covers, tb, tc

\* Booking with the commission the code reckons with is no better than booking
\* with the real one.
LEMMA BookedCovers ==
    ASSUME TypeOK, order.stage = "executed",
           Covers(account, Less(Trade(cache, order), order.coin, 1))
    PROVE  /\ Booked(order).cash <= account.cash
           /\ "polled" \notin drift \cup Misbooked(order) =>
                \A a \in Assets : Booked(order).lots[a] <= account.lots[a]
<1>1. order \in OrderSet /\ cache \in Balances /\ account \in Balances
  BY DEF TypeOK, Nothing
<1> DEFINE t == Trade(cache, order)
           c == Commission(order)
           real == Less(t, order.coin, 1)
           d == Less(t, c.coin, c.fee)
<1>2. t \in Ledgers
  BY <1>1, TradeType DEF OrderSet
<1>3. Booked(order) = [d EXCEPT !.cash = Max2(@, 0)]
  BY DEF Booked
<1> HIDE DEF t
<1>4. /\ c.fee \in Nat \ {0}
      /\ order.report = "polled" => c.coin = "USDT" /\ c.fee = 1
      /\ order.report # "polled" => c.coin = order.coin
      /\ c.coin = "USDT" => c.fee = 1
  BY AccountAssumption DEF Commission
<1> HIDE DEF c
<1>5. real \in Ledgers /\ real.cash = IF order.coin = "USDT" THEN t.cash - 1 ELSE t.cash
  BY <1>2, LessType
<1>6. d \in Ledgers /\ d.cash = IF c.coin = "USDT" THEN t.cash - c.fee ELSE t.cash
  BY <1>2, <1>4, LessType
<1>7. d.cash <= real.cash
  BY <1>2, <1>4, <1>5, <1>6 DEF Ledgers
<1>8. ASSUME order.report # "polled", NEW a \in Assets
      PROVE  d.lots[a] <= real.lots[a]
  <2>1. d.lots[a] = IF a = c.coin THEN Max2(t.lots[a] - c.fee, 0) ELSE t.lots[a]
    BY <1>2, <1>4, LessEffect
  <2>2. real.lots[a] = IF a = order.coin THEN Max2(t.lots[a] - 1, 0) ELSE t.lots[a]
    BY <1>2, LessEffect
  <2>3. t.lots[a] \in Nat
    BY <1>2 DEF Ledgers
  <2>4. QED
    BY <1>4, <1>8, <2>1, <2>2, <2>3 DEF Max2
<1>9. real.cash <= account.cash
  BY DEF Covers, t
<1>10. "polled" \notin drift => \A a \in Assets : real.lots[a] <= account.lots[a]
  BY DEF Covers, t
<1> HIDE DEF d, real
<1>11. /\ Booked(order).cash = Max2(d.cash, 0)
       /\ Booked(order).lots = d.lots
  BY <1>3, <1>6 DEF Ledgers
<1>12. account.cash \in Nat /\ \A a \in Assets : account.lots[a] \in Nat
  BY <1>1 DEF Balances
<1>13. Booked(order).cash <= account.cash
  BY <1>5, <1>6, <1>7, <1>9, <1>11, <1>12 DEF Max2, Ledgers
<1>14. ASSUME "polled" \notin drift \cup Misbooked(order), NEW a \in Assets
       PROVE  Booked(order).lots[a] <= account.lots[a]
  <2>1. order.report # "polled" /\ "polled" \notin drift
    BY <1>14 DEF Misbooked
  <2>2. d.lots[a] <= real.lots[a] /\ real.lots[a] <= account.lots[a]
    BY <1>8, <1>10, <2>1
  <2>3. d.lots[a] \in Nat /\ real.lots[a] \in Nat
    BY <1>5, <1>6 DEF Ledgers
  <2>4. QED
    BY <1>11, <1>12, <2>2, <2>3
<1>15. QED
  BY <1>13, <1>14

\* Misread commissions leave the cache no richer than the account.
LEMMA ModestStep == TypeOK /\ Clean /\ Modest /\ [Next]_vars => Modest'
<1> SUFFICES ASSUME TypeOK, Clean, Modest, [Next]_vars PROVE Modest'
  OBVIOUS
<1>1. CASE Tick
  BY <1>1 DEF Tick, Modest, Covers
<1>2. ASSUME NEW a \in Assets, NEW wish \in Quantities \cup {Dynamic},
             Enter(a, wish)
      PROVE  Modest'
  BY <1>2 DEF Enter, Place, Modest, Covers, Nothing
<1>3. ASSUME NEW a \in Assets, NEW wish \in Quantities, Exit(a, wish)
      PROVE  Modest'
  BY <1>3 DEF Exit, Place, Modest, Covers, Nothing
<1>4. CASE Executed
  <2>1. PICK coin \in FeeCoins(order) :
          /\ AtExchange(coin) /\ order'.coin = coin /\ order'.stage = "executed"
          /\ order'.side = order.side /\ order'.asset = order.asset
          /\ order'.qty = order.qty
    BY <1>4, ExecutedFields
  <2>2. UNCHANGED <<cache, drift>> /\ account' = Less(Trade(account, order), coin, 1)
    BY <1>4, <2>1 DEF Executed, AtExchange
  <2>3. SUFFICES ASSUME drift \cap {"lost", "crossed"} = {}
                 PROVE  Covers(account', Less(Trade(cache, order'), coin, 1))
    BY <2>1, <2>2 DEF Modest, Covers
  <2>4. order \in OrderSet /\ account \in Balances /\ cache \in Balances
    BY <2>1 DEF TypeOK, AtExchange, Nothing
  <2>5. Covers(account, cache)
    BY <2>1, <2>3 DEF Modest, AtExchange
  <2>6. Trade(cache, order') = Trade(cache, order)
    BY <2>1 DEF Trade
  <2>7. QED
    BY <2>2, <2>4, <2>5, <2>6, TradeCovers
<1>5. CASE Refused
  BY <1>5 DEF Refused, Modest, Covers, Nothing
<1>6. CASE Lost
  BY <1>6 DEF Lost, Modest
<1>7. CASE Book
  <2>1. SUFFICES ASSUME drift' \cap {"lost", "crossed"} = {}
                 PROVE  Covers(account, cache)'
    BY <1>7 DEF Book, Modest, Nothing
  <2>2. /\ order.stage = "executed" /\ cache' = Booked(order) /\ account' = account
        /\ drift' = drift \cup Misbooked(order)
    BY <1>7 DEF Book
  <2>3. Covers(account, Less(Trade(cache, order), order.coin, 1))
    BY <2>1, <2>2 DEF Modest
  <2>4. QED
    BY <2>2, <2>3, BookedCovers DEF Covers
<1>8. CASE Sample
  BY <1>8 DEF Sample, Modest, Covers
<1>9. CASE Store
  <2>1. SUFFICES ASSUME sync.clean PROVE Modest'
    BY <1>9 DEF Store, Modest
  <2>2. cache' = account /\ account' = account /\ order'.stage # "executed"
    BY <1>9, <2>1 DEF Store, Stored, Clean
  <2>3. Covers(account, cache)'
    BY <2>2 DEF Covers, TypeOK, Balances
  <2>4. QED
    BY <2>2, <2>3 DEF Modest
<1>10. CASE SyncFails
  BY <1>10 DEF SyncFails, Modest, Covers
<1>11. CASE UNCHANGED vars
  BY <1>11 DEF vars, Modest, Covers
<1>12. CASE Stray
  BY <1>12 DEF Stray, Modest
<1>13. QED
  BY <1>1, <1>2, <1>3, <1>4, <1>5, <1>6, <1>7, <1>8, <1>9, <1>10, <1>11, <1>12
     DEF Next, Signals, Reply

\* An order is placed within what a modest cache has, and nothing but its own
\* lost executions takes from the account until it is executed.
LEMMA FundedStep == TypeOK /\ Modest /\ OrdersFunded /\ [Next]_vars => OrdersFunded'
<1> SUFFICES ASSUME TypeOK, Modest, OrdersFunded, [Next]_vars PROVE OrdersFunded'
  OBVIOUS
<1>1. CASE Tick
  BY <1>1 DEF Tick, OrdersFunded, Funded
<1>2. ASSUME NEW a \in Assets, NEW wish \in Quantities \cup {Dynamic},
             Enter(a, wish)
      PROVE  OrdersFunded'
  <2> DEFINE qty == Sized(wish, cache.cash)
  <2>1. qty \in Int
    BY SizedType DEF TypeOK, Balances
  <2>2. qty <= cache.cash /\ order = Nothing /\ cache.cash \in Nat /\ account.cash \in Nat
    BY <1>2 DEF Enter, Checked, TypeOK, Balances
  <2>3. /\ order'.qty = qty /\ order'.side = "BUY" /\ order'.drift = drift
        /\ UNCHANGED account
    BY <1>2 DEF Enter, Place
  <2> HIDE DEF qty
  <2>4. SUFFICES ASSUME drift \cap {"lost", "crossed"} = {} PROVE qty <= account.cash
    BY <2>3 DEF OrdersFunded, Funded
  <2>5. cache.cash <= account.cash
    BY <2>2, <2>4 DEF Modest, Covers, Nothing
  <2>6. QED
    BY <2>1, <2>2, <2>5
<1>3. ASSUME NEW a \in Assets, NEW wish \in Quantities, Exit(a, wish)
      PROVE  OrdersFunded'
  <2> DEFINE qty == Min2(wish, cache.lots[a])
  <2>1. /\ qty \in Nat /\ qty <= cache.lots[a] /\ order = Nothing
        /\ cache.lots[a] \in Nat /\ account.lots[a] \in Nat
    BY <1>3, AccountAssumption DEF Exit, Min2, TypeOK, Balances
  <2>2. /\ order'.qty = qty /\ order'.side = "SELL" /\ order'.asset = a
        /\ order'.drift = drift /\ UNCHANGED account
    BY <1>3 DEF Exit, Place
  <2> HIDE DEF qty
  <2>3. SUFFICES ASSUME drift \cap {"lost", "crossed"} = {}, "polled" \notin drift
                 PROVE  qty <= account.lots[a]
    BY <2>2 DEF OrdersFunded, Funded
  <2>4. cache.lots[a] <= account.lots[a]
    BY <2>1, <2>3 DEF Modest, Covers, Nothing
  <2>5. QED
    BY <2>1, <2>4
<1>4. CASE Executed
  <2>1. order'.stage = "executed"
    BY <1>4, ExecutedFields
  <2>2. QED
    BY <2>1 DEF OrdersFunded
<1>5. CASE Refused
  BY <1>5 DEF Refused, OrdersFunded, Nothing
<1>6. CASE Lost
  <2>1. order \in OrderSet
    BY <1>6 DEF Lost, TypeOK, Nothing
  <2>2. CASE order' = Nothing
    BY <2>2 DEF OrdersFunded, Nothing
  <2>3. CASE order' = [order EXCEPT !.over = @ + order.qty]
    <3>1. order'.over = order.over + order.qty /\ order.over \in Nat
          /\ order.qty \in Nat \ {0}
      BY <2>1, <2>3 DEF OrderSet
    <3>2. order'.over # 0
      BY <3>1
    <3>3. QED
      BY <3>2 DEF OrdersFunded
  <2>4. QED
    BY <1>6, <2>2, <2>3 DEF Lost
<1>7. CASE Book
  BY <1>7 DEF Book, OrdersFunded, Nothing
<1>8. CASE Sample
  BY <1>8 DEF Sample, OrdersFunded, Funded
<1>9. CASE Store
  BY <1>9 DEF Store, OrdersFunded, Funded
<1>10. CASE SyncFails
  BY <1>10 DEF SyncFails, OrdersFunded, Funded
<1>11. CASE UNCHANGED vars
  BY <1>11 DEF vars, OrdersFunded, Funded
<1>12. CASE Stray
  <2>1. UNCHANGED order
    BY <1>12 DEF Stray
  <2>2. CASE order = Nothing
    BY <2>1, <2>2 DEF OrdersFunded, Nothing
  <2>3. CASE order \in OrderSet
    <3>1. /\ order.asset \in Assets /\ order.qty \in Nat
          /\ account.cash \in Nat /\ account.lots[order.asset] \in Nat
      BY <2>3 DEF OrderSet, TypeOK, Balances
    <3>2. /\ account'.cash >= account.cash
          /\ account'.lots[order.asset] >= account.lots[order.asset]
      BY <1>12, <3>1, StrayType
    <3>3. account'.cash \in Nat /\ account'.lots[order.asset] \in Nat
      BY <1>12, <3>1, StrayType DEF Balances
    <3>4. Funded(order) => Funded(order)'
      BY <2>1, <3>1, <3>2, <3>3 DEF Funded
    <3>5. QED
      BY <2>1, <3>4 DEF OrdersFunded
  <2>4. QED
    BY <2>2, <2>3 DEF TypeOK
<1>13. QED
  BY <1>1, <1>2, <1>3, <1>4, <1>5, <1>6, <1>7, <1>8, <1>9, <1>10, <1>11, <1>12
     DEF Next, Signals, Reply

\* All parts of the invariant hold in every state.
THEOREM Invariant == Spec => []IInv
<1>1. IInv /\ [Next]_vars => IInv'
  BY TypeStep, CleanStep, ExactStep, RestingStep, FitsStep, ModestStep, FundedStep
     DEF IInv
<1>2. QED
  BY InvInit, <1>1, PTL DEF Spec

-----------------------------------------------------------------------------
\* Every state has its type.
THEOREM TypeCorrect == Spec => []TypeOK
<1>1. IInv => TypeOK
  BY DEF IInv
<1>2. QED
  BY Invariant, <1>1, PTL

\* Between two signals the cache is the account, save for named reasons, among
\* them whatever was executed or left open without an answer.
THEOREM CacheIsExact == Spec => []CacheExact
<1>1. IInv => CacheExact
  BY DEF IInv, Exact, CacheExact, Nothing
<1>2. QED
  BY Invariant, <1>1, PTL

\* An order that passed sizing and checks can be paid for, however commissions
\* were misread.
THEOREM OrdersAreFunded == Spec => []OrdersFunded
<1>1. IInv => OrdersFunded
  BY DEF IInv
<1>2. QED
  BY Invariant, <1>1, PTL

\* An entry keeps MinInterval's distance from the last answered order.
THEOREM EntriesAreSpaced == Spec => EntriesRest
<1>1. IInv /\ [Next]_vars =>
        [Buys /\ lastDone # Never => order.at - lastDone >= MinInterval]_vars
  BY DEF IInv, Resting, Buys
<1>2. QED
  BY Invariant, <1>1, PTL DEF Spec, EntriesRest

\* Only the exchange changes the account.
LEMMA OnlyOrdersTrade ==
    ASSUME Next, account' # account
    PROVE  Executed \/ Lost \/ Stray
BY DEF Next, Tick, Signals, Enter, Exit, Place, Reply, Refused,
       Book, Sample, Store, SyncFails

\* An entry that was checked against an exact cache keeps what is held of Btc
\* within the position limit, but for what was left open or bought untold.
THEOREM PositionIsCapped == Spec => PositionCapped
<1>1. IInv /\ [Next]_vars =>
        [Buys /\ order.drift = {}
           => account'.lots[Btc] <= MaxPosition + order.over]_vars
  <2> SUFFICES ASSUME IInv, Next, Buys, order.drift = {}
               PROVE  account'.lots[Btc] <= MaxPosition + order.over
    OBVIOUS
  <2>1. TypeOK /\ TypeOK' /\ order \in OrderSet
    BY TypeStep DEF IInv, Buys, TypeOK, Nothing
  <2>2. /\ account.lots[Btc] \in Nat /\ left[Btc] \in Nat
        /\ account'.lots[Btc] \in Nat /\ left'[Btc] \in Nat
        /\ order.qty \in Nat /\ order.over \in Nat /\ MaxPosition \in Nat
    BY <2>1, AccountAssumption DEF TypeOK, Balances, OrderSet
  <2>3. account.lots[Btc] + left[Btc] + order.qty <= MaxPosition + order.over
    BY DEF IInv, Fits, Buys
  <2>4. CASE \E coin \in FeeCoins(order) : AtExchange(coin)
    <3>1. account'.lots[Btc] <= account.lots[Btc] + order.qty
      BY <2>1, <2>4, ExchangeLots, AccountAssumption
    <3>2. QED
      BY <2>2, <2>3, <3>1
  <2>5. CASE StaysOpen
    <3>1. account'.lots[Btc] = account.lots[Btc]
      BY <2>1, <2>5, StaysOpenType DEF Buys
    <3>2. QED
      BY <2>2, <2>3, <3>1
  <2>6. CASE Stray
    <3>1. account'.lots[Btc] + left'[Btc] <= account.lots[Btc] + left[Btc]
      BY <2>1, <2>6, StrayType, AccountAssumption
    <3>2. QED
      BY <2>2, <2>3, <3>1
  <2>7. QED
    BY <2>4, <2>5, <2>6, OnlyOrdersTrade DEF Buys, Executed, Lost
<1>2. QED
  BY Invariant, <1>1, PTL DEF Spec, PositionCapped
=============================================================================
