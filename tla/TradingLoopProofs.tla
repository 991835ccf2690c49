-------------------------- MODULE TradingLoopProofs --------------------------
(***************************************************************************)
(* For every cooldown, pause, limit and length of the day: signals and     *)
(* answers balance, and as long as the strategy waits for its answers, its *)
(* position, entry price and totals of the day are the account's.          *)
(*                                                                         *)
(* An order is underway from its signal until its answer is handled: on    *)
(* the bus as a signal, being executed, or on the bus as an answer.        *)
(***************************************************************************)
EXTENDS TradingLoop, FiniteSetTheorems, SequenceTheorems, TLAPS

IsOrder(e) == e.kind \in {"signal", "filled", "rejected"}

\* The places on a bus where there is an order or its answer.
Orders(q) == {i \in DOMAIN q : IsOrder(q[i])}

\* The signal that an event on the bus is, or answers.
SignalOf(e) == IF e.kind = "signal" THEN e ELSE e.sig

\* Every signal that was not answered is underway.
Counted ==
    sent - answered = Cardinality(Orders(queue)) + IF exec = Idle THEN 0 ELSE 1

\* What the strategy believes while the order of signal g is underway: it has
\* the position it is about to get, and remembers what a failure must restore.
Believed(g) ==
    /\ st.priced
    /\ g.side = "BUY" => st.position = "Long"
    /\ g.side = "SELL" => /\ st.position = "None"
                          /\ g.pnl # 0
                          /\ st.exitPnl = g.pnl

\* An entry underway is one of today's trades until its day is over, and then
\* there are none.
Booked(g) ==
    /\ g.day <= st.day
    /\ g.side = "BUY" => IF g.day = st.day THEN st.trades > 0 ELSE st.trades = 0

\* What the account holds while g is underway, before or after the execution that
\* the answer tells of.
Carried(g, done) ==
    /\ g.side = "BUY" => ~st.sized /\ Owned = IF done THEN 1 ELSE 0
    /\ g.side = "SELL" => /\ st.sized /\ g.sized
                          /\ Owned = IF done THEN 0 ELSE 1

OneAtATime == "crossed" \notin history => sent - answered <= 1

Beliefs ==
    "crossed" \notin history =>
        /\ \A i \in Orders(queue) : Believed(SignalOf(queue[i]))
        /\ exec # Idle => Believed(exec)

Books ==
    history \cap {"crossed", "dayBack"} = {} =>
        /\ \A i \in Orders(queue) : Booked(SignalOf(queue[i]))
        /\ exec # Idle => Booked(exec)

\* The account follows the orders: it is where the strategy will be once the
\* order underway is settled.
Accounts ==
    "crossed" \notin history =>
        /\ \A i \in Orders(queue) :
             Carried(SignalOf(queue[i]), queue[i].kind = "filled")
        /\ exec # Idle => Carried(exec, FALSE)
        /\ Settled => IF st.position = "Long"
                      THEN Owned = 1 /\ st.priced /\ st.sized
                      ELSE Owned = 0

\* The clock starts at least a day after its origin.
Started == Start <= now

IInv ==
    /\ TypeOK
    /\ Counted
    /\ OneAtATime
    /\ Beliefs
    /\ Books
    /\ Accounts
    /\ TotalsAgree

-----------------------------------------------------------------------------
\* Counting the orders on a bus: how many there are after an event was added
\* at the end or taken from the front.
LEMMA OrdersFinite ==
    ASSUME NEW S, NEW q \in Seq(S)
    PROVE  /\ IsFiniteSet(Orders(q))
           /\ Cardinality(Orders(q)) \in Nat
<1>1. IsFiniteSet(1 .. Len(q))
  BY FS_Interval
<1>2. Orders(q) \in SUBSET (1 .. Len(q))
  BY DEF Orders
<1>3. QED
  BY <1>1, <1>2, FS_Subset, FS_CardinalityType

LEMMA OrdersAppend ==
    ASSUME NEW S, NEW q \in Seq(S), NEW e \in S
    PROVE  /\ Orders(Append(q, e)) =
                Orders(q) \cup (IF IsOrder(e) THEN {Len(q) + 1} ELSE {})
           /\ Cardinality(Orders(Append(q, e))) =
                Cardinality(Orders(q)) + (IF IsOrder(e) THEN 1 ELSE 0)
           /\ \A i \in Orders(q) : Append(q, e)[i] = q[i]
           /\ Append(q, e)[Len(q) + 1] = e
<1>1. /\ DOMAIN Append(q, e) = 1 .. Len(q) + 1
      /\ \A i \in 1 .. Len(q) : Append(q, e)[i] = q[i]
      /\ Append(q, e)[Len(q) + 1] = e
      /\ DOMAIN q = 1 .. Len(q)
      /\ Len(q) \in Nat
  OBVIOUS
<1>2. Orders(Append(q, e)) =
        Orders(q) \cup (IF IsOrder(e) THEN {Len(q) + 1} ELSE {})
  BY <1>1 DEF Orders, IsOrder
<1>3. Len(q) + 1 \notin Orders(q)
  BY <1>1 DEF Orders
<1>4. Cardinality(Orders(Append(q, e))) =
        Cardinality(Orders(q)) + (IF IsOrder(e) THEN 1 ELSE 0)
  <2>1. CASE IsOrder(e)
    BY <1>2, <1>3, <2>1, OrdersFinite, FS_AddElement
  <2>2. CASE ~IsOrder(e)
    <3>1. Orders(Append(q, e)) = Orders(q)
      BY <1>2, <2>2
    <3>2. QED
      BY <3>1, <2>2, OrdersFinite
  <2>3. QED
    BY <2>1, <2>2
<1>5. QED
  BY <1>1, <1>2, <1>4 DEF Orders

LEMMA OrdersTail ==
    ASSUME NEW S, NEW q \in Seq(S), q # <<>>
    PROVE  /\ Cardinality(Orders(Tail(q))) =
                Cardinality(Orders(q)) - (IF IsOrder(Head(q)) THEN 1 ELSE 0)
           /\ \A i \in Orders(Tail(q)) :
                i + 1 \in Orders(q) /\ Tail(q)[i] = q[i + 1]
           /\ IsOrder(Head(q)) => 1 \in Orders(q)
<1> DEFINE rest == Orders(q) \ {1}
           back == [i \in rest |-> i - 1]
<1>1. /\ DOMAIN q = 1 .. Len(q) /\ Len(q) \in Nat \ {0}
      /\ DOMAIN Tail(q) = 1 .. Len(q) - 1
      /\ \A i \in 1 .. Len(q) - 1 : Tail(q)[i] = q[i + 1]
      /\ Head(q) = q[1]
      /\ Tail(q) \in Seq(S)
  OBVIOUS
<1>2. \A i \in Orders(Tail(q)) : i \in Nat /\ i + 1 \in rest /\ Tail(q)[i] = q[i + 1]
  BY <1>1 DEF Orders
<1>3. \A i \in rest : i \in Nat /\ i - 1 \in Orders(Tail(q))
  <2> SUFFICES ASSUME NEW i \in rest PROVE i \in Nat /\ i - 1 \in Orders(Tail(q))
    OBVIOUS
  <2>1. i \in 2 .. Len(q) /\ IsOrder(q[i])
    BY <1>1 DEF Orders
  <2>2. i - 1 \in 1 .. Len(q) - 1 /\ Tail(q)[i - 1] = q[i]
    BY <1>1, <2>1
  <2>3. QED
    BY <1>1, <2>1, <2>2 DEF Orders
<1>4. back \in Bijection(rest, Orders(Tail(q)))
  <2>1. back \in [rest -> Orders(Tail(q))]
    BY <1>3
  <2>2. \A i, j \in rest : back[i] = back[j] => i = j
    BY <1>3
  <2>3. \A t \in Orders(Tail(q)) : \E i \in rest : back[i] = t
    <3> TAKE t \in Orders(Tail(q))
    <3>1. t + 1 \in rest /\ back[t + 1] = t
      BY <1>2
    <3>2. QED
      BY <3>1
  <2>4. QED
    BY <2>1, <2>2, <2>3 DEF Bijection, Injection, Surjection, IsInjective
<1>5. IsFiniteSet(Orders(q)) /\ IsFiniteSet(rest)
  BY OrdersFinite, FS_RemoveElement
<1>6. Cardinality(Orders(Tail(q))) = Cardinality(rest)
  <2>1. ExistsBijection(rest, Orders(Tail(q)))
    BY <1>4 DEF ExistsBijection
  <2>2. QED
    BY <1>5, <2>1, FS_Bijection
<1>7. Cardinality(rest) = Cardinality(Orders(q)) - (IF 1 \in Orders(q) THEN 1 ELSE 0)
  BY <1>5, OrdersFinite, FS_RemoveElement
<1>8. 1 \in Orders(q) <=> IsOrder(Head(q))
  BY <1>1 DEF Orders, IsOrder
<1>9. QED
  BY <1>2, <1>6, <1>7, <1>8

-----------------------------------------------------------------------------
\* What the events on the bus carry.
LEMMA EventFields ==
    ASSUME NEW e \in EventSet
    PROVE  /\ e.kind \in {"ticker", "kline", "signal", "filled", "rejected"}
           /\ e.kind = "ticker" => e.ts \in Nat /\ e.ok \in BOOLEAN
           /\ e.kind = "kline" => e.day \in Nat
           /\ e.kind = "signal" => e \in SignalSet
           /\ e.kind = "filled" => e.sig \in SignalSet
           /\ e.kind = "rejected" => /\ e.sig \in SignalSet
                                     /\ e.poor \in BOOLEAN
                                     /\ e.ts \in Nat
           /\ IsOrder(e) <=> e.kind \notin {"ticker", "kline"}
  BY DEF EventSet, SignalSet, IsOrder

LEMMA PausesNat == PoorPause \in Nat /\ ExitBlock \in Nat
  BY LoopAssumption

LEMMA DayNat == \A t \in Nat : Day(t) \in Nat
  BY LoopAssumption DEF Day

\* Looking at market data, the strategy may notice that the day has changed,
\* and changes nothing else that an order depends on.
Looked(s) ==
    /\ s \in StateSet
    /\ s.position = st.position
    /\ s.priced = st.priced
    /\ s.sized = st.sized
    /\ s.exitPnl = st.exitPnl
    /\ IF s.day = st.day THEN s.trades = st.trades /\ s.pnl = st.pnl
                         ELSE s.trades = 0 /\ s.pnl = 0

\* The state keeps its type when one field of it is set.
LEMMA FieldSet ==
    ASSUME NEW s \in StateSet
    PROVE  /\ \A v \in {"None", "Long"} : [s EXCEPT !.position = v] \in StateSet
           /\ \A v \in BOOLEAN : /\ [s EXCEPT !.priced = v] \in StateSet
                                 /\ [s EXCEPT !.sized = v] \in StateSet
           /\ \A v \in Int : [s EXCEPT !.pnl = v] \in StateSet
           /\ \A v \in {-1, 0, 1} : [s EXCEPT !.exitPnl = v] \in StateSet
           /\ \A v \in 0 .. 2 : [s EXCEPT !.failures = v] \in StateSet
           /\ \A v \in Nat : /\ [s EXCEPT !.trades = v] \in StateSet
                             /\ [s EXCEPT !.streak = v] \in StateSet
                             /\ [s EXCEPT !.blockedUntil = v] \in StateSet
                             /\ [s EXCEPT !.coolUntil = v] \in StateSet
                             /\ [s EXCEPT !.lastTrade = v] \in StateSet
                             /\ [s EXCEPT !.lastData = v] \in StateSet
                             /\ [s EXCEPT !.day = v] \in StateSet
<1> USE DEF StateSet
<1>1. \A v \in {"None", "Long"} : [s EXCEPT !.position = v] \in StateSet
  OBVIOUS
<1>2. \A v \in BOOLEAN : [s EXCEPT !.priced = v] \in StateSet
  OBVIOUS
<1>3. \A v \in BOOLEAN : [s EXCEPT !.sized = v] \in StateSet
  OBVIOUS
<1>4. \A v \in Int : [s EXCEPT !.pnl = v] \in StateSet
  OBVIOUS
<1>5. \A v \in {-1, 0, 1} : [s EXCEPT !.exitPnl = v] \in StateSet
  OBVIOUS
<1>6. \A v \in 0 .. 2 : [s EXCEPT !.failures = v] \in StateSet
  OBVIOUS
<1>7. \A v \in Nat : [s EXCEPT !.trades = v] \in StateSet
  OBVIOUS
<1>8. \A v \in Nat : [s EXCEPT !.streak = v] \in StateSet
  OBVIOUS
<1>9. \A v \in Nat : [s EXCEPT !.blockedUntil = v] \in StateSet
  OBVIOUS
<1>10. \A v \in Nat : [s EXCEPT !.coolUntil = v] \in StateSet
  OBVIOUS
<1>11. \A v \in Nat : [s EXCEPT !.lastTrade = v] \in StateSet
  OBVIOUS
<1>12. \A v \in Nat : [s EXCEPT !.lastData = v] \in StateSet
  OBVIOUS
<1>13. \A v \in Nat : [s EXCEPT !.day = v] \in StateSet
  OBVIOUS
<1> HIDE DEF StateSet
<1>14. QED
  BY <1>1, <1>2, <1>3, <1>4, <1>5, <1>6, <1>7, <1>8, <1>9, <1>10, <1>11,
     <1>12, <1>13

LEMMA ResetLooked ==
    ASSUME TypeOK, NEW d \in Nat, NEW t \in Nat
    PROVE  /\ Looked(st)
           /\ Looked([st EXCEPT !.lastData = t])
           /\ Looked(DailyReset(st, d))
           /\ Looked(DailyReset([st EXCEPT !.lastData = t], d))
<1> DEFINE seen == [st EXCEPT !.lastData = t]
<1>1. st \in StateSet
  BY DEF TypeOK
<1>2. Looked(st)
  BY <1>1 DEF Looked
<1>3. seen \in StateSet
  BY <1>1 DEF StateSet
<1>4. Looked(seen) /\ seen.day = st.day
  BY <1>1, <1>3 DEF StateSet, Looked
<1> HIDE DEF seen
<1>5. ASSUME NEW s \in StateSet, s.day = st.day, Looked(s)
      PROVE  Looked(DailyReset(s, d))
  <2>1. CASE d = s.day
    BY <1>5, <2>1 DEF DailyReset
  <2> DEFINE r == [s EXCEPT !.day = d, !.trades = 0, !.pnl = 0,
                            !.streak = 0, !.coolUntil = 0]
  <2>2. CASE d # s.day
    <3>1. DailyReset(s, d) = r
      BY <2>2 DEF DailyReset
    <3>2. r \in StateSet
      <4>1. [s EXCEPT !.day = d] \in StateSet
        BY <1>5, FieldSet
      <4>2. [s EXCEPT !.day = d, !.trades = 0] \in StateSet
        BY <4>1, FieldSet
      <4>3. [s EXCEPT !.day = d, !.trades = 0, !.pnl = 0] \in StateSet
        <5>1. \A v \in Int :
                [s EXCEPT !.day = d, !.trades = 0, !.pnl = v] \in StateSet
          BY <4>2, FieldSet
        <5>2. 0 \in Int
          OBVIOUS
        <5>3. QED
          BY <5>1, <5>2, Zenon
      <4>4. [s EXCEPT !.day = d, !.trades = 0, !.pnl = 0, !.streak = 0]
              \in StateSet
        BY <4>3, FieldSet
      <4>5. QED
        BY <4>4, FieldSet
    <3>3. /\ r.position = s.position /\ r.priced = s.priced
          /\ r.sized = s.sized /\ r.exitPnl = s.exitPnl
          /\ r.trades = 0 /\ r.pnl = 0 /\ r.day = d
      BY <1>5 DEF StateSet
    <3> HIDE DEF r
    <3>4. QED
      BY <1>5, <2>2, <3>1, <3>2, <3>3 DEF Looked
  <2>3. QED
    BY <2>1, <2>2
<1>6. Looked(DailyReset(st, d)) /\ Looked(DailyReset(seen, d))
  BY <1>1, <1>2, <1>3, <1>4, <1>5
<1>7. QED
  BY <1>2, <1>4, <1>6 DEF seen

\* The state after an exit was signalled in state s.
Exited(s, after, pnl) ==
    /\ after \in StateSet
    /\ after.position = "None"
    /\ after.priced = s.priced
    /\ after.sized = s.sized
    /\ after.exitPnl = pnl
    /\ after.trades = s.trades
    /\ after.pnl = s.pnl + pnl
    /\ after.day = s.day

\* The state after an entry was signalled in state s.
Entered(s, after) ==
    /\ after \in StateSet
    /\ after.position = "Long"
    /\ after.priced
    /\ ~after.sized
    /\ after.trades = s.trades + 1
    /\ after.pnl = s.pnl
    /\ after.day = s.day

SignalsExit(s, after, pnl) ==
    /\ Looked(s) /\ Holding(s) /\ pnl \in {-1, 1}
    /\ Exited(s, after, pnl)
    /\ Exit(s, after, pnl)

SignalsEntry(s, after) ==
    /\ Looked(s) /\ s.position = "None"
    /\ Entered(s, after)
    /\ Emit(Signal("BUY", FALSE, 0, s.day), after,
            [Totals(s) EXCEPT !.entries = @ + 1], Back(s))

LEMMA PauseNat == \A n \in Nat \ {0} : Pause(n) \in Nat
<1>1. \A n \in Nat \ {0} : (IF n < 4 THEN n ELSE 4) \in 1 .. 4
  OBVIOUS
<1>2. LossPause \in [1 .. 4 -> Nat]
  BY LoopAssumption
<1>3. QED
  BY <1>1, <1>2 DEF Pause

\* Leaving and entering change the fields that they name, and keep the types.
LEMMA LeaveExits ==
    ASSUME NEW s \in StateSet, NEW pnl \in {-1, 1}
    PROVE  /\ Exited(s, Leave(s, pnl), pnl)
           /\ Leave(s, pnl).streak \in Nat
<1> DEFINE r == [s EXCEPT !.position = "None", !.pnl = @ + pnl, !.exitPnl = pnl]
<1>1. r \in StateSet
  <2>1. s.pnl + pnl \in Int /\ pnl \in {-1, 0, 1}
    BY DEF StateSet
  <2>2. QED
    BY <2>1, FieldSet
<1>2. /\ r.position = "None" /\ r.priced = s.priced /\ r.sized = s.sized
      /\ r.exitPnl = pnl /\ r.trades = s.trades /\ r.pnl = s.pnl + pnl
      /\ r.day = s.day /\ r.streak = s.streak
  BY DEF StateSet
<1>3. s.streak \in Nat
  BY DEF StateSet
<1>4. Leave(s, pnl) = r
  BY DEF Leave
<1> HIDE DEF r
<1>5. QED
  BY <1>1, <1>2, <1>3, <1>4 DEF Exited

LEMMA StampKeepsExited ==
    ASSUME NEW s \in StateSet, NEW pnl, NEW r, Exited(s, r, pnl), r.streak \in Nat,
           NEW t \in Nat
    PROVE  /\ Exited(s, [r EXCEPT !.lastTrade = t], pnl)
           /\ [r EXCEPT !.lastTrade = t].streak = r.streak
<1> DEFINE q == [r EXCEPT !.lastTrade = t]
<1>1. r \in StateSet
  BY DEF Exited
<1>2. q \in StateSet
  BY <1>1 DEF StateSet
<1>3. /\ q.position = r.position /\ q.priced = r.priced /\ q.sized = r.sized
      /\ q.exitPnl = r.exitPnl /\ q.trades = r.trades /\ q.pnl = r.pnl
      /\ q.day = r.day /\ q.streak = r.streak
  BY <1>1 DEF StateSet
<1> HIDE DEF q
<1>4. Exited(s, q, pnl)
  BY <1>2, <1>3 DEF Exited
<1>5. QED
  BY <1>3, <1>4 DEF q

LEMMA StreakKeepsExited ==
    ASSUME NEW s \in StateSet, NEW pnl, NEW r, Exited(s, r, pnl), r.streak \in Nat,
           NEW t \in Nat, NEW stop
    PROVE  Exited(s, Streak(r, t, pnl, stop), pnl)
<1>1. r \in StateSet
  BY DEF Exited
<1>2. ASSUME NEW n \in Nat, NEW c \in Nat
      PROVE  Exited(s, [r EXCEPT !.streak = n, !.coolUntil = c], pnl)
  <2> DEFINE q == [r EXCEPT !.streak = n, !.coolUntil = c]
  <2>1. q \in StateSet
    BY <1>1 DEF StateSet
  <2>2. /\ q.position = r.position /\ q.priced = r.priced /\ q.sized = r.sized
        /\ q.exitPnl = r.exitPnl /\ q.trades = r.trades /\ q.pnl = r.pnl
        /\ q.day = r.day
    BY <1>1 DEF StateSet
  <2> HIDE DEF q
  <2>3. Exited(s, q, pnl)
    BY <2>1, <2>2 DEF Exited
  <2>4. QED
    BY <2>3 DEF q
<1>3. Pause(r.streak + 1) \in Nat
  BY PauseNat
<1>4. t + Pause(r.streak + 1) \in Nat
  BY <1>3
<1>5. \/ Streak(r, t, pnl, stop) = r
      \/ Streak(r, t, pnl, stop) = [r EXCEPT !.streak = 0, !.coolUntil = 0]
      \/ Streak(r, t, pnl, stop) = [r EXCEPT !.streak = r.streak + 1,
                                             !.coolUntil = t + Pause(r.streak + 1)]
  BY DEF Streak
<1>6. Exited(s, [r EXCEPT !.streak = 0, !.coolUntil = 0], pnl)
  BY <1>2
<1>7. Exited(s, [r EXCEPT !.streak = r.streak + 1,
                          !.coolUntil = t + Pause(r.streak + 1)], pnl)
  <2>1. r.streak + 1 \in Nat
    OBVIOUS
  <2>2. QED
    BY <1>2, <1>4, <2>1
<1>8. QED
  BY <1>5, <1>6, <1>7

LEMMA EntryEnters ==
    ASSUME NEW s \in StateSet, NEW t \in Nat
    PROVE  Entered(s, [s EXCEPT !.position = "Long", !.priced = TRUE,
                                !.sized = FALSE, !.lastTrade = t,
                                !.trades = @ + 1, !.failures = 0])
<1> DEFINE r == [s EXCEPT !.position = "Long", !.priced = TRUE,
                          !.sized = FALSE, !.lastTrade = t,
                          !.trades = @ + 1, !.failures = 0]
<1>1. r \in StateSet
  <2>1. s.trades + 1 \in Nat
    BY DEF StateSet
  <2>2. [s EXCEPT !.position = "Long"] \in StateSet
    BY FieldSet
  <2>3. [s EXCEPT !.position = "Long", !.priced = TRUE] \in StateSet
    BY <2>2, FieldSet
  <2>4. [s EXCEPT !.position = "Long", !.priced = TRUE, !.sized = FALSE]
          \in StateSet
    BY <2>3, FieldSet
  <2>5. [s EXCEPT !.position = "Long", !.priced = TRUE, !.sized = FALSE,
                  !.lastTrade = t] \in StateSet
    BY <2>4, FieldSet
  <2>6. [s EXCEPT !.position = "Long", !.priced = TRUE, !.sized = FALSE,
                  !.lastTrade = t, !.trades = s.trades + 1] \in StateSet
    BY <2>1, <2>5, FieldSet
  <2>7. r = [[s EXCEPT !.position = "Long", !.priced = TRUE, !.sized = FALSE,
                       !.lastTrade = t, !.trades = s.trades + 1]
              EXCEPT !.failures = 0]
    BY DEF StateSet
  <2>8. \A v \in 0 .. 2 :
          [[s EXCEPT !.position = "Long", !.priced = TRUE, !.sized = FALSE,
                     !.lastTrade = t, !.trades = s.trades + 1]
           EXCEPT !.failures = v] \in StateSet
    BY <2>6, FieldSet
  <2>9. QED
    BY <2>7, <2>8
<1>2. /\ r.position = "Long" /\ r.priced /\ ~r.sized
      /\ r.trades = s.trades + 1 /\ r.pnl = s.pnl /\ r.day = s.day
  BY DEF StateSet
<1> HIDE DEF r
<1>3. Entered(s, r)
  BY <1>1, <1>2 DEF Entered
<1>4. QED
  BY <1>3 DEF r

LEMMA TickerCases ==
    ASSUME TypeOK, NEW e \in EventSet, e.kind = "ticker", OnBookTicker(e)
    PROVE  \/ \E s : Looked(s) /\ Quiet(s)
           \/ \E s, after, pnl : SignalsExit(s, after, pnl)
           \/ \E s, after : SignalsEntry(s, after)
<1> DEFINE seen == [st EXCEPT !.lastData = e.ts]
           s == DailyReset(seen, Day(e.ts))
<1>1. e.ts \in Nat /\ Day(e.ts) \in Nat
  BY EventFields, DayNat
<1>2. Looked(seen) /\ Looked(s)
  BY <1>1, ResetLooked
<1>3. s \in StateSet
  BY <1>2 DEF Looked
<1>4. Quiet(seen) \/ Quiet(s) \/ TickerExit(s, e.ts) \/ TickerEntry(s, e.ts)
  BY DEF OnBookTicker
<1>5. CASE Quiet(seen) \/ Quiet(s)
  BY <1>2, <1>5
<1>6. CASE TickerExit(s, e.ts)
  <2> HIDE DEF s
  <2>1. Holding(s)
    BY <1>6 DEF TickerExit
  <2>2. PICK pnl \in {-1, 1}, stop \in BOOLEAN :
          Exit(s, Streak([Leave(s, pnl) EXCEPT !.lastTrade = e.ts],
                         e.ts, pnl, stop), pnl)
    BY <1>6 DEF TickerExit
  <2> DEFINE left == [Leave(s, pnl) EXCEPT !.lastTrade = e.ts]
             after == Streak(left, e.ts, pnl, stop)
  <2>3. Exited(s, left, pnl) /\ left.streak \in Nat
    BY <1>1, <1>3, LeaveExits, StampKeepsExited
  <2>4. Exited(s, after, pnl)
    BY <1>1, <1>3, <2>3, StreakKeepsExited
  <2>5. SignalsExit(s, after, pnl)
    BY <1>2, <2>1, <2>2, <2>4 DEF SignalsExit
  <2>6. QED
    BY <2>5
<1>7. CASE TickerEntry(s, e.ts)
  <2> DEFINE after == [s EXCEPT !.position = "Long", !.priced = TRUE,
                                !.sized = FALSE, !.lastTrade = e.ts,
                                !.trades = @ + 1, !.failures = 0]
  <2> HIDE DEF s
  <2>1. Entered(s, after)
    BY <1>1, <1>3, EntryEnters
  <2>2. s.position = "None"
    BY <1>7 DEF TickerEntry, MayEnter
  <2>3. SignalsEntry(s, after)
    BY <1>2, <1>7, <2>1, <2>2 DEF TickerEntry, SignalsEntry
  <2>4. QED
    BY <2>3
<1>8. QED
  BY <1>4, <1>5, <1>6, <1>7

LEMMA KlineCases ==
    ASSUME TypeOK, NEW e \in EventSet, e.kind = "kline", OnKline(e)
    PROVE  \/ \E s : Looked(s) /\ Quiet(s)
           \/ \E s, after, pnl : SignalsExit(s, after, pnl)
<1>1. e.day \in Nat /\ Looked(st)
  BY EventFields, ResetLooked
<1>2. CASE Holding(st) /\ Stale
  <2> DEFINE s == DailyReset(st, e.day)
  <2>1. Looked(s)
    BY <1>1, ResetLooked
  <2>2. PICK pnl \in {-1, 1} : Exit(s, Leave(s, pnl), pnl)
    BY <1>2 DEF OnKline
  <2> HIDE DEF s
  <2>3. Exited(s, Leave(s, pnl), pnl)
    BY <2>1, LeaveExits DEF Looked
  <2>4. Holding(s)
    BY <1>2, <2>1 DEF Looked, Holding
  <2>5. SignalsExit(s, Leave(s, pnl), pnl)
    BY <2>1, <2>2, <2>3, <2>4 DEF SignalsExit
  <2>6. QED
    BY <2>5
<1>3. CASE ~(Holding(st) /\ Stale)
  BY <1>1, <1>3 DEF OnKline
<1>4. QED
  BY <1>2, <1>3

-----------------------------------------------------------------------------
\* Where the orders underway are.
LEMMA NoneUnderway ==
    ASSUME TypeOK, Counted, Settled
    PROVE  Orders(queue) = {} /\ exec = Idle /\ sent = answered
<1>1. /\ IsFiniteSet(Orders(queue))
      /\ Cardinality(Orders(queue)) \in Nat
  BY OrdersFinite DEF TypeOK
<1>2. sent \in Nat /\ answered \in Nat /\ sent <= answered
  BY DEF TypeOK, Settled, Outstanding
<1>3. Cardinality(Orders(queue)) = 0 /\ exec = Idle /\ sent = answered
  BY <1>1, <1>2 DEF Counted, TypeOK
<1>4. QED
  BY <1>1, <1>3, FS_EmptySet

LEMMA OnlyExec ==
    ASSUME TypeOK, Counted, OneAtATime, exec # Idle
    PROVE  /\ answered < sent
           /\ "crossed" \notin history =>
                Orders(queue) = {} /\ sent = answered + 1
<1>1. /\ IsFiniteSet(Orders(queue))
      /\ Cardinality(Orders(queue)) \in Nat
  BY OrdersFinite DEF TypeOK
<1>2. sent \in Nat /\ answered \in Nat
  BY DEF TypeOK
<1>3. sent - answered = Cardinality(Orders(queue)) + 1
  BY DEF Counted
<1>4. "crossed" \notin history =>
        Cardinality(Orders(queue)) = 0 /\ sent = answered + 1
  BY <1>1, <1>2, <1>3 DEF OneAtATime
<1>5. QED
  BY <1>1, <1>2, <1>3, <1>4, FS_EmptySet

LEMMA OnlyHead ==
    ASSUME TypeOK, Counted, OneAtATime, queue # <<>>, exec = Idle,
           IsOrder(Head(queue))
    PROVE  /\ answered < sent
           /\ 1 \in Orders(queue) /\ queue[1] = Head(queue)
           /\ "crossed" \notin history =>
                Orders(Tail(queue)) = {} /\ sent = answered + 1
<1>1. /\ Cardinality(Orders(Tail(queue))) = Cardinality(Orders(queue)) - 1
      /\ 1 \in Orders(queue)
  BY OrdersTail DEF TypeOK
<1>2. queue \in Seq(EventSet) /\ Tail(queue) \in Seq(EventSet)
  BY DEF TypeOK
<1>3. /\ IsFiniteSet(Orders(Tail(queue)))
      /\ Cardinality(Orders(Tail(queue))) \in Nat
      /\ Cardinality(Orders(queue)) \in Nat
  BY <1>2, OrdersFinite
<1>4. sent \in Nat /\ answered \in Nat
  BY DEF TypeOK
<1>5. sent - answered = Cardinality(Orders(Tail(queue))) + 1
  BY <1>1, <1>3 DEF Counted
<1>6. "crossed" \notin history =>
        Cardinality(Orders(Tail(queue))) = 0 /\ sent = answered + 1
  BY <1>3, <1>4, <1>5 DEF OneAtATime
<1>7. queue[1] = Head(queue)
  BY <1>2
<1>8. QED
  BY <1>1, <1>3, <1>4, <1>5, <1>6, <1>7, FS_EmptySet

LEMMA SignalType ==
    ASSUME NEW side \in SideOf, NEW sized \in BOOLEAN, NEW pnl \in {-1, 0, 1},
           NEW d \in Nat
    PROVE  /\ Signal(side, sized, pnl, d) \in SignalSet
           /\ Signal(side, sized, pnl, d) \in EventSet
           /\ Signal(side, sized, pnl, d).side = side
           /\ Signal(side, sized, pnl, d).sized = sized
           /\ Signal(side, sized, pnl, d).pnl = pnl
           /\ Signal(side, sized, pnl, d).day = d
           /\ Signal(side, sized, pnl, d).kind = "signal"
  BY DEF Signal, SignalSet, EventSet

\* A signal counts as underway, and unless it crosses an earlier one, it is
\* the only one.
LEMMA EmitCounts ==
    ASSUME TypeOK, Counted, OneAtATime, queue # <<>>, exec = Idle, exec' = exec,
           ~IsOrder(Head(queue)),
           NEW g \in SignalSet, g \in EventSet, g.kind = "signal",
           NEW s, NEW totals, NEW noted, Emit(g, s, totals, noted)
    PROVE  /\ Counted' /\ OneAtATime'
           /\ queue' \in Seq(EventSet)
           /\ sent' \in Nat /\ answered' \in 0 .. sent' /\ ~Settled'
           /\ "crossed" \notin history' =>
                /\ Settled
                /\ \A i \in Orders(queue') : queue'[i] = g
<1>1. /\ queue \in Seq(EventSet) /\ Tail(queue) \in Seq(EventSet)
      /\ queue' = Append(Tail(queue), g)
      /\ queue' \in Seq(EventSet)
  BY DEF TypeOK, Emit
<1>2. IsOrder(g)
  BY DEF IsOrder
<1>3. Cardinality(Orders(Tail(queue))) = Cardinality(Orders(queue))
  <2>1. Cardinality(Orders(queue)) \in Nat
    BY <1>1, OrdersFinite
  <2>2. QED
    BY <1>1, <2>1, OrdersTail
<1>4. /\ Cardinality(Orders(queue')) = Cardinality(Orders(queue)) + 1
      /\ Orders(queue') = Orders(Tail(queue)) \cup {Len(Tail(queue)) + 1}
      /\ queue'[Len(Tail(queue)) + 1] = g
  <2> DEFINE q == Tail(queue)
  <2>1. q \in Seq(EventSet) /\ queue' = Append(q, g)
    BY <1>1
  <2> HIDE DEF q
  <2>2. /\ Orders(Append(q, g)) = Orders(q) \cup {Len(q) + 1}
        /\ Cardinality(Orders(Append(q, g))) = Cardinality(Orders(q)) + 1
        /\ Append(q, g)[Len(q) + 1] = g
    BY <1>2, <2>1, OrdersAppend
  <2>3. QED
    BY <1>3, <2>1, <2>2 DEF q
<1>5. /\ sent' = sent + 1 /\ answered' = answered
      /\ sent \in Nat /\ answered \in 0 .. sent
  BY DEF Emit, TypeOK
<1>6. Cardinality(Orders(queue)) \in Nat
  BY <1>1, OrdersFinite
<1>7. Counted'
  BY <1>4, <1>5, <1>6 DEF Counted
<1>8. "crossed" \notin history' => Settled /\ "crossed" \notin history
  BY DEF Emit, Settled
<1>9. OneAtATime'
  BY <1>5, <1>8, NoneUnderway DEF OneAtATime
<1>10. ~Settled'
  BY <1>5 DEF Settled, Outstanding
<1>11. ASSUME "crossed" \notin history'
       PROVE  \A i \in Orders(queue') : queue'[i] = g
  <2>1. Orders(queue) = {}
    BY <1>8, <1>11, NoneUnderway
  <2>2. Cardinality(Orders(Tail(queue))) = 0
    BY <1>3, <2>1, FS_EmptySet
  <2>3. IsFiniteSet(Orders(Tail(queue)))
    BY <1>1, OrdersFinite
  <2>4. Orders(Tail(queue)) = {}
    BY <2>2, <2>3, FS_EmptySet
  <2>5. QED
    BY <1>4, <2>4
<1>12. sent' \in Nat /\ answered' \in 0 .. sent'
  BY <1>5
<1>13. QED
  BY <1>1, <1>7, <1>8, <1>9, <1>10, <1>11, <1>12

-----------------------------------------------------------------------------
\* Every step keeps the invariant, one kind of step at a time.
LEMMA ExitKeeps ==
    ASSUME IInv, queue # <<>>, exec = Idle, ~IsOrder(Head(queue)),
           UNCHANGED <<now, exec, account>>,
           NEW s, NEW after, NEW pnl, SignalsExit(s, after, pnl)
    PROVE  IInv'
<1> DEFINE g == Signal("SELL", s.sized, pnl, s.day)
<1>1. /\ s \in StateSet /\ s.day \in Nat /\ s.sized \in BOOLEAN
      /\ s.position = "Long" /\ s.priced /\ s.pnl \in Int
  BY DEF SignalsExit, Looked, Holding, StateSet
<1>2. pnl \in {-1, 1}
  BY DEF SignalsExit
<1>3. /\ g \in SignalSet /\ g \in EventSet /\ g.kind = "signal"
      /\ g.side = "SELL" /\ g.sized = s.sized /\ g.pnl = pnl /\ g.day = s.day
  BY <1>1, <1>2, SignalType DEF SideOf
<1>4. Emit(g, after, [Totals(s) EXCEPT !.booked = @ + pnl], Back(s))
  BY DEF SignalsExit, Exit
<1> HIDE DEF g
<1>5. TypeOK /\ Counted /\ OneAtATime
  BY DEF IInv
<1>6. /\ Counted' /\ OneAtATime'
      /\ queue' \in Seq(EventSet)
      /\ sent' \in Nat /\ answered' \in 0 .. sent' /\ ~Settled'
      /\ "crossed" \notin history' =>
           /\ Settled
           /\ \A i \in Orders(queue') : queue'[i] = g
  BY <1>3, <1>4, <1>5, EmitCounts
<1>7. /\ st' = after
      /\ history \subseteq history'
      /\ history' \subseteq history \cup {"dayBack", "crossed"}
      /\ day' = [Totals(s) EXCEPT !.booked = @ + pnl]
  BY <1>4 DEF Emit, Back
<1>8. Exited(s, after, pnl)
  BY DEF SignalsExit
<1>9. /\ day \in [entries : Int, booked : Int]
      /\ Totals(s) \in [entries : Int, booked : Int]
      /\ Totals(s).entries = IF s.day = st.day THEN day.entries ELSE 0
      /\ Totals(s).booked = IF s.day = st.day THEN day.booked ELSE 0
  BY <1>5 DEF TypeOK, Totals
<1>10. /\ day' \in [entries : Int, booked : Int]
       /\ day'.entries = Totals(s).entries
       /\ day'.booked = Totals(s).booked + pnl
  BY <1>2, <1>7, <1>9
<1>11. TypeOK'
  <2>1. st' \in StateSet
    BY <1>7, <1>8 DEF Exited
  <2>2. /\ now' \in Nat /\ account' \in Nat /\ exec' \in SignalSet \cup {Idle}
        /\ adrift' \in Int
    BY <1>4, <1>5 DEF TypeOK, Emit
  <2>3. history' \subseteq {"crossed", "dayBack", "lateRollback"}
    BY <1>5, <1>7 DEF TypeOK
  <2>4. QED
    BY <1>6, <1>10, <2>1, <2>2, <2>3 DEF TypeOK
<1>12. SignalOf(g) = g /\ g.kind # "filled"
  BY <1>3 DEF SignalOf
<1>13. Beliefs'
  <2>1. Believed(g)'
    BY <1>1, <1>2, <1>3, <1>7, <1>8 DEF Believed, Exited
  <2>2. QED
    BY <1>6, <1>12, <2>1 DEF Beliefs
<1>14. Books'
  <2>1. Booked(g)'
    BY <1>1, <1>3, <1>7, <1>8 DEF Booked, Exited
  <2>2. QED
    BY <1>6, <1>12, <2>1 DEF Books
<1>15. Accounts'
  <2> SUFFICES ASSUME "crossed" \notin history'
               PROVE  Carried(g, FALSE)'
    BY <1>6, <1>12 DEF Accounts
  <2>1. "crossed" \notin history /\ Settled
    BY <1>6, <1>7
  <2>2. st.position = "Long" /\ s.sized = st.sized
    BY <1>1 DEF SignalsExit, Looked
  <2>3. Owned = 1 /\ st.sized
    BY <2>1, <2>2 DEF IInv, Accounts
  <2>4. Owned' = Owned
    BY <1>4 DEF Emit, Owned
  <2>5. QED
    BY <1>3, <1>7, <1>8, <2>2, <2>3, <2>4 DEF Carried, Exited
<1>16. TotalsAgree'
  <2> SUFFICES ASSUME history' \cap {"crossed", "dayBack", "lateRollback"} = {}
               PROVE  st'.trades = day'.entries /\ st'.pnl = day'.booked
    BY DEF TotalsAgree
  <2>1. st.trades = day.entries /\ st.pnl = day.booked
    BY <1>7 DEF IInv, TotalsAgree
  <2>2. s.trades = Totals(s).entries /\ s.pnl = Totals(s).booked
    BY <1>9, <2>1 DEF SignalsExit, Looked
  <2>3. QED
    BY <1>7, <1>8, <1>10, <2>2 DEF Exited
<1>17. QED
  BY <1>6, <1>11, <1>13, <1>14, <1>15, <1>16 DEF IInv

LEMMA EntryKeeps ==
    ASSUME IInv, queue # <<>>, exec = Idle, ~IsOrder(Head(queue)),
           UNCHANGED <<now, exec, account>>,
           NEW s, NEW after, SignalsEntry(s, after)
    PROVE  IInv'
<1> DEFINE g == Signal("BUY", FALSE, 0, s.day)
<1>1. /\ s \in StateSet /\ s.day \in Nat /\ s.trades \in Nat
      /\ s.position = "None" /\ s.pnl \in Int
  BY DEF SignalsEntry, Looked, StateSet
<1>2. /\ g \in SignalSet /\ g \in EventSet /\ g.kind = "signal"
      /\ g.side = "BUY" /\ g.day = s.day
  <2>1. g \in SignalSet /\ g.kind = "signal" /\ g.side = "BUY" /\ g.day = s.day
    BY <1>1 DEF Signal, SignalSet, SideOf
  <2>2. QED
    BY <2>1 DEF EventSet
<1>3. Emit(g, after, [Totals(s) EXCEPT !.entries = @ + 1], Back(s))
  BY DEF SignalsEntry
<1> HIDE DEF g
<1>4. TypeOK /\ Counted /\ OneAtATime
  BY DEF IInv
<1>5. /\ Counted' /\ OneAtATime'
      /\ queue' \in Seq(EventSet)
      /\ sent' \in Nat /\ answered' \in 0 .. sent' /\ ~Settled'
      /\ "crossed" \notin history' =>
           /\ Settled
           /\ \A i \in Orders(queue') : queue'[i] = g
  BY <1>2, <1>3, <1>4, EmitCounts
<1>6. /\ st' = after
      /\ history \subseteq history'
      /\ history' \subseteq history \cup {"dayBack", "crossed"}
      /\ day' = [Totals(s) EXCEPT !.entries = @ + 1]
  BY <1>3 DEF Emit, Back
<1>7. Entered(s, after)
  BY DEF SignalsEntry
<1>8. /\ day \in [entries : Int, booked : Int]
      /\ Totals(s) \in [entries : Int, booked : Int]
      /\ Totals(s).entries = IF s.day = st.day THEN day.entries ELSE 0
      /\ Totals(s).booked = IF s.day = st.day THEN day.booked ELSE 0
  BY <1>4 DEF TypeOK, Totals
<1>9. /\ day' \in [entries : Int, booked : Int]
      /\ day'.entries = Totals(s).entries + 1
      /\ day'.booked = Totals(s).booked
  BY <1>6, <1>8
<1>10. TypeOK'
  <2>1. st' \in StateSet
    BY <1>6, <1>7 DEF Entered
  <2>2. /\ now' \in Nat /\ account' \in Nat /\ exec' \in SignalSet \cup {Idle}
        /\ adrift' \in Int
    BY <1>3, <1>4 DEF TypeOK, Emit
  <2>3. history' \subseteq {"crossed", "dayBack", "lateRollback"}
    BY <1>4, <1>6 DEF TypeOK
  <2>4. QED
    BY <1>5, <1>9, <2>1, <2>2, <2>3 DEF TypeOK
<1>11. SignalOf(g) = g /\ g.kind # "filled"
  BY <1>2 DEF SignalOf
<1>12. Beliefs'
  <2>1. Believed(g)'
    BY <1>2, <1>6, <1>7 DEF Believed, Entered
  <2>2. QED
    BY <1>5, <1>11, <2>1 DEF Beliefs
<1>13. Books'
  <2>1. Booked(g)'
    BY <1>1, <1>2, <1>6, <1>7 DEF Booked, Entered
  <2>2. QED
    BY <1>5, <1>11, <2>1 DEF Books
<1>14. Accounts'
  <2> SUFFICES ASSUME "crossed" \notin history'
               PROVE  Carried(g, FALSE)'
    BY <1>5, <1>11 DEF Accounts
  <2>1. "crossed" \notin history /\ Settled
    BY <1>5, <1>6
  <2>2. st.position = "None"
    BY <1>1 DEF SignalsEntry, Looked
  <2>3. Owned = 0
    BY <2>1, <2>2 DEF IInv, Accounts
  <2>4. Owned' = Owned
    BY <1>3 DEF Emit, Owned
  <2>5. QED
    BY <1>2, <1>6, <1>7, <2>3, <2>4 DEF Carried, Entered
<1>15. TotalsAgree'
  <2> SUFFICES ASSUME history' \cap {"crossed", "dayBack", "lateRollback"} = {}
               PROVE  st'.trades = day'.entries /\ st'.pnl = day'.booked
    BY DEF TotalsAgree
  <2>1. st.trades = day.entries /\ st.pnl = day.booked
    BY <1>6 DEF IInv, TotalsAgree
  <2>2. s.trades = Totals(s).entries /\ s.pnl = Totals(s).booked
    BY <1>8, <2>1 DEF SignalsEntry, Looked
  <2>3. QED
    BY <1>6, <1>7, <1>9, <2>2 DEF Entered
<1>16. QED
  BY <1>5, <1>10, <1>12, <1>13, <1>14, <1>15 DEF IInv

LEMMA QuietKeeps ==
    ASSUME IInv, queue # <<>>, exec = Idle, ~IsOrder(Head(queue)),
           UNCHANGED <<now, exec, account>>,
           NEW s, Looked(s), Quiet(s)
    PROVE  IInv'
<1>1. TypeOK /\ Counted /\ OneAtATime
  BY DEF IInv
<1>2. /\ st' = s /\ queue' = Tail(queue) /\ day' = Totals(s)
      /\ history' = history \cup Back(s)
      /\ UNCHANGED <<sent, answered, adrift>>
  BY DEF Quiet
<1>3. /\ queue \in Seq(EventSet) /\ queue' \in Seq(EventSet)
      /\ Cardinality(Orders(queue')) = Cardinality(Orders(queue))
      /\ \A i \in Orders(queue') : i + 1 \in Orders(queue) /\ queue'[i] = queue[i + 1]
  <2>1. queue \in Seq(EventSet) /\ Tail(queue) \in Seq(EventSet)
    BY <1>1 DEF TypeOK
  <2>2. Cardinality(Orders(queue)) \in Nat
    BY <2>1, OrdersFinite
  <2>3. Cardinality(Orders(Tail(queue))) = Cardinality(Orders(queue))
    BY <2>1, <2>2, OrdersTail
  <2>4. \A i \in Orders(Tail(queue)) :
          i + 1 \in Orders(queue) /\ Tail(queue)[i] = queue[i + 1]
    BY <2>1, OrdersTail
  <2>5. QED
    BY <1>2, <2>1, <2>3, <2>4
<1>4. Counted' /\ OneAtATime'
  BY <1>1, <1>2, <1>3 DEF Counted, OneAtATime
<1>5. s \in StateSet /\ s.day \in Nat /\ st \in StateSet /\ st.day \in Nat
  BY <1>1 DEF Looked, StateSet, TypeOK
<1>6. /\ day' \in [entries : Int, booked : Int]
      /\ day'.entries = IF s.day = st.day THEN day.entries ELSE 0
      /\ day'.booked = IF s.day = st.day THEN day.booked ELSE 0
  BY <1>1, <1>2 DEF TypeOK, Totals
<1>7. history \subseteq history' /\ history' \subseteq history \cup {"dayBack"}
  BY <1>2 DEF Back
<1>8. TypeOK'
  BY <1>1, <1>2, <1>3, <1>5, <1>6, <1>7 DEF TypeOK
<1>9. Beliefs'
  <2>1. \A g : Believed(g) => Believed(g)'
    BY <1>2 DEF Believed, Looked
  <2>2. QED
    BY <1>3, <1>7, <2>1 DEF Beliefs, IInv
<1>10. Books'
  <2> SUFFICES ASSUME history' \cap {"crossed", "dayBack"} = {}
               PROVE  (\A i \in Orders(queue) : Booked(SignalOf(queue[i])))'
    BY DEF Books
  <2>1. s.day >= st.day
    <3>1. ~(s.day < st.day)
      BY <1>2 DEF Back
    <3>2. QED
      BY <1>5, <3>1
  <2>2. \A i \in Orders(queue) : /\ Booked(SignalOf(queue[i]))
                                 /\ SignalOf(queue[i]).day \in Nat
    <3>1. \A i \in Orders(queue) : Booked(SignalOf(queue[i]))
      BY <1>7 DEF IInv, Books
    <3>2. \A i \in Orders(queue) : SignalOf(queue[i]) \in SignalSet
      <4> TAKE i \in Orders(queue)
      <4>1. queue[i] \in EventSet /\ IsOrder(queue[i])
        BY <1>3 DEF Orders
      <4>2. QED
        BY <4>1, EventFields DEF SignalOf, IsOrder
    <3>3. QED
      BY <3>1, <3>2 DEF SignalSet
  <2>3. ASSUME NEW g, Booked(g), g.day \in Nat PROVE Booked(g)'
    BY <1>2, <1>5, <2>1, <2>3 DEF Booked, Looked
  <2>4. QED
    BY <1>3, <2>2, <2>3
<1>11. Accounts'
  <2> SUFFICES ASSUME "crossed" \notin history'
               PROVE  /\ (\A i \in Orders(queue) :
                            Carried(SignalOf(queue[i]), queue[i].kind = "filled"))'
                      /\ Settled' => IF st'.position = "Long"
                                     THEN Owned' = 1 /\ st'.priced /\ st'.sized
                                     ELSE Owned' = 0
    BY DEF Accounts
  <2>1. "crossed" \notin history
    BY <1>7
  <2>2. Owned' = Owned
    BY <1>2 DEF Owned
  <2>3. \A g, done : Carried(g, done) => Carried(g, done)'
    BY <1>2, <2>2 DEF Carried, Looked
  <2>4. Settled' <=> Settled
    BY <1>2 DEF Settled, Outstanding
  <2>5. QED
    BY <1>2, <1>3, <2>1, <2>2, <2>3, <2>4 DEF IInv, Accounts, Looked
<1>12. TotalsAgree'
  <2> SUFFICES ASSUME history' \cap {"crossed", "dayBack", "lateRollback"} = {}
               PROVE  st'.trades = day'.entries /\ st'.pnl = day'.booked
    BY DEF TotalsAgree
  <2>1. st.trades = day.entries /\ st.pnl = day.booked
    BY <1>7 DEF IInv, TotalsAgree
  <2>2. QED
    BY <1>2, <1>6, <2>1 DEF Looked
<1>13. QED
  BY <1>4, <1>8, <1>9, <1>10, <1>11, <1>12 DEF IInv

\* Once the answer to a signal is handled, and no signals crossed, nothing is
\* underway any more.
LEMMA SettleCounts ==
    ASSUME IInv, queue # <<>>, exec = Idle, exec' = exec, IsOrder(Head(queue)),
           NEW s, NEW totals, NEW noted, Settle(s, totals, noted)
    PROVE  /\ Counted' /\ OneAtATime'
           /\ queue' \in Seq(EventSet)
           /\ sent' \in Nat /\ answered' \in 0 .. sent'
           /\ st' = s /\ day' = totals /\ history' = history \cup noted
           /\ "crossed" \notin history' => Orders(queue') = {}
           /\ Beliefs' /\ Books'
<1>1. TypeOK /\ Counted /\ OneAtATime
  BY DEF IInv
<1>2. /\ st' = s /\ queue' = Tail(queue) /\ answered' = answered + 1
      /\ day' = totals /\ history' = history \cup noted /\ sent' = sent
  BY DEF Settle
<1>3. /\ queue \in Seq(EventSet) /\ queue' \in Seq(EventSet)
      /\ Cardinality(Orders(queue')) = Cardinality(Orders(queue)) - 1
      /\ Cardinality(Orders(queue)) \in Nat
  <2>1. queue \in Seq(EventSet) /\ Tail(queue) \in Seq(EventSet)
    BY <1>1 DEF TypeOK
  <2>2. Cardinality(Orders(queue)) \in Nat
    BY <2>1, OrdersFinite
  <2>3. QED
    BY <1>2, <2>1, <2>2, OrdersTail
<1>4. /\ answered < sent
      /\ "crossed" \notin history => Orders(queue') = {}
  BY <1>1, <1>2, OnlyHead
<1>5. sent \in Nat /\ answered \in Nat
  BY <1>1 DEF TypeOK
<1>6. sent' \in Nat /\ answered' \in 0 .. sent'
  BY <1>2, <1>4, <1>5
<1>7. Counted'
  BY <1>1, <1>2, <1>3, <1>5 DEF Counted
<1>8. OneAtATime'
  BY <1>1, <1>2, <1>5 DEF OneAtATime
<1>9. "crossed" \notin history' => Orders(queue') = {}
  BY <1>2, <1>4
<1>10. Beliefs' /\ Books'
  BY <1>9 DEF Beliefs, Books
<1>11. QED
  BY <1>2, <1>3, <1>6, <1>7, <1>8, <1>9, <1>10

LEMMA FilledKeeps ==
    ASSUME IInv, queue # <<>>, exec = Idle, UNCHANGED <<now, exec, account>>,
           NEW e, e = Head(queue), e.kind = "filled", OnOrderFilled(e)
    PROVE  IInv'
<1> DEFINE bought == IF st.position = "Long"
                     THEN [st EXCEPT !.priced = TRUE, !.sized = TRUE] ELSE st
           sold == [st EXCEPT !.sized = FALSE,
                              !.priced = @ /\ st.position # "None"]
           s == IF e.sig.side = "BUY" THEN bought ELSE sold
<1>1. TypeOK /\ Counted /\ OneAtATime /\ IsOrder(e) /\ st \in StateSet
  BY DEF IInv, IsOrder, TypeOK
<1>2. Settle(s, day, {})
  BY DEF OnOrderFilled
<1>3. e \in EventSet /\ e.sig \in SignalSet
  <2>1. e \in EventSet
    BY <1>1 DEF TypeOK
  <2>2. QED
    BY <2>1, EventFields
<1>4. /\ bought \in StateSet
      /\ bought.position = st.position
      /\ st.position = "Long" => bought.priced /\ bought.sized
      /\ bought.trades = st.trades /\ bought.pnl = st.pnl
  BY <1>1 DEF StateSet
<1>5. /\ sold \in StateSet
      /\ sold.position = st.position
      /\ sold.trades = st.trades /\ sold.pnl = st.pnl
  <2>1. (st.priced /\ st.position # "None") \in BOOLEAN
    OBVIOUS
  <2>2. sold \in StateSet
    BY <1>1, <2>1, FieldSet, Zenon
  <2>3. QED
    BY <1>1, <2>2 DEF StateSet
<1> HIDE DEF bought, sold
<1>6. /\ s \in StateSet
      /\ s.position = st.position
      /\ e.sig.side = "BUY" /\ st.position = "Long" => s.priced /\ s.sized
      /\ s.trades = st.trades /\ s.pnl = st.pnl
  BY <1>4, <1>5
<1> HIDE DEF s
<1>7. /\ Counted' /\ OneAtATime' /\ Beliefs' /\ Books'
      /\ queue' \in Seq(EventSet)
      /\ sent' \in Nat /\ answered' \in 0 .. sent'
      /\ st' = s /\ day' = day /\ history' = history
      /\ "crossed" \notin history' => Orders(queue') = {}
  BY <1>1, <1>2, SettleCounts
<1>8. adrift' = adrift /\ Owned' = Owned
  BY DEF OnOrderFilled, Owned
<1>9. TypeOK'
  BY <1>1, <1>6, <1>7, <1>8 DEF TypeOK
<1>10. Accounts'
  <2> SUFFICES ASSUME "crossed" \notin history
               PROVE  IF s.position = "Long"
                      THEN Owned = 1 /\ s.priced /\ s.sized ELSE Owned = 0
    BY <1>7, <1>8 DEF Accounts
  <2>1. 1 \in Orders(queue) /\ queue[1] = e /\ SignalOf(e) = e.sig
    BY <1>1, OnlyHead DEF SignalOf
  <2>2. Believed(e.sig) /\ Carried(e.sig, TRUE)
    BY <2>1 DEF IInv, Beliefs, Accounts
  <2>3. e.sig.side \in {"BUY", "SELL"}
    BY <1>3 DEF SignalSet, SideOf
  <2>4. QED
    BY <1>6, <2>2, <2>3 DEF Believed, Carried
<1>11. TotalsAgree'
  BY <1>6, <1>7 DEF IInv, TotalsAgree
<1>12. QED
  BY <1>7, <1>9, <1>10, <1>11 DEF IInv

\* What a rejection takes off the totals of the day.
LEMMA UnbookType ==
    ASSUME TypeOK, NEW g \in SignalSet
    PROVE  /\ Unbook(g) \in [entries : Int, booked : Int]
           /\ Unbook(g).entries = IF g.day = st.day /\ g.side = "BUY"
                                  THEN day.entries - 1 ELSE day.entries
           /\ Unbook(g).booked = IF g.day = st.day /\ g.side = "SELL"
                                 THEN day.booked - g.pnl ELSE day.booked
  BY DEF TypeOK, Unbook, SignalSet, SideOf

LEMMA EntryRejectedKeeps ==
    ASSUME IInv, queue # <<>>, exec = Idle, UNCHANGED <<now, exec, account>>,
           NEW e, e = Head(queue), e.kind = "rejected", EntryRejected(e)
    PROVE  IInv'
<1> DEFINE undone == Undone(st)
           cooled == [undone EXCEPT !.coolUntil = e.ts + PoorPause]
           s == IF st.position = "None" THEN st
                ELSE IF e.poor THEN cooled ELSE undone
<1>1. TypeOK /\ Counted /\ OneAtATime /\ IsOrder(e) /\ st \in StateSet
  BY DEF IInv, IsOrder, TypeOK
<1>2. Settle(s, Unbook(e.sig), {}) /\ e.sig.side = "BUY"
  BY DEF EntryRejected
<1>3. e \in EventSet /\ e.sig \in SignalSet /\ e.ts \in Nat
  <2>1. e \in EventSet
    BY <1>1 DEF TypeOK
  <2>2. QED
    BY <2>1, EventFields
<1>4. /\ undone \in StateSet
      /\ undone.position = "None"
      /\ undone.trades = IF st.trades > 0 THEN st.trades - 1 ELSE 0
      /\ undone.pnl = st.pnl
  <2> DEFINE n == IF st.trades > 0 THEN st.trades - 1 ELSE 0
  <2>1. n \in Nat
    BY <1>1 DEF StateSet
  <2>2. undone = [st EXCEPT !.position = "None", !.priced = FALSE,
                            !.sized = FALSE, !.trades = n]
    BY <1>1 DEF Undone, StateSet
  <2> HIDE DEF n
  <2>3. [st EXCEPT !.position = "None"] \in StateSet
    BY <1>1, FieldSet
  <2>4. [st EXCEPT !.position = "None", !.priced = FALSE] \in StateSet
    BY <2>3, FieldSet
  <2>5. [st EXCEPT !.position = "None", !.priced = FALSE, !.sized = FALSE]
          \in StateSet
    BY <2>4, FieldSet
  <2>6. undone \in StateSet
    BY <2>1, <2>2, <2>5, FieldSet, Zenon
  <2>7. /\ undone.position = "None" /\ undone.trades = n /\ undone.pnl = st.pnl
    BY <1>1, <2>2 DEF StateSet
  <2>8. QED
    BY <2>6, <2>7 DEF n
<1> HIDE DEF undone
<1>5. cooled \in StateSet /\ cooled.position = "None"
      /\ cooled.trades = undone.trades /\ cooled.pnl = undone.pnl
  <2>1. e.ts + PoorPause \in Nat
    BY <1>3, PausesNat
  <2>2. QED
    BY <1>4, <2>1 DEF StateSet
<1> HIDE DEF cooled
<1>6. /\ s \in StateSet
      /\ s.position = "None"
      /\ s.pnl = st.pnl
      /\ st.position # "None" =>
           s.trades = IF st.trades > 0 THEN st.trades - 1 ELSE 0
  BY <1>1, <1>4, <1>5
<1> HIDE DEF s
<1>7. /\ Counted' /\ OneAtATime' /\ Beliefs' /\ Books'
      /\ queue' \in Seq(EventSet)
      /\ sent' \in Nat /\ answered' \in 0 .. sent'
      /\ st' = s /\ day' = Unbook(e.sig) /\ history' = history
      /\ "crossed" \notin history' => Orders(queue') = {}
  BY <1>1, <1>2, SettleCounts
<1>8. Unbook(e.sig) \in [entries : Int, booked : Int]
  BY <1>1, <1>3, UnbookType
<1>9. TypeOK' /\ Owned' = Owned
  <2>1. adrift' = adrift
    BY DEF EntryRejected
  <2>2. QED
    BY <1>1, <1>6, <1>7, <1>8, <2>1 DEF TypeOK, Owned
<1>10. 1 \in Orders(queue) /\ queue[1] = e /\ SignalOf(e) = e.sig
  BY <1>1, OnlyHead DEF SignalOf
<1>11. Accounts'
  <2> SUFFICES ASSUME "crossed" \notin history
               PROVE  Owned = 0
    BY <1>6, <1>7, <1>9 DEF Accounts
  <2>1. Carried(e.sig, FALSE)
    BY <1>10 DEF IInv, Accounts
  <2>2. QED
    BY <1>2, <2>1 DEF Carried
<1>12. TotalsAgree'
  <2> SUFFICES ASSUME history \cap {"crossed", "dayBack", "lateRollback"} = {}
               PROVE  s.trades = Unbook(e.sig).entries /\ s.pnl = Unbook(e.sig).booked
    BY <1>7 DEF TotalsAgree
  <2>1. st.trades = day.entries /\ st.pnl = day.booked
    BY DEF IInv, TotalsAgree
  <2>2. Believed(e.sig) /\ Booked(e.sig)
    BY <1>10 DEF IInv, Beliefs, Books
  <2>3. st.position = "Long"
    BY <1>2, <2>2 DEF Believed
  <2>4. IF e.sig.day = st.day THEN st.trades > 0 ELSE st.trades = 0
    BY <1>2, <2>2 DEF Booked
  <2>5. /\ Unbook(e.sig).entries = IF e.sig.day = st.day THEN day.entries - 1
                                   ELSE day.entries
        /\ Unbook(e.sig).booked = day.booked
    BY <1>1, <1>2, <1>3, UnbookType
  <2>6. st.trades \in Nat
    BY <1>1 DEF StateSet
  <2>7. QED
    BY <1>6, <2>1, <2>3, <2>4, <2>5, <2>6
<1>13. QED
  BY <1>7, <1>9, <1>11, <1>12 DEF IInv

LEMMA ExitRejectedKeeps ==
    ASSUME IInv, queue # <<>>, exec = Idle, UNCHANGED <<now, exec, account>>,
           NEW e, e = Head(queue), e.kind = "rejected", ExitRejected(e)
    PROVE  IInv'
<1> DEFINE back == RolledBack(st)
           dropped == [back EXCEPT !.priced = FALSE, !.failures = 0,
                                   !.blockedUntil = 0]
           restored == [back EXCEPT !.position = "Long",
                                    !.blockedUntil = e.ts + ExitBlock]
           late == IF st.exitPnl # 0 /\ e.sig.day # st.day
                   THEN {"lateRollback"} ELSE {}
           resting == st.position = "None" /\ st.priced
           many == TooManyFailures(back.failures)
           s == IF ~resting THEN st ELSE IF many THEN dropped ELSE restored
           noted == IF ~resting THEN {} ELSE late
<1>1. TypeOK /\ Counted /\ OneAtATime /\ IsOrder(e) /\ st \in StateSet
  BY DEF IInv, IsOrder, TypeOK
<1>2. /\ Settle(s, Unbook(e.sig), noted) /\ e.sig.side = "SELL"
      /\ adrift' = IF resting /\ many THEN adrift + 1 ELSE adrift
  BY DEF ExitRejected
<1>3. e \in EventSet /\ e.sig \in SignalSet /\ e.ts \in Nat
  <2>1. e \in EventSet
    BY <1>1 DEF TypeOK
  <2>2. QED
    BY <2>1, EventFields
<1>4. /\ st.pnl \in Int /\ st.exitPnl \in {-1, 0, 1} /\ st.failures \in 0 .. 2
      /\ st.trades \in Nat /\ st.priced \in BOOLEAN
      /\ st.pnl - st.exitPnl \in Int
  BY <1>1 DEF StateSet
<1>5. /\ back = [st EXCEPT !.pnl = st.pnl - st.exitPnl, !.exitPnl = 0,
                           !.failures = st.failures + 1]
      /\ back.failures = st.failures + 1
      /\ back.trades = st.trades /\ back.pnl = st.pnl - st.exitPnl
      /\ back.priced = st.priced /\ back.sized = st.sized
  BY <1>1 DEF RolledBack, StateSet
<1>6. /\ dropped \in StateSet
      /\ dropped.trades = st.trades /\ dropped.pnl = st.pnl - st.exitPnl
      /\ dropped.position = st.position
  <2> DEFINE kept == [st EXCEPT !.pnl = st.pnl - st.exitPnl, !.exitPnl = 0]
  <2>1. kept \in StateSet
    BY <1>1, <1>4, FieldSet
  <2>2. dropped = [kept EXCEPT !.priced = FALSE, !.failures = 0,
                               !.blockedUntil = 0]
    BY <1>1, <1>5 DEF StateSet
  <2>3. /\ kept.trades = st.trades /\ kept.pnl = st.pnl - st.exitPnl
        /\ kept.position = st.position
    BY <1>1 DEF StateSet
  <2> HIDE DEF kept
  <2>4. [kept EXCEPT !.priced = FALSE, !.failures = 0, !.blockedUntil = 0]
          \in StateSet
    <3>1. [kept EXCEPT !.priced = FALSE] \in StateSet
      BY <2>1, FieldSet
    <3>2. \A v \in 0 .. 2 :
            [kept EXCEPT !.priced = FALSE, !.failures = v] \in StateSet
      BY <3>1, FieldSet
    <3>3. [kept EXCEPT !.priced = FALSE, !.failures = 0] \in StateSet
      BY <3>2
    <3>4. QED
      BY <3>3, FieldSet
  <2>5. QED
    BY <2>1, <2>2, <2>3, <2>4 DEF StateSet
<1>7. ~many => /\ restored \in StateSet
               /\ restored.position = "Long"
               /\ restored.priced = st.priced /\ restored.sized = st.sized
               /\ restored.trades = st.trades
               /\ restored.pnl = st.pnl - st.exitPnl
  <2> SUFFICES ASSUME ~many
               PROVE  /\ restored \in StateSet
                      /\ restored.position = "Long"
                      /\ restored.priced = st.priced /\ restored.sized = st.sized
                      /\ restored.trades = st.trades
                      /\ restored.pnl = st.pnl - st.exitPnl
    OBVIOUS
  <2>1. st.failures + 1 \in 0 .. 2
    BY <1>4, <1>5 DEF TooManyFailures
  <2>2. back \in StateSet
    <3>1. [st EXCEPT !.pnl = st.pnl - st.exitPnl, !.exitPnl = 0] \in StateSet
      BY <1>1, <1>4, FieldSet
    <3>2. \A v \in 0 .. 2 :
            [st EXCEPT !.pnl = st.pnl - st.exitPnl, !.exitPnl = 0, !.failures = v]
              \in StateSet
      BY <3>1, FieldSet
    <3>3. QED
      BY <1>5, <2>1, <3>2
  <2>3. e.ts + ExitBlock \in Nat
    BY <1>3, PausesNat
  <2> HIDE DEF back
  <2>4. restored \in StateSet
    BY <2>2, <2>3, FieldSet
  <2>5. QED
    BY <1>5, <2>2, <2>4 DEF StateSet
<1> HIDE DEF back, dropped, restored, many
<1>8. s \in StateSet
  BY <1>1, <1>6, <1>7
<1>9. /\ history \cup noted \subseteq
           {"crossed", "dayBack", "lateRollback"}
      /\ "crossed" \notin noted
  BY <1>1 DEF TypeOK
<1> HIDE DEF s, noted
<1>10. /\ Counted' /\ OneAtATime' /\ Beliefs' /\ Books'
       /\ queue' \in Seq(EventSet)
       /\ sent' \in Nat /\ answered' \in 0 .. sent'
       /\ st' = s /\ day' = Unbook(e.sig) /\ history' = history \cup noted
       /\ "crossed" \notin history' => Orders(queue') = {}
  BY <1>1, <1>2, SettleCounts
<1>11. Unbook(e.sig) \in [entries : Int, booked : Int]
  BY <1>1, <1>3, UnbookType
<1>12. TypeOK'
  <2>1. adrift' \in Int
    BY <1>1, <1>2 DEF TypeOK
  <2>2. QED
    BY <1>1, <1>8, <1>9, <1>10, <1>11, <2>1 DEF TypeOK
<1>13. 1 \in Orders(queue) /\ queue[1] = e /\ SignalOf(e) = e.sig
  BY <1>1, OnlyHead DEF SignalOf
<1>14. "crossed" \notin history => /\ resting /\ st.exitPnl = e.sig.pnl
                                  /\ e.sig.pnl # 0
  <2>1. "crossed" \notin history => Believed(e.sig)
    BY <1>13 DEF IInv, Beliefs
  <2>2. QED
    BY <1>2, <2>1 DEF Believed
<1>15. Accounts'
  <2> SUFFICES ASSUME "crossed" \notin history'
               PROVE  IF s.position = "Long"
                      THEN Owned' = 1 /\ s.priced /\ s.sized ELSE Owned' = 0
    BY <1>10 DEF Accounts
  <2>1. "crossed" \notin history /\ resting
    BY <1>10, <1>14
  <2>2. Carried(e.sig, FALSE)
    BY <1>13, <2>1 DEF IInv, Accounts
  <2>3. Owned = 1 /\ st.sized
    BY <1>2, <2>2 DEF Carried
  <2>4. CASE many
    <3>1. s.position = "None"
      BY <1>6, <2>1, <2>4 DEF s
    <3>2. Owned' = Owned - 1
      BY <1>1, <1>2, <2>1, <2>4 DEF Owned, TypeOK
    <3>3. QED
      BY <2>3, <3>1, <3>2
  <2>5. CASE ~many
    <3>1. s = restored
      BY <2>1, <2>5 DEF s
    <3>2. Owned' = Owned
      BY <1>2, <2>5 DEF Owned
    <3>3. QED
      BY <1>7, <2>1, <2>3, <2>5, <3>1, <3>2
  <2>6. QED
    BY <2>4, <2>5
<1>16. TotalsAgree'
  <2> SUFFICES ASSUME history' \cap {"crossed", "dayBack", "lateRollback"} = {}
               PROVE  s.trades = Unbook(e.sig).entries /\ s.pnl = Unbook(e.sig).booked
    BY <1>10 DEF TotalsAgree
  <2>1. st.trades = day.entries /\ st.pnl = day.booked
    BY <1>10 DEF IInv, TotalsAgree
  <2>2. resting /\ st.exitPnl = e.sig.pnl /\ e.sig.pnl # 0
    BY <1>10, <1>14
  <2>3. e.sig.day = st.day
    BY <1>10, <2>2 DEF noted
  <2>4. /\ Unbook(e.sig).entries = day.entries
        /\ Unbook(e.sig).booked = day.booked - e.sig.pnl
    BY <1>1, <1>2, <1>3, <2>3, UnbookType
  <2>5. s.trades = st.trades /\ s.pnl = st.pnl - st.exitPnl
    BY <1>6, <1>7, <2>2 DEF s
  <2>6. QED
    BY <2>1, <2>2, <2>4, <2>5
<1>17. QED
  BY <1>10, <1>12, <1>15, <1>16 DEF IInv

LEMMA HandleKeeps ==
    ASSUME IInv, Handle
    PROVE  IInv'
<1> DEFINE e == Head(queue)
<1>1. queue # <<>> /\ exec = Idle /\ UNCHANGED <<now, exec, account>> /\ TypeOK
  BY DEF Handle, IInv
<1>2. e \in EventSet
  BY <1>1 DEF TypeOK
<1>3. IsOrder(e) <=> e.kind \notin {"ticker", "kline"}
  BY <1>2, EventFields
<1>4. \/ e.kind = "ticker" /\ OnBookTicker(e)
      \/ e.kind = "kline" /\ OnKline(e)
      \/ e.kind = "filled" /\ OnOrderFilled(e)
      \/ e.kind = "rejected" /\ EntryRejected(e)
      \/ e.kind = "rejected" /\ ExitRejected(e)
  BY DEF Handle, OnOrderRejected
<1>5. CASE e.kind = "ticker" /\ OnBookTicker(e)
  <2>1. \/ \E s : Looked(s) /\ Quiet(s)
        \/ \E s, after, pnl : SignalsExit(s, after, pnl)
        \/ \E s, after : SignalsEntry(s, after)
    BY <1>1, <1>2, <1>5, TickerCases
  <2>2. QED
    BY <1>1, <1>3, <1>5, <2>1, QuietKeeps, ExitKeeps, EntryKeeps
<1>6. CASE e.kind = "kline" /\ OnKline(e)
  <2>1. \/ \E s : Looked(s) /\ Quiet(s)
        \/ \E s, after, pnl : SignalsExit(s, after, pnl)
    BY <1>1, <1>2, <1>6, KlineCases
  <2>2. QED
    BY <1>1, <1>3, <1>6, <2>1, QuietKeeps, ExitKeeps
<1>7. CASE e.kind = "filled" /\ OnOrderFilled(e)
  BY <1>1, <1>7, FilledKeeps
<1>8. CASE e.kind = "rejected" /\ EntryRejected(e)
  BY <1>1, <1>8, EntryRejectedKeeps
<1>9. CASE e.kind = "rejected" /\ ExitRejected(e)
  BY <1>1, <1>9, ExitRejectedKeeps
<1>10. QED
  BY <1>4, <1>5, <1>6, <1>7, <1>8, <1>9

\* An order that is taken off the bus stays underway.
LEMMA TakeKeeps ==
    ASSUME IInv, Take
    PROVE  IInv'
<1>1. /\ queue # <<>> /\ exec = Idle /\ Head(queue).kind = "signal"
      /\ exec' = Head(queue) /\ queue' = Tail(queue)
      /\ UNCHANGED <<now, account, st, sent, answered, day, adrift, history>>
  BY DEF Take
<1>2. TypeOK /\ Counted /\ OneAtATime
  BY DEF IInv
<1>3. IsOrder(Head(queue)) /\ exec' # Idle
  BY <1>1 DEF IsOrder, Idle
<1>4. /\ queue \in Seq(EventSet) /\ queue' \in Seq(EventSet)
      /\ Cardinality(Orders(queue')) = Cardinality(Orders(queue)) - 1
      /\ Cardinality(Orders(queue)) \in Nat
      /\ Head(queue) \in EventSet
  <2>1. queue \in Seq(EventSet) /\ Tail(queue) \in Seq(EventSet)
    BY <1>1, <1>2 DEF TypeOK
  <2>2. Cardinality(Orders(queue)) \in Nat
    BY <2>1, OrdersFinite
  <2>3. Cardinality(Orders(Tail(queue))) = Cardinality(Orders(queue)) - 1
    BY <1>1, <1>3, <2>1, OrdersTail
  <2>4. Head(queue) \in EventSet
    BY <1>1, <2>1
  <2>5. QED
    BY <1>1, <2>1, <2>2, <2>3, <2>4
<1>5. /\ 1 \in Orders(queue) /\ queue[1] = exec' /\ SignalOf(queue[1]) = exec'
      /\ "crossed" \notin history => Orders(queue') = {}
      /\ answered < sent
  BY <1>1, <1>2, <1>3, OnlyHead DEF SignalOf
<1>6. exec' \in SignalSet
  BY <1>1, <1>4, EventFields
<1>7. TypeOK'
  BY <1>1, <1>2, <1>4, <1>6 DEF TypeOK
<1>8. Counted'
  <2>1. sent - answered = Cardinality(Orders(queue)) + 0
    BY <1>1, <1>2 DEF Counted
  <2>2. Cardinality(Orders(queue)) = Cardinality(Orders(queue')) + 1
    BY <1>4
  <2>3. sent' - answered' = Cardinality(Orders(queue')) + 1
    BY <1>1, <1>4, <2>1, <2>2
  <2>4. QED
    BY <1>3, <2>3 DEF Counted
<1>9. OneAtATime' /\ TotalsAgree'
  BY <1>1 DEF IInv, OneAtATime, TotalsAgree
<1>10. Beliefs'
  <2>1. "crossed" \notin history => Believed(exec')
    BY <1>5 DEF IInv, Beliefs
  <2>2. ASSUME NEW g, Believed(g) PROVE Believed(g)'
    BY <1>1, <2>2 DEF Believed
  <2>3. "crossed" \notin history' => Believed(exec)'
    BY <1>1, <2>1 DEF Believed
  <2>4. QED
    BY <1>1, <1>5, <2>3 DEF Beliefs
<1>11. Books'
  <2>1. history \cap {"crossed", "dayBack"} = {} => Booked(exec')
    BY <1>5 DEF IInv, Books
  <2>2. history' \cap {"crossed", "dayBack"} = {} => Booked(exec)'
    BY <1>1, <2>1 DEF Booked
  <2>3. QED
    BY <1>1, <1>5, <2>2 DEF Books
<1>12. Accounts'
  <2>1. "crossed" \notin history =>
          Carried(exec', FALSE)
    <3>1. queue[1].kind # "filled"
      BY <1>1, <1>5
    <3>2. QED
      BY <1>5, <3>1 DEF IInv, Accounts
  <2>2. "crossed" \notin history' =>
          Carried(exec, FALSE)'
    BY <1>1, <2>1 DEF Carried, Owned
  <2>3. ~Settled'
    BY <1>1, <1>5 DEF Settled, Outstanding
  <2>4. QED
    BY <1>1, <1>5, <2>2, <2>3 DEF Accounts
<1>13. QED
  BY <1>7, <1>8, <1>9, <1>10, <1>11, <1>12 DEF IInv

\* Executed or not, the order is answered: it moves from the executor to the
\* end of the bus.
LEMMA AnswerKeeps ==
    ASSUME IInv, exec # Idle,
           NEW e \in EventSet, IsOrder(e), SignalOf(e) = exec, Answer(e),
           account' \in Nat, adrift' \in Int,
           Carried(exec, FALSE) => Carried(SignalOf(e), e.kind = "filled")'
    PROVE  IInv'
<1>1. /\ exec' = Idle /\ queue' = Append(queue, e)
      /\ UNCHANGED <<now, st, sent, answered, day, history>>
  BY DEF Answer
<1>2. TypeOK /\ Counted /\ OneAtATime
  BY DEF IInv
<1>3. /\ queue \in Seq(EventSet) /\ queue' \in Seq(EventSet)
      /\ Cardinality(Orders(queue')) = Cardinality(Orders(queue)) + 1
      /\ Cardinality(Orders(queue)) \in Nat
      /\ Orders(queue') = Orders(queue) \cup {Len(queue) + 1}
      /\ queue'[Len(queue) + 1] = e
  <2>1. queue \in Seq(EventSet) /\ queue' \in Seq(EventSet)
    BY <1>1, <1>2 DEF TypeOK
  <2>2. Cardinality(Orders(queue)) \in Nat
    BY <2>1, OrdersFinite
  <2>3. QED
    BY <1>1, <2>1, <2>2, OrdersAppend
<1>4. /\ answered < sent
      /\ "crossed" \notin history => Orders(queue) = {}
  BY <1>2, OnlyExec
<1>5. "crossed" \notin history' =>
        "crossed" \notin history /\ \A i \in Orders(queue') : queue'[i] = e
  BY <1>1, <1>3, <1>4
<1>6. TypeOK'
  <2>1. history' \subseteq {"crossed", "dayBack", "lateRollback"}
    BY <1>1, <1>2 DEF TypeOK
  <2>2. QED
    BY <1>1, <1>2, <1>3, <2>1 DEF TypeOK
<1>7. Counted'
  <2>1. sent - answered = Cardinality(Orders(queue)) + 1
    BY <1>2 DEF Counted
  <2>2. sent' - answered' = Cardinality(Orders(queue')) + 0
    BY <1>1, <1>3, <2>1
  <2>3. QED
    BY <1>1, <2>2 DEF Counted
<1>8. OneAtATime' /\ TotalsAgree'
  BY <1>1 DEF IInv, OneAtATime, TotalsAgree
<1>9. Beliefs'
  <2>1. "crossed" \notin history' => Believed(exec)
    BY <1>5 DEF IInv, Beliefs
  <2>2. Believed(exec) => Believed(SignalOf(e))'
    BY <1>1 DEF Believed
  <2>3. QED
    BY <1>1, <1>5, <2>1, <2>2 DEF Beliefs
<1>10. Books'
  <2>1. history' \cap {"crossed", "dayBack"} = {} => Booked(exec)
    BY <1>1 DEF IInv, Books
  <2>2. Booked(exec) => Booked(SignalOf(e))'
    BY <1>1 DEF Booked
  <2>3. QED
    BY <1>1, <1>5, <2>1, <2>2 DEF Books
<1>11. Accounts'
  <2> SUFFICES ASSUME "crossed" \notin history'
               PROVE  Carried(SignalOf(e), e.kind = "filled")' /\ ~Settled'
    BY <1>1, <1>5 DEF Accounts
  <2>1. Carried(exec, FALSE)
    BY <1>1 DEF IInv, Accounts
  <2>2. Carried(SignalOf(e), e.kind = "filled")'
    BY <2>1
  <2>3. ~Settled'
    BY <1>1, <1>4 DEF Settled, Outstanding
  <2>4. QED
    BY <2>2, <2>3
<1>12. QED
  BY <1>6, <1>7, <1>8, <1>9, <1>10, <1>11 DEF IInv

\* However often an order was executed, what the account holds beyond what is
\* adrift changes as the answer tells.
LEMMA ExecutionTold ==
    ASSUME TypeOK, NEW g \in SignalSet, exec = g, NEW n \in 0 .. MaxExecutions,
           account' \in Traded(n), st' = st, NEW done \in BOOLEAN,
           adrift' = adrift + Untold(IF done THEN n - 1 ELSE n)
    PROVE  /\ account' \in Nat /\ adrift' \in Int
           /\ Carried(g, FALSE) => Carried(g, done)'
<1>1. n \in Nat /\ account \in Nat /\ adrift \in Int
  BY LoopAssumption DEF TypeOK
<1>2. g.side \in {"BUY", "SELL"}
  BY DEF SignalSet, SideOf
<1>3. account' \in Nat
  BY <1>1 DEF Traded
<1>4. adrift' \in Int
  BY <1>1 DEF Untold
<1>5. ASSUME Carried(g, FALSE) PROVE Carried(g, done)'
  <2>1. CASE g.side = "BUY"
    <3>1. Owned = 0 /\ ~st.sized
      BY <1>5, <2>1 DEF Carried
    <3>2. account' = account + n /\ adrift' = adrift + (IF done THEN n - 1 ELSE n)
      BY <2>1 DEF Traded, Untold
    <3>3. Owned' = IF done THEN 1 ELSE 0
      BY <1>1, <3>1, <3>2 DEF Owned
    <3>4. QED
      BY <2>1, <3>1, <3>3 DEF Carried
  <2>2. CASE g.side = "SELL"
    <3>1. Owned = 1 /\ st.sized /\ g.sized
      BY <1>5, <2>2 DEF Carried
    <3>2. account' = account - n /\ adrift' = adrift - (IF done THEN n - 1 ELSE n)
      BY <1>1, <2>2, <3>1 DEF Traded, Untold
    <3>3. Owned' = IF done THEN 0 ELSE 1
      BY <1>1, <3>1, <3>2 DEF Owned
    <3>4. QED
      BY <2>2, <3>1, <3>3 DEF Carried
  <2>3. QED
    BY <1>2, <2>1, <2>2
<1>6. QED
  BY <1>3, <1>4, <1>5

LEMMA ExecuteKeeps ==
    ASSUME IInv, Execute
    PROVE  IInv'
<1>1. TypeOK /\ exec # Idle
  BY DEF IInv, Execute, ExecuteFilled, ExecuteRejected
<1>2. now \in Nat
  BY <1>1 DEF TypeOK
<1>3. PICK g \in SignalSet : g = exec
  BY <1>1 DEF TypeOK
<1>4. CASE ExecuteFilled
  <2>1. PICK n \in 1 .. MaxExecutions :
          account' \in Traded(n) /\ adrift' = adrift + Untold(n - 1)
    BY <1>4 DEF ExecuteFilled
  <2>2. PICK e : e = Filled(exec)
    OBVIOUS
  <2>3. e \in EventSet /\ e.kind = "filled" /\ SignalOf(e) = g /\ IsOrder(e)
    BY <1>3, <2>2 DEF Filled, EventSet, SignalOf, IsOrder
  <2>4. Answer(e) /\ st' = st
    BY <1>4, <2>2 DEF ExecuteFilled, Answer
  <2>5. n \in 0 .. MaxExecutions
    BY LoopAssumption
  <2>6. ASSUME NEW done \in BOOLEAN, done = TRUE
        PROVE  /\ account' \in Nat /\ adrift' \in Int
               /\ Carried(g, FALSE) => Carried(g, done)'
    BY <1>1, <1>3, <2>1, <2>4, <2>5, <2>6, ExecutionTold
  <2>7. /\ account' \in Nat /\ adrift' \in Int
        /\ Carried(g, FALSE) => Carried(g, TRUE)'
    BY <2>6
  <2>8. Carried(exec, FALSE) => Carried(SignalOf(e), e.kind = "filled")'
    BY <1>3, <2>3, <2>7
  <2>9. QED
    BY <1>1, <1>3, <2>3, <2>4, <2>7, <2>8, AnswerKeeps
<1>5. CASE ExecuteRejected
  <2>1. PICK n \in 0 .. MaxExecutions, poor \in BOOLEAN :
          /\ account' \in Traded(n) /\ adrift' = adrift + Untold(n)
          /\ Answer(Rejected(exec, poor, now))
    BY <1>5 DEF ExecuteRejected
  <2>2. PICK e : e = Rejected(exec, poor, now)
    OBVIOUS
  <2>3. e \in EventSet /\ e.kind = "rejected" /\ SignalOf(e) = g /\ IsOrder(e)
    BY <1>2, <1>3, <2>2 DEF Rejected, EventSet, SignalOf, IsOrder
  <2>4. Answer(e) /\ st' = st
    BY <2>1, <2>2 DEF Answer
  <2>5. ASSUME NEW done \in BOOLEAN, done = FALSE
        PROVE  /\ account' \in Nat /\ adrift' \in Int
               /\ Carried(g, FALSE) => Carried(g, done)'
    BY <1>1, <1>3, <2>1, <2>4, <2>5, ExecutionTold
  <2>6. /\ account' \in Nat /\ adrift' \in Int
        /\ Carried(g, FALSE) => Carried(g, FALSE)'
    BY <2>5
  <2>7. Carried(exec, FALSE) => Carried(SignalOf(e), e.kind = "filled")'
    BY <1>3, <2>3, <2>6
  <2>8. QED
    BY <1>1, <1>3, <2>3, <2>4, <2>6, <2>7, AnswerKeeps
<1>6. QED
  BY <1>4, <1>5 DEF Execute

\* Time passes, market data queues up, or nothing happens.
LEMMA OutsideKeeps ==
    ASSUME IInv, \/ Tick
                 \/ \E e \in EventSet : ~IsOrder(e) /\ Enqueue(e)
                 \/ UNCHANGED vars
    PROVE  IInv'
<1>1. TypeOK /\ Counted
  BY DEF IInv
<1>2. /\ UNCHANGED <<exec, account, st, sent, answered, day, adrift, history>>
      /\ now' \in Nat
  BY <1>1 DEF TypeOK, Tick, Enqueue, vars
<1>3. /\ queue' \in Seq(EventSet)
      /\ Cardinality(Orders(queue')) = Cardinality(Orders(queue))
      /\ Orders(queue') = Orders(queue)
      /\ \A i \in Orders(queue) : queue'[i] = queue[i]
  <2>1. queue \in Seq(EventSet)
    BY <1>1 DEF TypeOK
  <2>2. CASE queue' = queue
    BY <2>1, <2>2
  <2>3. CASE \E e \in EventSet : ~IsOrder(e) /\ Enqueue(e)
    <3>1. PICK e \in EventSet : ~IsOrder(e) /\ queue' = Append(queue, e)
      BY <2>3 DEF Enqueue
    <3>2. queue' \in Seq(EventSet)
      BY <2>1, <3>1
    <3>3. /\ Orders(queue') = Orders(queue) \cup {}
          /\ \A i \in Orders(queue) : queue'[i] = queue[i]
      <4>1. Orders(Append(queue, e)) = Orders(queue) \cup {}
        BY <2>1, <3>1, OrdersAppend
      <4>2. \A i \in Orders(queue) : Append(queue, e)[i] = queue[i]
        BY <2>1 DEF Orders
      <4>3. QED
        BY <3>1, <4>1, <4>2
    <3>4. QED
      BY <3>2, <3>3
  <2>4. QED
    BY <2>2, <2>3 DEF Tick, vars
<1>4. TypeOK'
  BY <1>1, <1>2, <1>3 DEF TypeOK
<1>5. Counted' /\ OneAtATime' /\ TotalsAgree'
  BY <1>2, <1>3 DEF IInv, Counted, OneAtATime, TotalsAgree
<1>6. \A g, done : /\ Believed(g)' <=> Believed(g)
                   /\ Booked(g)' <=> Booked(g)
                   /\ Carried(g, done)' <=> Carried(g, done)
  BY <1>2 DEF Believed, Booked, Carried, Owned
<1>7. Beliefs'
  BY <1>2, <1>3, <1>6 DEF IInv, Beliefs
<1>8. Books'
  BY <1>2, <1>3, <1>6 DEF IInv, Books
<1>9. Accounts'
  <2>1. Settled' <=> Settled
    BY <1>2 DEF Settled, Outstanding
  <2>2. QED
    BY <1>2, <1>3, <1>6, <2>1 DEF IInv, Accounts, Owned
<1>10. QED
  BY <1>4, <1>5, <1>7, <1>8, <1>9 DEF IInv

-----------------------------------------------------------------------------
LEMMA InvInit == Init => IInv
<1> SUFFICES ASSUME Init PROVE IInv
  OBVIOUS
<1>1. TypeOK
  <2>1. queue \in Seq(EventSet) /\ exec = Idle /\ st \in StateSet
    BY DEF Init, StateSet
  <2>2. now \in Nat
    BY LoopAssumption DEF Init
  <2>3. QED
    BY <2>1, <2>2 DEF Init, TypeOK
<1>2. Orders(queue) = {}
  BY DEF Init, Orders
<1>3. Counted
  <2>1. Cardinality(Orders(queue)) = 0
    BY <1>2, FS_EmptySet
  <2>2. QED
    BY <2>1 DEF Init, Counted
<1>4. OneAtATime /\ Beliefs /\ Books
  BY <1>2 DEF Init, OneAtATime, Beliefs, Books
<1>5. Accounts
  BY <1>2 DEF Init, Accounts, Owned
<1>6. TotalsAgree
  BY DEF Init, TotalsAgree
<1>7. QED
  BY <1>1, <1>3, <1>4, <1>5, <1>6 DEF IInv

\* Market data that the next step may put on the bus is no order.
LEMMA DataIsNoOrder ==
    ASSUME TypeOK, Started, Ticker \/ Kline
    PROVE  \E e \in EventSet : ~IsOrder(e) /\ Enqueue(e)
<1>1. now \in Nat /\ now - 1 \in Nat
  BY LoopAssumption DEF TypeOK, Started
<1>2. Day(now) \in Nat /\ Day(now - 1) \in Nat
  BY <1>1, DayNat
<1>3. CASE Ticker
  <2>1. PICK ok \in BOOLEAN : Enqueue([kind |-> "ticker", ts |-> now, ok |-> ok])
    BY <1>3 DEF Ticker
  <2>2. /\ [kind |-> "ticker", ts |-> now, ok |-> ok] \in EventSet
        /\ ~IsOrder([kind |-> "ticker", ts |-> now, ok |-> ok])
    BY <1>1 DEF EventSet, IsOrder
  <2>3. QED
    BY <2>1, <2>2
<1>4. CASE Kline
  <2>1. PICK d \in {Day(now), Day(now - 1)} : Enqueue([kind |-> "kline", day |-> d])
    BY <1>4 DEF Kline
  <2>2. /\ [kind |-> "kline", day |-> d] \in EventSet
        /\ ~IsOrder([kind |-> "kline", day |-> d])
    BY <1>2 DEF EventSet, IsOrder
  <2>3. QED
    BY <2>1, <2>2
<1>5. QED
  BY <1>3, <1>4

LEMMA InvStep == IInv /\ Started /\ [Next]_vars => IInv' /\ Started'
<1> SUFFICES ASSUME IInv, Started, [Next]_vars PROVE IInv' /\ Started'
  OBVIOUS
<1>1. TypeOK /\ now \in Nat /\ Start \in Nat
  BY LoopAssumption DEF IInv, TypeOK
<1>2. Started'
  <2>1. now' = now \/ now' = now + 1
    BY DEF Next, Tick, Ticker, Kline, Enqueue, Handle, Take, Execute,
           ExecuteFilled, ExecuteRejected, Answer, vars
  <2>2. QED
    BY <1>1, <2>1 DEF Started
<1>3. IInv'
  BY <1>1, DataIsNoOrder, OutsideKeeps, HandleKeeps, TakeKeeps, ExecuteKeeps
     DEF Next
<1>4. QED
  BY <1>2, <1>3

\* Signals, executions and answers balance in every reachable state.
THEOREM Invariant == Spec => []IInv
<1>1. Init => IInv /\ Started
  <2>1. Init => Started
    BY LoopAssumption DEF Init, Started
  <2>2. QED
    BY <2>1, InvInit
<1>2. QED
  BY <1>1, InvStep, PTL DEF Spec

\* Type correctness, for every limit, pause and length of the day; answers
\* never outnumber signals.
THEOREM TypeCorrect == Spec => []TypeOK
<1>1. IInv => TypeOK
  BY DEF IInv
<1>2. QED
  BY Invariant, <1>1, PTL

\* Once every answer is handled, the account holds exactly the position, apart
\* from what is adrift: executions that no answer told of, and positions given up.
THEOREM PositionIsRight == Spec => []PositionAgrees
<1>1. IInv => PositionAgrees
  BY DEF IInv, Accounts, PositionAgrees
<1>2. QED
  BY Invariant, <1>1, PTL

\* The totals that gate entries count today's entries and profit, less what
\* was rejected.
THEOREM TotalsAreRight == Spec => []TotalsAgree
<1>1. IInv => TotalsAgree
  BY DEF IInv
<1>2. QED
  BY Invariant, <1>1, PTL

\* The entry price is known as long as the account holds what the strategy was
\* told of, however often its orders were executed.
THEOREM PriceIsKept == Spec => []PriceKept
<1>1. ASSUME IInv, "crossed" \notin history,
             Owned > 0
      PROVE  st.priced
  <2>1. TypeOK /\ Counted /\ "crossed" \notin history
    BY <1>1 DEF IInv
  <2>2. CASE Settled
    <3>1. IF st.position = "Long" THEN st.priced ELSE Owned = 0
      BY <1>1, <2>2 DEF IInv, Accounts
    <3>2. QED
      BY <1>1, <3>1
  <2>3. CASE exec # Idle
    BY <1>1, <2>1, <2>3 DEF IInv, Beliefs, Believed
  <2>4. CASE ~Settled /\ exec = Idle
    <3>1. IsFiniteSet(Orders(queue))
      BY <2>1, OrdersFinite DEF TypeOK
    <3>2. Cardinality(Orders(queue)) # 0
      BY <2>1, <2>4 DEF TypeOK, Counted, Settled, Outstanding
    <3>3. Orders(queue) # {}
      BY <3>1, <3>2, FS_EmptySet
    <3>4. QED
      BY <1>1, <2>1, <3>3 DEF IInv, Beliefs, Believed
  <2>5. QED
    BY <2>2, <2>3, <2>4
<1>2. IInv => PriceKept
  BY <1>1 DEF PriceKept
<1>3. QED
  BY Invariant, <1>2, PTL
=============================================================================
