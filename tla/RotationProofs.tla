--------------------------- MODULE RotationProofs ---------------------------
(***************************************************************************)
(* For every set of symbols and prices, every stop and interval and every  *)
(* number of faults: trades keep their distance, and the trailing stop     *)
(* sells only after a real fall of the holding.                            *)
(***************************************************************************)
EXTENDS Rotation, TLAPS

\* What a state remembers of the last rebalancing is no longer ago than that.
Gap(s) == s.age <= spacing \/ (s.age = Never /\ spacing = Interval)

\* A tick that has evaluated has restarted the interval in its own state, and
\* one that trades does so a full interval after the last.
Spaced ==
    /\ pc \in {"same", "sell", "buy", "settle", "stopped", "rotated"} =>
         st.age = 0
    /\ "unsaved" \notin mishaps =>
         /\ Gap(file)
         /\ pc # "asleep" => Gap(st)
         /\ pc \in {"sell", "buy"} => spacing = Interval

\* A trade ends with the target held; what is held has been as high as it is.
Traded ==
    /\ pc \in {"settle", "rotated"} => held = target
    /\ pc = "same" => current = held
    /\ held # Cash => price[held] <= high
    /\ pc = "asleep" => st = Default

\* A state that may be acted on names what is held, if anything, and a peak
\* that it has really had.
Owned(s) == s.holding \in {held, Cash} /\ s.peak <= high

Own ==
    held # Cash /\ mishaps \cap {"unsaved", "unpriced"} = {} =>
        /\ pc \notin {"settle", "rotated"} => Owned(file)
        /\ pc # "settle" => Owned(st)

IInv == TypeOK /\ Spaced /\ Traded /\ Own

-----------------------------------------------------------------------------
\* A fall of StopPct from a peak is also one from any higher price.
LEMMA FallFromHigher ==
    ASSUME NEW k \in Nat, NEW h \in Nat, NEW p \in Nat, k <= h, Triggered(k, p)
    PROVE  Triggered(h, p)
<1>1. (100 - StopPct) * (h - k) >= 0
  BY RotationAssumption, SMTT(30)
<1>2. (h - p) * 100 - StopPct * h
        = ((k - p) * 100 - StopPct * k) + (100 - StopPct) * (h - k)
  BY RotationAssumption, SMTT(30)
<1>3. (k - p) * 100 - StopPct * k >= 0
  BY RotationAssumption DEF Triggered
<1>4. StopPct * h \in Int /\ StopPct * k \in Int /\ (100 - StopPct) * (h - k) \in Int
  BY RotationAssumption
<1>5. QED
  BY <1>1, <1>2, <1>3, <1>4, RotationAssumption DEF Triggered

-----------------------------------------------------------------------------
\* Prices, and what stands for none, are numbers.
LEMMA PeakIsNumber == \A p \in Prices \cup {NoPeak} : p \in Nat
BY RotationAssumption DEF NoPeak

\* A state stays one when its interval restarts or its holding changes.
LEMMA StateChanges ==
    ASSUME NEW s \in StateSet
    PROVE  /\ [s EXCEPT !.age = 0] \in StateSet
           /\ \A h \in Holdings : [s EXCEPT !.holding = h] \in StateSet
           /\ \A p \in Prices \cup {NoPeak} : [s EXCEPT !.peak = p] \in StateSet
           /\ s.peak \in Nat
           /\ s.age \in Nat
<1>1. 0 \in 0 .. Never
  BY RotationAssumption DEF Never
<1>2. s.peak \in Nat
  BY PeakIsNumber DEF StateSet
<1>3. s.age \in Nat
  BY RotationAssumption DEF StateSet, Never
<1>4. QED
  BY <1>1, <1>2, <1>3 DEF StateSet

\* The invariant holds initially: no state, no trade, no fault.
LEMMA InvInit == Init => IInv
<1> SUFFICES ASSUME Init PROVE IInv
  OBVIOUS
<1> USE RotationAssumption
      DEF Init, Default, Never, NoPeak, High, Holdings, StateSet
<1>1. High(held, price) \in Prices \cup {NoPeak}
  OBVIOUS
<1>2. TypeOK
  BY <1>1 DEF TypeOK, Labels
<1>3. Spaced /\ Traded /\ Own
  BY DEF Spaced, Gap, Traded, Own, Owned
<1>4. QED
  BY <1>2, <1>3 DEF IInv

\* Types are kept by every step.
LEMMA TypeStep == TypeOK /\ [Next]_vars => TypeOK'
<1> SUFFICES ASSUME TypeOK, [Next]_vars PROVE TypeOK'
  OBVIOUS
<1> USE RotationAssumption
      DEF TypeOK, Never, NoPeak, Holdings, StateSet, Default, Labels,
          World, Unsaving, Goto, tick, seen
<1>1. CASE Move
  BY <1>1 DEF Move, High, Max2
<1>2. CASE Sleep
  BY <1>2 DEF Sleep, Older
<1>3. CASE Begin
  BY <1>3 DEF Begin, StopOrDue
<1>4. CASE FirstRun
  <2>1. st' \in StateSet
    <3> DEFINE s == [st EXCEPT !.holding = held]
    <3>1. s \in StateSet
      OBVIOUS
    <3>2. st' \in {s, [s EXCEPT !.age = 0]}
      BY <1>4 DEF FirstRun
    <3> HIDE DEF s
    <3>3. QED
      BY <3>1, <3>2, StateChanges
  <2>2. pc' \in {"stop", "due", "save"} /\ (pc' = "stop" => st'.holding # Cash)
    BY <1>4 DEF FirstRun, StopOrDue
  <2>3. QED
    BY <1>4, <2>1, <2>2 DEF FirstRun
<1>5. CASE CheckStop
  <2> DEFINE s == [st EXCEPT !.peak = Peak(@, price[st.holding])]
  <2>1. s \in StateSet /\ s.holding = st.holding
    BY <1>5 DEF CheckStop, Peak, Max2
  <2> HIDE DEF s
  <2>2. [s EXCEPT !.age = 0] \in StateSet
    BY <2>1, StateChanges
  <2> USE DEF s
  <2>3. st' \in {st, s, [s EXCEPT !.age = 0]} /\ pc' \in {"due", "save", "stopping"}
    BY <1>5 DEF CheckStop
  <2>4. pc' = "stopping" => st' = s
    BY <1>5 DEF CheckStop
  <2>5. st.holding # Cash
    BY <1>5 DEF CheckStop
  <2>6. file' \in {file, s} /\ faults' \in 0 .. MaxFaults
    BY <1>5 DEF CheckStop, Save, Fault
  <2>7. mishaps' = mishaps
    BY <1>5 DEF CheckStop, Save, Unsaved
  <2>8. UNCHANGED <<config, price, held, high, spacing, current, target>>
    BY <1>5 DEF CheckStop
  <2> HIDE DEF s
  <2>9. QED
    BY <2>1, <2>2, <2>3, <2>4, <2>5, <2>6, <2>7, <2>8
<1>6. CASE StopSell
  <2>1. st' \in StateSet
    <3>1. st' = [st EXCEPT !.holding = Cash, !.peak = 0, !.age = 0]
      BY <1>6 DEF StopSell, AfterStop
    <3>2. st' = [age |-> 0, holding |-> Cash, peak |-> 0]
      BY <3>1
    <3>3. QED
      BY <3>2
  <2>2. pc' = "stopped" /\ UNCHANGED <<config, price, file, current, target,
                                      faults, spacing, mishaps>>
    BY <1>6 DEF StopSell, SellAll
  <2>3. held' \in Holdings /\ high' \in Prices \cup {NoPeak}
    BY <1>6 DEF StopSell, SellAll
  <2>4. QED
    BY <2>1, <2>2, <2>3
<1>7. CASE StopFails
  <2>1. pc' = "due" /\ UNCHANGED <<config, price, file, st, current, target, spacing>>
    BY <1>7 DEF StopFails, SellAll
  <2>2. held' \in Holdings /\ high' \in Prices \cup {NoPeak}
    BY <1>7 DEF StopFails, SellAll
  <2>3. faults' \in 0 .. MaxFaults
    BY <1>7 DEF StopFails, Fault
  <2>4. mishaps' \subseteq {"unsaved", "unpriced", "halfway"}
    BY <1>7 DEF StopFails
  <2>5. QED
    BY <2>1, <2>2, <2>3, <2>4
<1>8. CASE NotDue
  BY <1>8 DEF NotDue, EndTick
<1>9. CASE Evaluate
  <2>1. [st EXCEPT !.age = 0] \in StateSet
    OBVIOUS
  <2>2. pc' \in {"same", "sell", "buy"}
    BY <1>9 DEF Evaluate, Route
  <2>3. pc' = "sell" => current' # Cash
    BY <1>9 DEF Evaluate, Route
  <2>4. pc' = "buy" => current' = Cash /\ target' # Cash
    <3>1. pc' = Route(current', target')
      BY <1>9 DEF Evaluate
    <3>2. QED
      BY <3>1 DEF Route
  <2>5. QED
    BY <1>9, <2>1, <2>2, <2>3, <2>4 DEF Evaluate
<1>10. CASE Same
  <2> DEFINE s == [st EXCEPT !.holding = current]
  <2>1. s \in StateSet
    OBVIOUS
  <2>2. current # Cash => [s EXCEPT !.peak = price[current]] \in StateSet
    BY <2>1
  <2>3. st' \in StateSet
    BY <1>10, <2>1, <2>2 DEF Same, Known
  <2>4. pc' = "save" /\ faults' \in 0 .. MaxFaults
    BY <1>10 DEF Same, Fault
  <2>5. UNCHANGED <<config, price, held, file, current, target, high, spacing,
                    mishaps>>
    BY <1>10 DEF Same
  <2>6. QED
    BY <2>3, <2>4, <2>5
<1>11. CASE Sell
  BY <1>11 DEF Sell, SellAll
<1>12. CASE Buy
  BY <1>12 DEF Buy
<1>13. CASE Settle
  <2>1. [st EXCEPT !.holding = target] \in StateSet
    OBVIOUS
  <2>2. High(target, price) \in Prices \cup {NoPeak}
    BY DEF High
  <2>3. Fresh(High(target, price)) \in StateSet
    BY <2>2 DEF Fresh
  <2>4. st' \in StateSet
    BY <1>13, <2>1, <2>3 DEF Settle
  <2>5. pc' = "rotated" /\ faults' \in 0 .. MaxFaults
    BY <1>13 DEF Settle, Fault
  <2>6. mishaps' \subseteq {"unsaved", "unpriced", "halfway"}
    BY <1>13 DEF Settle
  <2>7. UNCHANGED <<config, price, held, file, current, target, high, spacing>>
    BY <1>13 DEF Settle
  <2>8. QED
    BY <2>4, <2>5, <2>6, <2>7
<1>14. CASE Finish
  BY <1>14 DEF Finish, Save, EndTick, Fault, Unsaved
<1>15. CASE Abort
  BY <1>15 DEF Abort, EndTick, Fault, Unsaved
<1>16. CASE UNCHANGED vars
  BY <1>16 DEF vars
<1>17. QED
  BY <1>1, <1>2, <1>3, <1>4, <1>5, <1>6, <1>7, <1>8, <1>9, <1>10, <1>11,
     <1>12, <1>13, <1>14, <1>15, <1>16 DEF Next, Tick

\* The distance between trades is kept: only a save that succeeds stores the
\* age of a state, and a trade restarts it.
LEMMA SpacedStep == TypeOK /\ Spaced /\ [Next]_vars => Spaced'
<1> SUFFICES ASSUME TypeOK, Spaced, [Next]_vars PROVE Spaced'
  OBVIOUS
<1> USE RotationAssumption
      DEF Spaced, Gap, TypeOK, Never, StateSet, Default,
          World, Unsaving, Goto, tick, seen
<1>1. CASE Move
  BY <1>1 DEF Move
<1>2. CASE Sleep
  BY <1>2 DEF Sleep, Older
<1>3. CASE Begin
  BY <1>3 DEF Begin, StopOrDue
<1>4. CASE FirstRun
  <2>1. pc' \in {"stop", "due", "save"}
    BY <1>4 DEF FirstRun, StopOrDue
  <2>2. st'.age \in {st.age, 0}
    BY <1>4 DEF FirstRun
  <2>3. pc = "first" /\ UNCHANGED <<file, spacing, mishaps>>
    BY <1>4 DEF FirstRun
  <2>4. QED
    BY <2>1, <2>2, <2>3
<1>5. CASE CheckStop
  <2> DEFINE s == [st EXCEPT !.peak = Peak(@, price[st.holding])]
  <2>1. s.age = st.age /\ [s EXCEPT !.age = 0].age = 0
    OBVIOUS
  <2>2. st' \in {st, s, [s EXCEPT !.age = 0]} /\ pc' \in {"due", "save", "stopping"}
    BY <1>5 DEF CheckStop
  <2>3. file' \in {file, s}
    BY <1>5 DEF CheckStop, Save
  <2>4. pc = "stop" /\ UNCHANGED <<spacing, mishaps>>
    BY <1>5 DEF CheckStop, Save, Unsaved
  <2> HIDE DEF s
  <2>5. st'.age \in {st.age, 0} /\ file'.age \in {file.age, st.age}
    BY <2>1, <2>2, <2>3
  <2>6. QED
    BY <2>2, <2>4, <2>5
<1>6. CASE StopSell
  BY <1>6 DEF StopSell, SellAll, AfterStop
<1>7. CASE StopFails
  BY <1>7 DEF StopFails, SellAll
<1>8. CASE NotDue
  BY <1>8 DEF NotDue, EndTick
<1>9. CASE Evaluate
  BY <1>9 DEF Evaluate, Route
<1>10. CASE Same
  BY <1>10 DEF Same, Known
<1>11. CASE Sell
  BY <1>11 DEF Sell, SellAll
<1>12. CASE Buy
  BY <1>12 DEF Buy
<1>13. CASE Settle
  BY <1>13 DEF Settle, Fresh
<1>14. CASE Finish
  BY <1>14 DEF Finish, Save, EndTick, Unsaved
<1>15. CASE Abort
  BY <1>15 DEF Abort, EndTick
<1>16. CASE UNCHANGED vars
  BY <1>16 DEF vars
<1>17. QED
  BY <1>1, <1>2, <1>3, <1>4, <1>5, <1>6, <1>7, <1>8, <1>9, <1>10, <1>11,
     <1>12, <1>13, <1>14, <1>15, <1>16 DEF Next, Tick

\* What is held after a trade, and how high it has been.
LEMMA TradedStep == TypeOK /\ Traded /\ [Next]_vars => Traded'
<1> SUFFICES ASSUME TypeOK, Traded, [Next]_vars PROVE Traded'
  OBVIOUS
<1> USE RotationAssumption
      DEF Traded, TypeOK, Holdings, NoPeak, World, Unsaving, Goto, tick, seen
<1>1. CASE Move
  <2>1. held # Cash => price'[held] <= high'
    <3>1. SUFFICES ASSUME held # Cash PROVE price'[held] <= high'
      OBVIOUS
    <3>2. price' \in [Symbols -> Prices]
      BY <1>1 DEF Move
    <3>3. price'[held] \in Nat /\ high \in Nat
      <4>1. price'[held] \in Prices
        BY <3>1, <3>2
      <4>2. QED
        BY <4>1, PeakIsNumber
    <3>4. high' = Max2(high, price'[held])
      BY <1>1, <3>1 DEF Move, High
    <3>5. QED
      BY <3>3, <3>4 DEF Max2
  <2>2. QED
    BY <1>1, <2>1 DEF Move
<1>2. CASE Sleep
  BY <1>2 DEF Sleep
<1>3. CASE Begin
  BY <1>3 DEF Begin, StopOrDue
<1>4. CASE FirstRun
  BY <1>4 DEF FirstRun, StopOrDue
<1>5. CASE CheckStop
  BY <1>5 DEF CheckStop
<1>6. CASE StopSell
  BY <1>6 DEF StopSell, SellAll
<1>7. CASE StopFails
  BY <1>7 DEF StopFails, SellAll
<1>8. CASE NotDue
  BY <1>8 DEF NotDue, EndTick
<1>9. CASE Evaluate
  BY <1>9 DEF Evaluate, Route
<1>10. CASE Same
  BY <1>10 DEF Same
<1>11. CASE Sell
  BY <1>11 DEF Sell, SellAll
<1>12. CASE Buy
  <2>1. high' = price[target] /\ held' = target /\ target' = target /\ price' = price
    BY <1>12 DEF Buy
  <2>2. price[target] \in Nat
    BY <1>12 DEF Buy
  <2>3. QED
    BY <1>12, <2>1, <2>2 DEF Buy
<1>13. CASE Settle
  BY <1>13 DEF Settle
<1>14. CASE Finish
  BY <1>14 DEF Finish, EndTick
<1>15. CASE Abort
  BY <1>15 DEF Abort, EndTick
<1>16. CASE UNCHANGED vars
  BY <1>16 DEF vars
<1>17. QED
  BY <1>1, <1>2, <1>3, <1>4, <1>5, <1>6, <1>7, <1>8, <1>9, <1>10, <1>11,
     <1>12, <1>13, <1>14, <1>15, <1>16 DEF Next, Tick

\* The peaks are kept honest: a purchase is followed by its own peak, by a
\* mishap, or by the loss of the tick, which is one, too.
LEMMA OwnStep == TypeOK /\ Traded /\ Own /\ [Next]_vars => Own'
<1> SUFFICES ASSUME TypeOK, Traded, Own, [Next]_vars PROVE Own'
  OBVIOUS
<1> USE RotationAssumption
      DEF Traded, Own, Owned, TypeOK, Holdings, NoPeak, StateSet, Default,
          World, Unsaving, Goto, tick, seen
<1>1. CASE Move
  <2>1. price' \in [Symbols -> Prices]
    BY <1>1 DEF Move
  <2>2. High(held, price') \in Nat /\ high \in Nat
    <3>1. High(held, price') \in Prices \cup {NoPeak}
      BY <2>1 DEF High
    <3>2. QED
      BY <3>1, PeakIsNumber
  <2>3. high <= high' /\ high' \in Nat
    BY <1>1, <2>2 DEF Move, Max2
  <2>4. UNCHANGED <<held, file, pc, st, mishaps>>
    BY <1>1 DEF Move
  <2>5. file.peak \in Nat /\ st.peak \in Nat
    BY StateChanges
  <2>6. QED
    BY <2>2, <2>3, <2>4, <2>5
<1>2. CASE Sleep
  BY <1>2 DEF Sleep
<1>3. CASE Begin
  BY <1>3 DEF Begin, StopOrDue
<1>4. CASE FirstRun
  BY <1>4 DEF FirstRun, StopOrDue
<1>5. CASE CheckStop
  <2> DEFINE s == [st EXCEPT !.peak = Peak(@, price[st.holding])]
  <2>1. SUFFICES ASSUME held # Cash, mishaps \cap {"unsaved", "unpriced"} = {}
                 PROVE  Owned(file)' /\ Owned(st)'
    BY <1>5 DEF CheckStop, Save, Unsaved
  <2>2. st.holding = held /\ st.peak <= high /\ Owned(file)
    BY <1>5, <2>1 DEF CheckStop
  <2>3. price[held] <= high /\ price[held] \in Nat /\ high \in Nat
    <3>1. price[held] \in Prices
      BY <2>1
    <3>2. QED
      BY <2>1, <3>1, PeakIsNumber
  <2>4. Peak(st.peak, price[held]) <= high
    BY <2>2, <2>3 DEF Peak, Max2
  <2>5. s.holding = held /\ s.peak <= high
    BY <2>2, <2>4
  <2>6. [s EXCEPT !.age = 0].holding = held /\ [s EXCEPT !.age = 0].peak <= high
    BY <2>5
  <2>7. st' \in {st, s, [s EXCEPT !.age = 0]} /\ UNCHANGED <<held, high>>
    BY <1>5 DEF CheckStop
  <2>8. file' \in {file, s}
    BY <1>5 DEF CheckStop, Save
  <2> HIDE DEF s
  <2>9. QED
    BY <2>2, <2>5, <2>6, <2>7, <2>8
<1>6. CASE StopSell
  BY <1>6 DEF StopSell, SellAll, AfterStop
<1>7. CASE StopFails
  BY <1>7 DEF StopFails, SellAll
<1>8. CASE NotDue
  <2>1. high \in Nat
    BY PeakIsNumber
  <2>2. UNCHANGED <<held, high, file, mishaps>> /\ pc = "due" /\ st' = Default
    BY <1>8 DEF NotDue, EndTick
  <2>3. QED
    BY <2>1, <2>2
<1>9. CASE Evaluate
  BY <1>9 DEF Evaluate, Route
<1>10. CASE Same
  BY <1>10 DEF Same, Known
<1>11. CASE Sell
  BY <1>11 DEF Sell, SellAll
<1>12. CASE Buy
  BY <1>12 DEF Buy
<1>13. CASE Settle
  BY <1>13 DEF Settle, Fresh, High
<1>14. CASE Finish
  BY <1>14 DEF Finish, Save, EndTick, Unsaved
<1>15. CASE Abort
  BY <1>15 DEF Abort, EndTick, Unsaved
<1>16. CASE UNCHANGED vars
  BY <1>16 DEF vars
<1>17. QED
  BY <1>1, <1>2, <1>3, <1>4, <1>5, <1>6, <1>7, <1>8, <1>9, <1>10, <1>11,
     <1>12, <1>13, <1>14, <1>15, <1>16 DEF Next, Tick

\* All parts of the invariant hold in every state.
THEOREM Invariant == Spec => []IInv
<1>1. IInv /\ [Next]_vars => IInv'
  BY TypeStep, SpacedStep, TradedStep, OwnStep DEF IInv
<1>2. QED
  BY InvInit, <1>1, PTL DEF Spec

-----------------------------------------------------------------------------
\* Every state has its type.
THEOREM TypeCorrect == Spec => []TypeOK
<1>1. IInv => TypeOK
  BY DEF IInv
<1>2. QED
  BY Invariant, <1>1, PTL

\* Once an interval is started nothing is rotated before it has passed, over
\* restarts, failed calls and failed saves, all trades having been saved.
THEOREM SpacingKept == Spec => TradeSpacing
<1>1. IInv /\ [Next]_vars =>
        [held' # held /\ pc # "stopping" /\ "unsaved" \notin mishaps
           => spacing = Interval]_vars
  <2> SUFFICES ASSUME IInv, Next, held' # held, pc # "stopping",
                      "unsaved" \notin mishaps
               PROVE  spacing = Interval
    OBVIOUS
  <2>1. pc \in {"sell", "buy"}
    BY DEF Next, Move, Sleep, Abort, Tick, Begin, FirstRun, CheckStop, StopSell,
           StopFails, NotDue, Evaluate, Same, Sell, Buy, Settle, Finish, World
  <2>2. QED
    BY <2>1 DEF IInv, Spaced
<1>2. QED
  BY Invariant, <1>1, PTL DEF Spec, TradeSpacing

\* The trailing stop sells only after a fall of StopPct from the highest price
\* since the holding is held, all trades saved and all their prices fetched.
THEOREM StopsAreJustified == Spec => StopJustified
<1>1. IInv /\ [Next]_vars =>
        [pc = "stop" /\ pc' = "stopping" /\ held = st.holding
              /\ mishaps \cap {"unsaved", "unpriced"} = {}
           => Triggered(high, price[held])]_vars
  <2> SUFFICES ASSUME IInv, Next, pc = "stop", pc' = "stopping",
                      held = st.holding, mishaps \cap {"unsaved", "unpriced"} = {}
               PROVE  Triggered(high, price[held])
    OBVIOUS
  <2>1. CheckStop
    BY DEF Next, Move, Sleep, Abort, Tick, Begin, FirstRun, StopSell, StopFails,
           NotDue, Evaluate, Same, Sell, Buy, Settle, Finish, EndTick, tick
  <2> DEFINE p == price[held]
             k == Peak(st.peak, p)
  <2>2. Triggered(k, p)
    BY <2>1 DEF CheckStop, Goto, IInv, TypeOK, StateSet
  <2>3. held # Cash /\ st.peak <= high /\ p <= high
    BY DEF IInv, TypeOK, Own, Owned, Traded
  <2>4. p \in Nat /\ high \in Nat /\ st.peak \in Nat
    BY <2>3, RotationAssumption DEF IInv, TypeOK, StateSet, Holdings, NoPeak
  <2>5. k \in Nat /\ k <= high
    BY <2>3, <2>4 DEF Peak, Max2
  <2> HIDE DEF p, k
  <2>6. Triggered(high, p)
    BY <2>2, <2>4, <2>5, FallFromHigher
  <2>7. QED
    BY <2>6 DEF p
<1>2. QED
  BY Invariant, <1>1, PTL DEF Spec, StopJustified
=============================================================================
