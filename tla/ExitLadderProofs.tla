--------------------------- MODULE ExitLadderProofs -------------------------
(***************************************************************************)
(* The stop ladder for every setting of its distances and every value of   *)
(* the ATR that LadderAssumption allows.  The argument: the stop is        *)
(* monotonic in the best price and, the ATR being known, falls only when   *)
(* the ATR that it is computed from rises.                                 *)
(***************************************************************************)
EXTENDS ExitLadder, SequenceTheorems, TLAPS

States == [held : BOOLEAN, priced : BOOLEAN, entry : Int, best : Int,
           trailing : BOOLEAN, breakeven : BOOLEAN, entryAtr : Atrs \cup {0}]

Rams == [atr : Atrs \cup {0}, fails : 0 .. 2, blocked : BOOLEAN,
         paused : BOOLEAN, seen : BOOLEAN]

\* The facts of LadderAssumption about single constants.
LEMMA Constants ==
    /\ {StopLoss, Breakeven, Trigger, Distance, TakeProfit, Fee} \subseteq Int
    /\ StopLoss > 0 /\ Breakeven > 0 /\ Fee >= 0 /\ Distance >= 0
    /\ Fee + Distance <= Trigger /\ Trigger < TakeProfit
    /\ MaxHold \in Nat /\ MaxTrades \in Nat /\ MaxRestarts \in Nat /\ Spread \in Nat
    /\ Prices \subseteq Int /\ Slips \subseteq Int
BY LadderAssumption DEF LadderAssumption

-----------------------------------------------------------------------------
(* The ladder.                                                             *)

LEMMA EffectiveOK ==
    ASSUME NEW s \in States, NEW a \in Atrs \cup {0}
    PROVE  /\ Effective(s, a) \in Atrs \cup {0}
           /\ Effective(s, a) \in Nat
           /\ Effective(s, a) >= s.entryAtr /\ Effective(s, a) >= a
<1>1. Atrs \cup {0} \subseteq Nat
  <2>1. Atrs \subseteq Nat
    BY LadderAssumption DEF LadderAssumption
  <2> QED
    BY <2>1
<1>2. s.entryAtr \in Atrs \cup {0}
  BY DEF States
<1>3. a \in Nat /\ s.entryAtr \in Nat
  <2>1. a \in Nat
    BY <1>1
  <2>2. s.entryAtr \in Nat
    BY <1>1, <1>2
  <2> QED
    BY <2>1, <2>2
<1>4. Effective(s, a) = a \/ Effective(s, a) = s.entryAtr
  BY DEF Effective, Higher
<1>5. Effective(s, a) >= s.entryAtr /\ Effective(s, a) >= a
  BY <1>3 DEF Effective, Higher
<1> QED
  BY <1>2, <1>3, <1>4, <1>5

\* A trailing stop is no lower than the break-even stop that it takes over from.
LEMMA TermsOK ==
    ASSUME NEW s \in States, NEW a \in Atrs \cup {0}
    PROVE  /\ Terms(s, a).loss \in Nat /\ Terms(s, a).trigger \in Nat
           /\ Terms(s, a).distance \in Nat /\ Terms(s, a).cover \in Nat
           /\ Terms(s, a).cover + Terms(s, a).distance <= Terms(s, a).trigger
<1> DEFINE e == Effective(s, a)
<1>1. e \in Atrs \cup {0} /\ e \in Nat
  BY EffectiveOK
<1>2. CASE setup.byAtr /\ e > 0
  <2>1. e \in Atrs
    BY <1>1, <1>2
  <2>2. /\ AtrStop[e] \in Nat /\ AtrTrigger[e] \in Nat /\ AtrDistance[e] \in Nat
        /\ AtrDistance[e] <= AtrTrigger[e]
    BY <2>1, LadderAssumption DEF LadderAssumption
  <2>3. Terms(s, a) = [loss |-> AtrStop[e], trigger |-> AtrTrigger[e],
                       distance |-> AtrDistance[e], cover |-> 0]
    BY <1>2 DEF Terms
  <2> HIDE DEF e
  <2> QED
    BY <2>2, <2>3
<1>3. CASE ~(setup.byAtr /\ e > 0)
  <2>1. Terms(s, a) = [loss |-> StopLoss, trigger |-> Trigger,
                       distance |-> Distance, cover |-> Fee]
    BY <1>3 DEF Terms
  <2> QED
    BY <2>1, LadderAssumption DEF LadderAssumption
<1> QED
  BY <1>2, <1>3

\* A smaller ATR, if known, makes every distance smaller.
LEMMA TermsFall ==
    ASSUME NEW s \in States, NEW t \in States,
           NEW a \in Atrs \cup {0}, NEW b \in Atrs \cup {0},
           0 < Effective(t, b), Effective(t, b) <= Effective(s, a)
    PROVE  /\ Terms(t, b).loss <= Terms(s, a).loss
           /\ Terms(t, b).trigger <= Terms(s, a).trigger
           /\ Terms(t, b).distance <= Terms(s, a).distance
           /\ Terms(t, b).cover = Terms(s, a).cover
<1> DEFINE d == Effective(s, a)
           e == Effective(t, b)
<1>1. d \in Atrs /\ e \in Atrs /\ 0 < e /\ e <= d /\ 0 < d
  BY EffectiveOK
<1>2. CASE setup.byAtr
  <2>1. /\ Terms(s, a) = [loss |-> AtrStop[d], trigger |-> AtrTrigger[d],
                          distance |-> AtrDistance[d], cover |-> 0]
        /\ Terms(t, b) = [loss |-> AtrStop[e], trigger |-> AtrTrigger[e],
                          distance |-> AtrDistance[e], cover |-> 0]
    BY <1>1, <1>2 DEF Terms
  <2>2. /\ AtrStop[e] <= AtrStop[d] /\ AtrTrigger[e] <= AtrTrigger[d]
        /\ AtrDistance[e] <= AtrDistance[d]
    BY <1>1, LadderAssumption DEF LadderAssumption
  <2> HIDE DEF d, e
  <2> QED
    BY <2>1, <2>2
<1>3. CASE ~setup.byAtr
  <2>1. /\ Terms(s, a) = [loss |-> StopLoss, trigger |-> Trigger,
                          distance |-> Distance, cover |-> Fee]
        /\ Terms(t, b) = Terms(s, a)
    BY <1>3 DEF Terms
  <2> QED
    BY <2>1, Constants
<1> QED
  BY <1>2, <1>3

\* The stop as a function of numbers.
Level(best, entry, loss, trigger, distance, cover) ==
    IF best - entry >= trigger THEN best - distance
    ELSE IF best - entry >= Breakeven THEN entry + cover
    ELSE entry - loss

LEMMA StopLevel ==
    ASSUME NEW s \in States, NEW a \in Atrs \cup {0}
    PROVE  /\ Stop(s, a) = Level(s.best, s.entry, Terms(s, a).loss,
                                 Terms(s, a).trigger, Terms(s, a).distance,
                                 Terms(s, a).cover)
           /\ s.best \in Int /\ s.entry \in Int
<1>1. s.best \in Int /\ s.entry \in Int
  BY DEF States
<1>2. CASE s.best - s.entry >= Terms(s, a).trigger
  BY <1>1, <1>2 DEF Stop, Level, Trails
<1>3. CASE ~(s.best - s.entry >= Terms(s, a).trigger)
  BY <1>1, <1>3 DEF Stop, Level, Trails, Covers
<1> QED
  BY <1>1, <1>2, <1>3

LEMMA LevelType ==
    ASSUME NEW x \in Int, NEW y \in Int, NEW l \in Nat, NEW t \in Nat,
           NEW d \in Nat, NEW c \in Nat
    PROVE  Level(x, y, l, t, d, c) \in Int
<1>1. x - d \in Int /\ y + c \in Int /\ y - l \in Int
  OBVIOUS
<1> QED
  BY <1>1 DEF Level

LEMMA LevelRises ==
    ASSUME NEW x \in Int, NEW y \in Int, NEW entry \in Int, x <= y,
           NEW k \in Nat, NEW l \in Nat, NEW c \in Nat, k >= l,
           NEW u \in Nat, NEW v \in Nat, u >= v,
           NEW d \in Nat, NEW e \in Nat, d >= e,
           c + d <= u, c + e <= v
    PROVE  Level(y, entry, l, v, e, c) >= Level(x, entry, k, u, d, c)
BY Constants DEF Level

LEMMA StopType ==
    ASSUME NEW s \in States, NEW a \in Atrs \cup {0}
    PROVE  Stop(s, a) \in Int
<1> DEFINE S == Terms(s, a)
<1>2. S.loss \in Nat /\ S.trigger \in Nat /\ S.distance \in Nat /\ S.cover \in Nat
  BY TermsOK
<1>3. /\ Stop(s, a) = Level(s.best, s.entry, S.loss, S.trigger, S.distance, S.cover)
      /\ s.best \in Int /\ s.entry \in Int
  BY StopLevel
<1> HIDE DEF S
<1>4. Level(s.best, s.entry, S.loss, S.trigger, S.distance, S.cover) \in Int
  BY <1>2, <1>3, LevelType
<1> QED
  BY <1>3, <1>4

\* A ladder that has climbed, with the same ATR, or one that is known to be lower.
LEMMA StopRises ==
    ASSUME NEW s \in States, NEW t \in States,
           NEW a \in Atrs \cup {0}, NEW b \in Atrs \cup {0},
           t.entry = s.entry, t.best >= s.best,
           \/ Effective(t, b) = Effective(s, a)
           \/ 0 < Effective(t, b) /\ Effective(t, b) <= Effective(s, a)
    PROVE  /\ Stop(t, b) >= Stop(s, a)
           /\ Trails(s, a) => Trails(t, b)
<1>1. /\ Terms(t, b).loss <= Terms(s, a).loss
      /\ Terms(t, b).trigger <= Terms(s, a).trigger
      /\ Terms(t, b).distance <= Terms(s, a).distance
      /\ Terms(t, b).cover = Terms(s, a).cover
  <2>1. CASE Effective(t, b) = Effective(s, a)
    <3>1. Terms(t, b) = Terms(s, a)
      BY <2>1 DEF Terms
    <3> QED
      BY <3>1, TermsOK
  <2> QED
    BY <2>1, TermsFall
<1> DEFINE S == Terms(s, a)
           T == Terms(t, b)
<1>2. Stop(t, b) >= Stop(s, a)
  <2>1. /\ S.loss \in Nat /\ S.trigger \in Nat /\ S.distance \in Nat /\ S.cover \in Nat
        /\ S.cover + S.distance <= S.trigger
    BY TermsOK
  <2>2. /\ T.loss \in Nat /\ T.trigger \in Nat /\ T.distance \in Nat /\ T.cover \in Nat
        /\ T.cover + T.distance <= T.trigger
    BY TermsOK
  <2>3. /\ Stop(s, a) = Level(s.best, s.entry, S.loss, S.trigger, S.distance, S.cover)
        /\ s.best \in Int /\ s.entry \in Int
    BY StopLevel
  <2>4. /\ Stop(t, b) = Level(t.best, t.entry, T.loss, T.trigger, T.distance, T.cover)
        /\ t.best \in Int
    BY StopLevel
  <2>5. S.loss >= T.loss /\ S.trigger >= T.trigger /\ S.distance >= T.distance
        /\ T.cover = S.cover
    BY <1>1, <2>1, <2>2
  <2>6. s.best <= t.best
    BY <2>3, <2>4
  <2> HIDE DEF S, T
  <2>7. Level(t.best, s.entry, T.loss, T.trigger, T.distance, S.cover)
          >= Level(s.best, s.entry, S.loss, S.trigger, S.distance, S.cover)
    BY <2>1, <2>2, <2>3, <2>4, <2>5, <2>6, LevelRises
  <2> QED
    BY <2>3, <2>4, <2>5, <2>7
<1>3. Trails(s, a) => Trails(t, b)
  <2>1. \A x, y, e, u, v \in Int : x <= y /\ v <= u /\ x - e >= u => y - e >= v
    OBVIOUS
  <2> QED
    BY <1>1, <2>1, TermsOK, StopLevel DEF Trails
<1> QED
  BY <1>2, <1>3

\* A gain of break-even is protected, whatever the ATR.
LEMMA StopCovers ==
    ASSUME NEW s \in States, NEW a \in Atrs \cup {0}, s.best - s.entry >= Breakeven
    PROVE  Stop(s, a) >= s.entry
<1>1. ASSUME NEW x \in Int, NEW y \in Int, NEW l \in Nat, NEW t \in Nat,
             NEW d \in Nat, NEW c \in Nat, c + d <= t, x - y >= Breakeven
      PROVE  Level(x, y, l, t, d, c) >= y
  BY <1>1 DEF Level
<1> QED
  BY <1>1, StopLevel, TermsOK

-----------------------------------------------------------------------------
(* The invariant.                                                          *)

\* A position has a price, and a priced one knows the ATR of its entry.
HeldOK == /\ st.held => st.priced
          /\ st.priced => st.entryAtr > 0

\* What a restart reads: with no ATR but the entry's the stop is no lower.
FileOK == file.held => /\ file.priced /\ file.entryAtr > 0
                       /\ Stop(file, 0) >= saved

\* The best price is the best that the ladder was shown, also while an exit is in
\* the air.
PeakOK == st.priced /\ excuse # "restarted" => st.best = peak

\* The same for the stop, and the flags that name an exit's reason are not
\* stale.
MarkOK == st.priced /\ excuse = "none" =>
            /\ st.entry = 0
            /\ Stop(st, ram.atr) >= mark
            /\ st.trailing => Trails(st, ram.atr)
            /\ st.breakeven => st.best >= Breakeven

IInv == TypeOK /\ HeldOK /\ FileOK /\ PeakOK /\ MarkOK

LEMMA TypeFacts ==
    ASSUME TypeOK
    PROVE  /\ st \in States /\ file \in States /\ ram \in Rams
           /\ ram.atr \in Atrs \cup {0} /\ ram.fails \in 0 .. 2
           /\ peak \in Int /\ mark \in Int /\ saved \in Int
           /\ orders \in Seq({"enter", "exit"})
BY DEF TypeOK, States, Rams

\* The next state's ladder is the ladder's next state.
LEMMA StopNext ==
    ASSUME setup' = setup
    PROVE  /\ Stop(st, ram.atr)' = Stop(st', ram'.atr)
           /\ Trails(st, ram.atr)' = Trails(st', ram'.atr)
           /\ Stop(file, 0)' = Stop(file', 0)
BY DEF Stop, Trails, Covers, Terms, Effective, Higher

\* A ticker moves the best price and sets flags that are true.
LEMMA ClimbedOK ==
    ASSUME NEW s \in States, NEW p \in Int, ram \in Rams
    PROVE  LET t == Climbed(s, p) IN
           /\ t \in States
           /\ t.held = s.held /\ t.priced = s.priced
           /\ t.entry = s.entry /\ t.entryAtr = s.entryAtr
           /\ t.best = Higher(s.best, p) /\ t.best >= s.best
           /\ t.trailing => s.trailing \/ Trails(t, ram.atr)
           /\ t.breakeven => s.breakeven \/ t.best - t.entry >= Breakeven
<1> DEFINE up == [s EXCEPT !.best = Higher(@, p)]
           t == Climbed(s, p)
<1>1. s.best \in Int /\ Higher(s.best, p) \in Int /\ Higher(s.best, p) >= s.best
  BY DEF States, Higher
<1>2. /\ up \in States /\ up.held = s.held /\ up.priced = s.priced
      /\ up.entry = s.entry /\ up.entryAtr = s.entryAtr /\ up.best = Higher(s.best, p)
      /\ up.trailing = s.trailing /\ up.breakeven = s.breakeven
  BY <1>1 DEF States
<1>3. Trails(up, ram.atr) \in BOOLEAN /\ Covers(up, ram.atr) \in BOOLEAN
  BY DEF Trails, Covers
<1>4. t = [up EXCEPT !.trailing = @ \/ Trails(up, ram.atr),
                     !.breakeven = @ \/ Covers(up, ram.atr)]
  BY DEF Climbed
<1> HIDE DEF up
<1>5. /\ t \in States /\ t.held = up.held /\ t.priced = up.priced
      /\ t.entry = up.entry /\ t.entryAtr = up.entryAtr /\ t.best = up.best
      /\ t.trailing = (up.trailing \/ Trails(up, ram.atr))
      /\ t.breakeven = (up.breakeven \/ Covers(up, ram.atr))
  BY <1>2, <1>3, <1>4 DEF States
<1> HIDE DEF t
<1>6. Trails(up, ram.atr) = Trails(t, ram.atr)
  BY <1>5 DEF Trails, Terms, Effective
<1>7. Covers(up, ram.atr) => t.best - t.entry >= Breakeven
  BY <1>5 DEF Covers
<1>8. /\ t \in States
      /\ t.held = s.held /\ t.priced = s.priced
      /\ t.entry = s.entry /\ t.entryAtr = s.entryAtr
      /\ t.best = Higher(s.best, p) /\ t.best >= s.best
      /\ t.trailing => s.trailing \/ Trails(t, ram.atr)
      /\ t.breakeven => s.breakeven \/ t.best - t.entry >= Breakeven
  BY <1>1, <1>2, <1>5, <1>6, <1>7
<1> QED
  BY <1>8 DEF t

LEMMA RecordOK ==
    ASSUME TypeOK, st' \in States, ram' \in Rams, NEW lowered, Record(lowered)
    PROVE  mark' \in Int /\ excuse' \in {"none", "lowered", "restarted"}
<1>1. ram'.atr \in Atrs \cup {0}
  BY DEF Rams
<1>2. Stop(st', ram'.atr) \in Int
  BY <1>1, StopType
<1> QED
  BY <1>2, TypeFacts DEF Record, Higher, TypeOK

LEMMA SaveOK ==
    ASSUME st' \in States, ram' \in Rams, Save
    PROVE  file' \in States /\ saved' \in Int
<1>1. ram'.atr \in Atrs \cup {0}
  BY DEF Rams
<1>2. Stop(st', ram'.atr) \in Int
  BY <1>1, StopType
<1> QED
  BY <1>2 DEF Save

\* What a step must show of the state for its types.
LEMMA TypeParts ==
    ASSUME TypeOK, st' \in States, ram' \in Rams, file' \in States,
           setup' = setup, orders' \in Seq({"enter", "exit"}),
           trade' \in 0 .. MaxTrades, age' \in 0 .. MaxHold,
           restarts' \in 0 .. MaxRestarts,
           peak' \in Int, mark' \in Int, saved' \in Int, lost' \in BOOLEAN,
           excuse' \in {"none", "lowered", "restarted"}
    PROVE  TypeOK'
BY DEF TypeOK, States, Rams

\* A new count of failures.
LEMMA RamReset ==
    ASSUME NEW r \in Rams
    PROVE  /\ [r EXCEPT !.fails = 0, !.seen = TRUE] \in Rams
           /\ [r EXCEPT !.fails = 0, !.blocked = FALSE] \in Rams
<1>1. 0 \in 0 .. 2
  OBVIOUS
<1>2. \A n \in 0 .. 2 : [r EXCEPT !.fails = n] \in Rams
  BY DEF Rams
<1>3. [r EXCEPT !.fails = 0] \in Rams
  BY <1>1, <1>2
<1>4. \A q \in Rams : [q EXCEPT !.seen = TRUE] \in Rams
  BY DEF Rams
<1>5. \A q \in Rams : [q EXCEPT !.blocked = FALSE] \in Rams
  BY DEF Rams
<1>6. /\ [r EXCEPT !.fails = 0, !.seen = TRUE]
           = [[r EXCEPT !.fails = 0] EXCEPT !.seen = TRUE]
      /\ [r EXCEPT !.fails = 0, !.blocked = FALSE]
           = [[r EXCEPT !.fails = 0] EXCEPT !.blocked = FALSE]
  OBVIOUS
<1> QED
  BY <1>3, <1>4, <1>5, <1>6

\* The three answers to a rejected exit: the position is given up, comes back, or
\* there is nothing to give back.
GivesUp ==
    /\ ~st.held /\ st.priced
    /\ st' = [st EXCEPT !.priced = FALSE]
    /\ ram' = [ram EXCEPT !.fails = 0, !.blocked = FALSE]
    /\ Record(FALSE)
    /\ Save

Shown(bid) == bid + IF setup.side = "Short" THEN Spread ELSE 0

GivesBack(bid) ==
    /\ ~st.held /\ st.priced /\ ram.fails + 1 < 3
    /\ st' = [st EXCEPT !.held = TRUE, !.best = Higher(st.best, Shown(bid))]
    /\ ram' = [ram EXCEPT !.fails = ram.fails + 1, !.blocked = TRUE]
    /\ Record(FALSE)
    /\ Save

Late == UNCHANGED <<st, ram, mark, excuse, file, saved>>

LEMMA ExitRejectedCases ==
    ASSUME NEW bid, ExitRejected(bid)
    PROVE  /\ GivesUp \/ GivesBack(bid) \/ Late
           /\ Answered("exit")
           /\ peak' = IF st'.held THEN Higher(peak, st'.best) ELSE peak
BY Zenon DEF ExitRejected, GivesUp, GivesBack, Late, Shown

\* The states that the actions make.
LEMMA Steps ==
    ASSUME IInv, Next
    PROVE  st' \in States /\ ram' \in Rams
<1>0. /\ st \in States /\ file \in States /\ ram \in Rams
      /\ ram.fails \in 0 .. 2 /\ Prices \subseteq Int /\ Slips \subseteq Int
      /\ Spread \in Int /\ st.best \in Int
      /\ ram.atr \in Atrs \cup {0}
  BY TypeFacts, Constants DEF IInv, States
<1>1. CASE Enter
  <2>1. st' = [held |-> TRUE, priced |-> TRUE, entry |-> 0, best |-> 0,
               trailing |-> FALSE, breakeven |-> FALSE, entryAtr |-> ram.atr]
    BY <1>1 DEF Enter
  <2>2. ram' = [ram EXCEPT !.fails = 0, !.seen = TRUE]
    BY <1>1 DEF Enter
  <2>3. st' \in States
    BY <1>0, <2>1 DEF States
  <2>4. ram' \in Rams
    BY <1>0, <2>2, RamReset
  <2> QED
    BY <2>3, <2>4
<1>2. ASSUME NEW p \in Prices, Hold(p)
      PROVE  st' \in States /\ ram' \in Rams
  BY <1>0, <1>2, ClimbedOK DEF Hold, Ticker, Rams
<1>3. ASSUME NEW p \in Prices, NEW o \in BOOLEAN, Close(p, o)
      PROVE  st' \in States /\ ram' \in Rams
  <2>1. Climbed(st, p) \in States
    BY <1>0, ClimbedOK
  <2>2. st' = [Climbed(st, p) EXCEPT !.held = FALSE]
    BY <1>3 DEF Close
  <2>3. st' \in States
    BY <2>1, <2>2 DEF States
  <2>4. PICK pause \in BOOLEAN : ram' = [ram EXCEPT !.seen = TRUE, !.paused = pause]
    BY <1>3 DEF Close
  <2> QED
    BY <1>0, <2>3, <2>4 DEF Rams
<1>4. CASE EmergencyExit
  BY <1>0, <1>4 DEF EmergencyExit, States
<1>5. ASSUME NEW a \in Atrs, AtrChanges(a)
      PROVE  st' \in States /\ ram' \in Rams
  BY <1>0, <1>5 DEF AtrChanges, Rams
<1>6. CASE Ignore \/ Ages \/ Unblock \/ Unpause
  BY <1>0, <1>6 DEF Ignore, Ticker, Ages, Unblock, Unpause, Rams
<1>7. ASSUME NEW slip \in Slips, EntryFilled(slip)
      PROVE  st' \in States /\ ram' \in Rams
  <2>1. slip \in Int
    BY <1>0
  <2>2. Cleared(st) \in States /\ [st EXCEPT !.entry = slip] \in States
    BY <1>0, <2>1 DEF Cleared, States
  <2> QED
    BY <1>0, <1>7, <2>2 DEF EntryFilled
<1>8. CASE ExitFilled
  BY <1>0, <1>8 DEF ExitFilled, Cleared, States
<1>9. CASE EntryRejected
  <2>1. Flat \in States
    BY DEF Flat, States
  <2> QED
    BY <1>0, <1>9, <2>1 DEF EntryRejected
<1>10. ASSUME NEW bid \in Prices, ExitRejected(bid)
       PROVE  st' \in States /\ ram' \in Rams
  <2>1. CASE GivesUp
    <3>1. st' \in States
      BY <1>0, <2>1 DEF GivesUp, States
    <3>2. ram' = [ram EXCEPT !.fails = 0, !.blocked = FALSE]
      BY <2>1 DEF GivesUp
    <3>3. ram' \in Rams
      BY <1>0, <3>2, RamReset
    <3> QED
      BY <3>1, <3>3
  <2>2. CASE GivesBack(bid)
    <3>1. Shown(bid) \in Int /\ ram.fails + 1 \in 0 .. 2
      BY <1>0, <2>2 DEF GivesBack, Shown
    <3>2. Higher(st.best, Shown(bid)) \in Int
      BY <1>0, <3>1 DEF Higher
    <3>3. st' \in States
      BY <1>0, <2>2, <3>2 DEF GivesBack, States
    <3>4. ram' \in Rams
      BY <1>0, <2>2, <3>1 DEF GivesBack, Rams
    <3> QED
      BY <3>3, <3>4
  <2>3. CASE Late
    BY <1>0, <2>3 DEF Late
  <2> QED
    BY <1>10, <2>1, <2>2, <2>3, ExitRejectedCases
<1>11. CASE Restart
  BY <1>0, <1>11 DEF Restart, Restored, Flat, Fresh, States, Rams
<1> QED
  BY <1>1, <1>2, <1>3, <1>4, <1>5, <1>6, <1>7, <1>8, <1>9, <1>10, <1>11
  DEF Next, Tick, Answer

\* A saved or an untouched file, a recorded or an untouched history.
LEMMA HistoryOK ==
    ASSUME TypeOK, st' \in States, ram' \in Rams,
           Save \/ UNCHANGED <<file, saved>>,
           UNCHANGED <<mark, excuse>> \/ \E lowered : Record(lowered)
    PROVE  /\ file' \in States /\ saved' \in Int /\ mark' \in Int
           /\ excuse' \in {"none", "lowered", "restarted"}
<1>1. file' \in States /\ saved' \in Int
  BY SaveOK, TypeFacts
<1>2. CASE UNCHANGED <<mark, excuse>>
  BY <1>1, <1>2, TypeFacts DEF TypeOK
<1>3. CASE \E lowered : Record(lowered)
  <2>1. PICK lowered : Record(lowered)
    BY <1>3
  <2> QED
    BY <1>1, <2>1, RecordOK
<1> QED
  BY <1>2, <1>3

LEMMA HigherType == ASSUME NEW a \in Int, NEW b \in Int PROVE Higher(a, b) \in Int
BY DEF Higher

LEMMA StepTypeOK ==
    ASSUME IInv, Next
    PROVE  TypeOK'
<1>0. /\ TypeOK /\ st' \in States /\ ram' \in Rams /\ st'.best \in Int
      /\ peak \in Int /\ orders \in Seq({"enter", "exit"}) /\ file \in States
      /\ saved \in Int /\ mark \in Int /\ lost \in BOOLEAN
      /\ trade \in 0 .. MaxTrades /\ age \in 0 .. MaxHold
      /\ restarts \in 0 .. MaxRestarts
      /\ MaxTrades \in Nat /\ MaxHold \in Nat /\ MaxRestarts \in Nat
      /\ Prices \subseteq Int
      /\ excuse \in {"none", "lowered", "restarted"}
  BY Steps, TypeFacts, Constants DEF IInv, TypeOK, States
<1>1. CASE Enter
  <2>1. Stop(st', ram.atr) \in Int
    BY <1>0, TypeFacts, StopType
  <2>2. file' \in States /\ saved' \in Int
    BY <1>0, <1>1, SaveOK DEF Enter
  <2>3. orders' \in Seq({"enter", "exit"}) /\ trade' \in 0 .. MaxTrades
    <3>1. orders' = Append(orders, "enter") /\ trade < MaxTrades /\ trade' = trade + 1
      BY <1>1 DEF Enter
    <3>2. trade' \in 0 .. MaxTrades
      BY <1>0, <3>1
    <3> QED
      BY <1>0, <3>1, <3>2
  <2>4. /\ age' = 0 /\ peak' = 0 /\ lost' = FALSE /\ excuse' = "none"
        /\ mark' = Stop(st', ram.atr) /\ setup' = setup /\ restarts' = restarts
    BY <1>1 DEF Enter
  <2>5. age' \in 0 .. MaxHold
    BY <1>0, <2>4
  <2>6. peak' \in Int /\ mark' \in Int /\ restarts' \in 0 .. MaxRestarts
    BY <1>0, <2>1, <2>4
  <2>7. lost' \in BOOLEAN /\ excuse' \in {"none", "lowered", "restarted"}
    BY Zenon, <2>4
  <2> QED
    BY <1>0, <2>2, <2>3, <2>4, <2>5, <2>6, <2>7, TypeParts
<1>2. ASSUME NEW p \in Prices, Hold(p)
      PROVE  TypeOK'
  <2>1. peak' \in Int
    BY <1>0, <1>2, HigherType DEF Hold
  <2> QED
    BY <1>0, <1>2, <2>1, HistoryOK, TypeParts DEF Hold
<1>3. ASSUME NEW p \in Prices, NEW o \in BOOLEAN, Close(p, o)
      PROVE  TypeOK'
  <2>1. peak' \in Int
    BY <1>0, <1>3, HigherType DEF Close
  <2>2. lost' \in BOOLEAN
    BY <1>3 DEF Close, Stopped
  <2>3. orders' \in Seq({"enter", "exit"})
    BY <1>0, <1>3 DEF Close
  <2>4. Save /\ Record(FALSE) /\ UNCHANGED <<setup, trade, age, restarts>>
    BY <1>3 DEF Close
  <2> QED
    BY <1>0, <2>1, <2>2, <2>3, <2>4, HistoryOK, TypeParts
<1>4. CASE EmergencyExit
  <2>1. orders' \in Seq({"enter", "exit"})
    BY <1>0, <1>4 DEF EmergencyExit
  <2> QED
    BY <1>0, <1>4, <2>1, HistoryOK, TypeParts DEF EmergencyExit
<1>5. ASSUME NEW a \in Atrs, AtrChanges(a)
      PROVE  TypeOK'
  <2>1. /\ \E lowered : Record(lowered)
        /\ UNCHANGED <<setup, file, orders, trade, age, restarts, peak, saved, lost>>
    BY <1>5 DEF AtrChanges
  <2> QED
    BY <1>0, <2>1, HistoryOK, TypeParts
<1>6. CASE Ignore \/ Unblock \/ Unpause
  <2>1. UNCHANGED <<setup, file, orders, trade, age, restarts, peak, mark, saved, lost,
                    excuse>>
    BY <1>6 DEF Ignore, Unblock, Unpause
  <2> QED
    BY <1>0, <2>1, TypeParts
<1>7. CASE Ages
  <2>1. age' \in 0 .. MaxHold
    BY <1>0, <1>7 DEF Ages
  <2> QED
    BY <1>0, <1>7, <2>1, TypeParts DEF Ages
<1>8. ASSUME NEW kind, Answered(kind), peak' \in Int,
             Save \/ UNCHANGED <<file, saved>>,
             UNCHANGED <<mark, excuse>> \/ \E lowered : Record(lowered)
      PROVE  TypeOK'
  <2>1. orders' \in Seq({"enter", "exit"})
    BY <1>0, <1>8 DEF Answered
  <2> QED
    BY <1>0, <1>8, <2>1, HistoryOK, TypeParts DEF Answered
<1>9. ASSUME NEW slip \in Slips, EntryFilled(slip)
      PROVE  TypeOK'
  BY <1>0, <1>8, <1>9 DEF EntryFilled
<1>10. CASE ExitFilled
  BY <1>0, <1>8, <1>10 DEF ExitFilled
<1>11. CASE EntryRejected
  <2>1. Answered("enter") /\ peak' = peak
    BY <1>11 DEF EntryRejected
  <2>2. \/ Record(FALSE) /\ Save
        \/ UNCHANGED <<mark, excuse, file, saved>>
    BY <1>11 DEF EntryRejected
  <2> QED
    BY <1>0, <1>8, <2>1, <2>2
<1>12. ASSUME NEW bid \in Prices, ExitRejected(bid)
       PROVE  TypeOK'
  <2>1. /\ Answered("exit")
        /\ peak' = IF st'.held THEN Higher(peak, st'.best) ELSE peak
        /\ GivesUp \/ GivesBack(bid) \/ Late
    BY <1>12, ExitRejectedCases
  <2>2. peak' \in Int
    BY <1>0, <2>1, HigherType
  <2>3. \/ Record(FALSE) /\ Save
        \/ UNCHANGED <<mark, excuse, file, saved>>
    BY <2>1 DEF GivesUp, GivesBack, Late
  <2> QED
    BY <1>8, <2>1, <2>2, <2>3
<1>13. CASE Restart
  <2>1. restarts' \in 0 .. MaxRestarts
    BY <1>0, <1>13 DEF Restart
  <2>2. orders' \in Seq({"enter", "exit"})
    BY <1>13 DEF Restart
  <2> QED
    BY <1>0, <1>13, <2>1, <2>2, TypeParts DEF Restart
<1> QED
  BY <1>1, <1>2, <1>3, <1>4, <1>5, <1>6, <1>7, <1>9, <1>10, <1>11, <1>12, <1>13
  DEF Next, Tick, Answer

-----------------------------------------------------------------------------
(* The parts of the invariant.                                             *)

LEMMA StepHeldOK ==
    ASSUME IInv, Next
    PROVE  HeldOK'
<1>0. /\ st \in States /\ file \in States /\ ram \in Rams
      /\ HeldOK /\ FileOK /\ Prices \subseteq Int
      /\ ram.atr \in Nat
  <2>1. Atrs \cup {0} \subseteq Nat
    BY LadderAssumption DEF LadderAssumption
  <2> QED
    BY <2>1, TypeFacts, Constants DEF IInv
<1>1. ASSUME st'.held => st.held, st'.priced = st.priced, st'.entryAtr = st.entryAtr
      PROVE  HeldOK'
  BY <1>0, <1>1 DEF HeldOK
<1>2. CASE Enter
  BY <1>0, <1>2 DEF Enter, HeldOK
<1>3. ASSUME NEW p \in Prices, Hold(p) \/ \E o \in BOOLEAN : Close(p, o)
      PROVE  HeldOK'
  <2>1. /\ Climbed(st, p) \in States /\ Climbed(st, p).held = st.held
        /\ Climbed(st, p).priced = st.priced /\ Climbed(st, p).entryAtr = st.entryAtr
    BY <1>0, ClimbedOK
  <2>2. st' = Climbed(st, p) \/ st' = [Climbed(st, p) EXCEPT !.held = FALSE]
    BY <1>3 DEF Hold, Close
  <2> QED
    BY <1>1, <2>1, <2>2 DEF States
<1>4. CASE EmergencyExit
  BY <1>0, <1>1, <1>4 DEF EmergencyExit, States
<1>5. CASE st' = st
  BY <1>1, <1>5
<1>6. ASSUME NEW slip, EntryFilled(slip)
      PROVE  HeldOK'
  BY <1>0, <1>6 DEF EntryFilled, Cleared, HeldOK, States
<1>7. CASE ExitFilled
  BY <1>0, <1>7 DEF ExitFilled, Cleared, HeldOK, States
<1>8. CASE EntryRejected
  <2>1. st' = Flat \/ st' = st
    BY <1>8 DEF EntryRejected
  <2> QED
    BY <1>5, <2>1 DEF Flat, HeldOK
<1>9. ASSUME NEW bid \in Prices, ExitRejected(bid)
      PROVE  HeldOK'
  <2>1. CASE GivesUp
    BY <1>0, <2>1 DEF GivesUp, HeldOK, States
  <2>2. CASE GivesBack(bid)
    BY <1>0, <2>2 DEF GivesBack, HeldOK, States
  <2>3. CASE Late
    BY <1>5, <2>3 DEF Late
  <2> QED
    BY <1>9, <2>1, <2>2, <2>3, ExitRejectedCases
<1>10. CASE Restart
  BY <1>0, <1>10 DEF Restart, Restored, Flat, HeldOK, FileOK
<1> QED
  BY <1>2, <1>3, <1>4, <1>5, <1>6, <1>7, <1>8, <1>9, <1>10
  DEF Next, Tick, Answer, Ignore, AtrChanges, Ages, Unblock, Unpause

\* A saved position: a restart, which knows no ATR, computes no lower stop.
LEMMA SavedOK ==
    ASSUME HeldOK', st' \in States, ram' \in Rams, setup' = setup, Save
    PROVE  FileOK'
<1> SUFFICES ASSUME file'.held
             PROVE  /\ file'.priced /\ file'.entryAtr > 0
                    /\ Stop(file', 0) >= saved'
  BY StopNext DEF FileOK
<1>1. /\ file' = st' /\ st'.held /\ saved' = Stop(st', ram'.atr)
      /\ ram'.atr \in Atrs \cup {0}
  BY DEF Save, Rams
<1>2. st'.priced /\ st'.entryAtr > 0
  BY <1>1 DEF HeldOK
<1>3. st'.entryAtr \in Nat
  <2>1. Atrs \cup {0} \subseteq Nat
    BY LadderAssumption DEF LadderAssumption
  <2> QED
    BY <2>1 DEF States
<1>4. Effective(st', 0) = st'.entryAtr
  BY <1>2, <1>3 DEF Effective, Higher
<1>5. Effective(st', ram'.atr) >= st'.entryAtr
  BY <1>1, EffectiveOK
<1>6. st'.best >= st'.best
  BY DEF States
<1>7. Stop(st', 0) >= Stop(st', ram'.atr)
  BY <1>1, <1>2, <1>4, <1>5, <1>6, StopRises
<1> QED
  BY <1>1, <1>2, <1>7

LEMMA StepFileOK ==
    ASSUME IInv, Next
    PROVE  FileOK'
<1>0. st' \in States /\ ram' \in Rams /\ HeldOK'
  BY Steps, StepHeldOK
<1>1. ASSUME UNCHANGED <<setup, file, saved>>
      PROVE  FileOK'
  BY <1>1, StopNext DEF IInv, FileOK
<1>2. setup' = setup /\ (Save \/ UNCHANGED <<file, saved>>)
  <2>1. ASSUME NEW bid, ExitRejected(bid)
        PROVE  setup' = setup /\ (Save \/ UNCHANGED <<file, saved>>)
    BY <2>1, ExitRejectedCases DEF Answered, GivesUp, GivesBack, Late
  <2>2. CASE EntryRejected
    BY <2>2 DEF EntryRejected, Answered
  <2>3. CASE \E p \in Prices : Hold(p) \/ \E o \in BOOLEAN : Close(p, o)
    BY <2>3 DEF Hold, Close
  <2>4. CASE \E slip \in Slips : EntryFilled(slip)
    BY <2>4 DEF EntryFilled, Answered
  <2> QED
    BY <2>1, <2>2, <2>3, <2>4
    DEF Next, Tick, Answer, Enter, Ignore, EmergencyExit, Ages, Unblock, Unpause,
        AtrChanges, ExitFilled, Answered, Restart
<1> QED
  BY <1>0, <1>1, <1>2, SavedOK

LEMMA StepPeakOK ==
    ASSUME IInv, Next
    PROVE  PeakOK'
<1>0. /\ st \in States /\ ram \in Rams /\ st.best \in Int /\ peak \in Int
      /\ HeldOK /\ PeakOK /\ Prices \subseteq Int /\ Spread \in Int
  BY TypeFacts, Constants DEF IInv, States
<1>1. ASSUME excuse' # "restarted" => excuse # "restarted",
             st'.priced => st.priced /\ st'.best = st.best /\ peak' = peak
      PROVE  PeakOK'
  BY <1>0, <1>1 DEF PeakOK
<1>2. \A lowered : Record(lowered) => (excuse' # "restarted" => excuse # "restarted")
  BY DEF Record
<1>3. CASE Enter
  BY <1>3 DEF Enter, PeakOK
<1>4. ASSUME NEW p \in Prices, Hold(p) \/ \E o \in BOOLEAN : Close(p, o)
      PROVE  PeakOK'
  <2>1. /\ Climbed(st, p) \in States /\ Climbed(st, p).best = Higher(st.best, p)
        /\ Climbed(st, p).priced = st.priced
    BY <1>0, ClimbedOK
  <2>2. st'.best = Higher(st.best, p) /\ st'.priced = st.priced
    <3>1. st' = Climbed(st, p) \/ st' = [Climbed(st, p) EXCEPT !.held = FALSE]
      BY <1>4 DEF Hold, Close
    <3> QED
      BY <2>1, <3>1 DEF States
  <2>3. peak' = Higher(peak, p) /\ Record(FALSE)
    BY <1>4 DEF Hold, Close
  <2> QED
    BY <1>0, <1>2, <2>2, <2>3 DEF PeakOK
<1>5. CASE EmergencyExit
  BY <1>0, <1>1, <1>5 DEF EmergencyExit, States
<1>6. CASE /\ st' = st /\ peak' = peak
           /\ (excuse' = excuse \/ \E lowered : Record(lowered))
  BY <1>1, <1>2, <1>6
<1>7. ASSUME NEW slip, EntryFilled(slip)
      PROVE  PeakOK'
  <2>1. st'.priced => st.priced /\ st'.best = st.best
    BY <1>0, <1>7 DEF EntryFilled, Cleared, States
  <2>2. peak' = peak /\ \E lowered : Record(lowered)
    BY <1>7 DEF EntryFilled
  <2> QED
    BY <1>1, <1>2, <2>1, <2>2
<1>8. CASE ExitFilled
  <2>1. st'.priced => st.priced /\ st'.best = st.best
    BY <1>0, <1>8 DEF ExitFilled, Cleared, States
  <2>2. peak' = peak /\ Record(FALSE)
    BY <1>8 DEF ExitFilled
  <2> QED
    BY <1>1, <1>2, <2>1, <2>2
<1>9. CASE EntryRejected
  <2>1. CASE st' = Flat
    BY <2>1 DEF Flat, PeakOK
  <2>2. CASE st' = st /\ excuse' = excuse
    BY <1>6, <1>9, <2>2 DEF EntryRejected
  <2> QED
    BY <1>9, <2>1, <2>2 DEF EntryRejected
<1>10. ASSUME NEW bid \in Prices, ExitRejected(bid)
       PROVE  PeakOK'
  <2>1. peak' = IF st'.held THEN Higher(peak, st'.best) ELSE peak
    BY <1>10, ExitRejectedCases
  <2>2. CASE GivesUp
    <3>1. ~st'.priced
      BY <1>0, <2>2 DEF GivesUp, States
    <3> QED
      BY <3>1 DEF PeakOK
  <2>3. CASE GivesBack(bid)
    <3>1. Shown(bid) \in Int
      BY <1>0 DEF Shown
    <3>2. /\ st'.held /\ st'.best = Higher(st.best, Shown(bid)) /\ st.priced
          /\ Record(FALSE)
      BY <1>0, <2>3 DEF GivesBack, States
    <3>3. excuse' # "restarted" => st.best = peak
      BY <1>0, <1>2, <3>2 DEF PeakOK
    <3> QED
      BY <1>0, <2>1, <3>1, <3>2, <3>3 DEF PeakOK, Higher
  <2>4. CASE Late
    <3>1. st' = st /\ excuse' = excuse
      BY <2>4 DEF Late
    <3>2. st'.held /\ st.priced /\ excuse # "restarted" => peak' = peak
      BY <1>0, <2>1, <3>1 DEF PeakOK, Higher
    <3>3. ~st'.held => peak' = peak
      BY <2>1
    <3> QED
      BY <1>0, <3>1, <3>2, <3>3 DEF PeakOK
  <2> QED
    BY <1>10, <2>2, <2>3, <2>4, ExitRejectedCases
<1>11. CASE Restart
  BY <1>11 DEF Restart, PeakOK
<1>12. ASSUME NEW a, AtrChanges(a)
       PROVE  PeakOK'
  <2>1. st' = st /\ peak' = peak /\ \E lowered : Record(lowered)
    BY <1>12 DEF AtrChanges
  <2> QED
    BY <1>6, <2>1
<1> QED
  BY <1>3, <1>4, <1>5, <1>6, <1>7, <1>8, <1>9, <1>10, <1>11, <1>12
  DEF Next, Tick, Answer, Ignore, Ages, Unblock, Unpause

\* A step of the same trade in which nothing lowers the stop.
LEMMA MarkKept ==
    ASSUME IInv, st' \in States, ram' \in Rams, setup' = setup,
           st'.priced => /\ st.priced /\ st'.entry = st.entry
                         /\ st'.best >= st.best
                         /\ st'.trailing => st.trailing \/ Trails(st', ram'.atr)
                         /\ st'.breakeven => \/ st.breakeven
                                             \/ st'.best - st'.entry >= Breakeven,
           excuse' = "none" => /\ excuse = "none"
                               /\ \/ Effective(st', ram'.atr) = Effective(st, ram.atr)
                                  \/ /\ 0 < Effective(st', ram'.atr)
                                     /\ Effective(st', ram'.atr) <= Effective(st, ram.atr)
                               /\ \/ mark' = mark
                                  \/ mark' = Higher(mark, Stop(st', ram'.atr))
    PROVE  MarkOK'
<1> SUFFICES ASSUME st'.priced, excuse' = "none"
             PROVE  /\ st'.entry = 0
                    /\ Stop(st', ram'.atr) >= mark'
                    /\ st'.trailing => Trails(st', ram'.atr)
                    /\ st'.breakeven => st'.best >= Breakeven
  BY StopNext DEF MarkOK
<1>0. /\ st \in States /\ ram \in Rams /\ mark \in Int
      /\ ram.atr \in Atrs \cup {0} /\ ram'.atr \in Atrs \cup {0}
      /\ st.best \in Int /\ st'.best \in Int /\ Breakeven \in Int
  BY TypeFacts, Constants DEF IInv, States, Rams
<1>1. /\ st.entry = 0 /\ Stop(st, ram.atr) >= mark
      /\ st.trailing => Trails(st, ram.atr)
      /\ st.breakeven => st.best >= Breakeven
  BY DEF IInv, MarkOK
<1>2. /\ Stop(st', ram'.atr) >= Stop(st, ram.atr)
      /\ Trails(st, ram.atr) => Trails(st', ram'.atr)
  BY <1>0, StopRises
<1>3. Stop(st', ram'.atr) \in Int /\ Stop(st, ram.atr) \in Int
  BY <1>0, StopType
<1>4. Stop(st', ram'.atr) >= mark'
  BY <1>0, <1>1, <1>2, <1>3 DEF Higher
<1>5. st'.breakeven => st'.best >= Breakeven
  BY <1>0, <1>1
<1> QED
  BY <1>1, <1>2, <1>4, <1>5

\* What Record makes of an untouched state of a trade.
LEMMA RecordMark ==
    ASSUME NEW lowered, Record(lowered), excuse' = "none"
    PROVE  /\ excuse = "none" /\ ~lowered
           /\ mark' = mark \/ mark' = Higher(mark, Stop(st', ram'.atr))
BY DEF Record

LEMMA StepMarkOK ==
    ASSUME IInv, Next
    PROVE  MarkOK'
<1>0. /\ st \in States /\ ram \in Rams /\ st.best \in Int /\ st.entry \in Int
      /\ HeldOK /\ MarkOK /\ Prices \subseteq Int /\ Spread \in Int
      /\ ram.atr \in Atrs \cup {0} /\ st' \in States /\ ram' \in Rams
  BY Steps, TypeFacts, Constants DEF IInv, States
<1>1. ASSUME UNCHANGED <<setup, st, mark, excuse>>, ram'.atr = ram.atr
      PROVE  MarkOK'
  <2>1. st'.best >= st.best
    BY <1>0, <1>1
  <2> QED
    BY <1>0, <1>1, <2>1, MarkKept
<1>2. CASE Enter
  <2>1. /\ st' = [held |-> TRUE, priced |-> TRUE, entry |-> 0, best |-> 0,
                  trailing |-> FALSE, breakeven |-> FALSE, entryAtr |-> ram.atr]
        /\ mark' = Stop(st', ram.atr) /\ setup' = setup
    BY <1>2 DEF Enter
  <2>2. ram'.atr = ram.atr
    BY <1>0, <1>2 DEF Enter, Rams
  <2>3. Stop(st', ram.atr) \in Int
    BY <1>0, StopType
  <2>4. Stop(st', ram'.atr) >= mark'
    BY <2>1, <2>2, <2>3
  <2> QED
    BY <2>1, <2>4, StopNext DEF MarkOK
<1>3. ASSUME NEW p \in Prices, Hold(p) \/ \E o \in BOOLEAN : Close(p, o)
      PROVE  MarkOK'
  <2> DEFINE t == Climbed(st, p)
  <2>1. /\ t \in States /\ t.priced = st.priced /\ t.entry = st.entry
        /\ t.entryAtr = st.entryAtr /\ t.best >= st.best
        /\ t.trailing => st.trailing \/ Trails(t, ram.atr)
        /\ t.breakeven => st.breakeven \/ t.best - t.entry >= Breakeven
    BY <1>0, ClimbedOK
  <2>2. /\ st' = t \/ st' = [t EXCEPT !.held = FALSE]
        /\ Record(FALSE) /\ setup' = setup
    BY <1>3 DEF Hold, Close
  <2>3. ram'.atr = ram.atr
    <3>1. ram' = [ram EXCEPT !.seen = TRUE]
          \/ \E x : ram' = [ram EXCEPT !.seen = TRUE, !.paused = x]
      BY <1>3 DEF Hold, Ticker, Close
    <3> QED
      BY <1>0, <3>1 DEF Rams
  <2> HIDE DEF t
  <2>4. /\ st'.priced = t.priced /\ st'.entry = t.entry /\ st'.entryAtr = t.entryAtr
        /\ st'.best = t.best /\ st'.trailing = t.trailing
        /\ st'.breakeven = t.breakeven
    BY <2>1, <2>2 DEF States
  <2>5. Trails(t, ram.atr) = Trails(st', ram'.atr)
    BY <2>3, <2>4 DEF Trails, Terms, Effective
  <2>6. Effective(st', ram'.atr) = Effective(st, ram.atr)
    BY <2>1, <2>3, <2>4 DEF Effective
  <2> QED
    BY <1>0, <2>1, <2>2, <2>4, <2>5, <2>6, RecordMark, MarkKept
<1>4. CASE EmergencyExit
  <2>1. /\ st'.priced = st.priced /\ st'.entry = st.entry /\ st'.best = st.best
        /\ st'.entryAtr = st.entryAtr /\ st'.trailing = st.trailing
        /\ st'.breakeven = st.breakeven
    BY <1>0, <1>4 DEF EmergencyExit, States
  <2>2. UNCHANGED <<setup, ram, mark, excuse>>
    BY <1>4 DEF EmergencyExit
  <2>3. Effective(st', ram'.atr) = Effective(st, ram.atr)
    BY <2>1, <2>2 DEF Effective
  <2>4. st'.best >= st.best
    BY <1>0, <2>1
  <2> QED
    BY <1>0, <2>1, <2>2, <2>3, <2>4, MarkKept
<1>5. ASSUME NEW a \in Atrs, AtrChanges(a)
      PROVE  MarkOK'
  <2>1. /\ st' = st /\ setup' = setup /\ a > 0
        /\ Record(Effective(st, a) > Effective(st, ram.atr))
    BY <1>5 DEF AtrChanges
  <2>2. ram'.atr = a
    BY <1>0, <1>5 DEF AtrChanges, Rams
  <2>3. /\ Effective(st, a) \in Nat /\ Effective(st, a) >= a
        /\ Effective(st, ram.atr) \in Nat /\ a \in Nat
    <3>1. a \in Atrs \cup {0} /\ a \in Nat
      BY LadderAssumption DEF LadderAssumption
    <3> QED
      BY <1>0, <3>1, EffectiveOK
  <2>4. excuse' = "none" => /\ 0 < Effective(st', ram'.atr)
                            /\ Effective(st', ram'.atr) <= Effective(st, ram.atr)
    <3>1. excuse' = "none" => ~(Effective(st, a) > Effective(st, ram.atr))
      BY <2>1 DEF Record
    <3>2. Effective(st', ram'.atr) = Effective(st, a)
      BY <2>1, <2>2
    <3> QED
      BY <2>1, <2>3, <3>1, <3>2
  <2>5. st'.best >= st.best
    BY <1>0, <2>1
  <2> QED
    BY <1>0, <2>1, <2>4, <2>5, RecordMark, MarkKept
<1>6. CASE Ignore \/ Ages \/ Unblock \/ Unpause
  <2>1. UNCHANGED <<setup, st, mark, excuse>>
    BY <1>6 DEF Ignore, Ages, Unblock, Unpause
  <2>2. ram'.atr = ram.atr
    BY <1>0, <1>6 DEF Ignore, Ticker, Ages, Unblock, Unpause, Rams
  <2> QED
    BY <1>1, <2>1, <2>2
<1>7. ASSUME NEW slip, EntryFilled(slip)
      PROVE  MarkOK'
  <2>1. Record(st' # st) /\ ram' = ram /\ setup' = setup
    BY <1>7 DEF EntryFilled, Answered
  <2>2. CASE st' = st
    <3>1. st'.best >= st.best
      BY <1>0, <2>2
    <3> QED
      BY <1>0, <2>1, <2>2, <3>1, RecordMark, MarkKept
  <2>3. CASE st' # st
    BY <2>1, <2>3, RecordMark DEF MarkOK
  <2> QED
    BY <2>2, <2>3
<1>8. CASE ExitFilled
  <2>1. Record(FALSE) /\ ram' = ram /\ setup' = setup
    BY <1>8 DEF ExitFilled, Answered
  <2>2. CASE st' = st
    <3>1. st'.best >= st.best
      BY <1>0, <2>2
    <3> QED
      BY <1>0, <2>1, <2>2, <3>1, RecordMark, MarkKept
  <2>3. CASE st' # st
    <3>1. ~st'.priced
      BY <1>0, <1>8, <2>3 DEF ExitFilled, Cleared, States
    <3> QED
      BY <3>1 DEF MarkOK
  <2> QED
    BY <2>2, <2>3
<1>9. CASE EntryRejected
  <2>1. CASE st' = Flat
    BY <2>1 DEF Flat, MarkOK
  <2>2. CASE UNCHANGED <<st, mark, excuse>>
    <3>1. ram' = ram /\ setup' = setup
      BY <1>9 DEF EntryRejected, Answered
    <3> QED
      BY <1>1, <2>2, <3>1
  <2> QED
    BY <1>9, <2>1, <2>2 DEF EntryRejected
<1>10. ASSUME NEW bid \in Prices, ExitRejected(bid)
       PROVE  MarkOK'
  <2>1. setup' = setup
    BY <1>10, ExitRejectedCases DEF Answered
  <2>2. CASE GivesUp
    <3>1. ~st'.priced
      BY <1>0, <2>2 DEF GivesUp, States
    <3> QED
      BY <3>1 DEF MarkOK
  <2>3. CASE GivesBack(bid)
    <3>1. Shown(bid) \in Int
      BY <1>0 DEF Shown
    <3>2. Higher(st.best, Shown(bid)) >= st.best
      BY <1>0, <3>1 DEF Higher
    <3>3. /\ st.priced /\ st'.entry = st.entry /\ st'.entryAtr = st.entryAtr
          /\ st'.best >= st.best /\ st'.trailing = st.trailing
          /\ st'.breakeven = st.breakeven
      BY <1>0, <2>3, <3>2 DEF GivesBack, States
    <3>4. ram'.atr = ram.atr /\ Record(FALSE)
      BY <1>0, <2>3 DEF GivesBack, Rams
    <3>5. Effective(st', ram'.atr) = Effective(st, ram.atr)
      BY <3>3, <3>4 DEF Effective
    <3> QED
      BY <1>0, <2>1, <3>3, <3>4, <3>5, RecordMark, MarkKept
  <2>4. CASE Late
    BY <1>1, <2>1, <2>4 DEF Late
  <2> QED
    BY <1>10, <2>2, <2>3, <2>4, ExitRejectedCases
<1>11. CASE Restart
  BY <1>11 DEF Restart, MarkOK
<1> QED
  BY <1>2, <1>3, <1>4, <1>5, <1>6, <1>7, <1>8, <1>9, <1>10, <1>11
  DEF Next, Tick, Answer

-----------------------------------------------------------------------------
LEMMA Invariance == Spec => []IInv
<1>1. Init => IInv
  <2> SUFFICES ASSUME Init PROVE IInv
    OBVIOUS
  <2>1. MaxTrades \in Nat /\ MaxHold \in Nat /\ MaxRestarts \in Nat
    BY Constants
  <2>2. Flat \in States /\ Fresh \in Rams
    BY DEF Flat, Fresh, States, Rams
  <2>3. /\ trade \in 0 .. MaxTrades /\ age \in 0 .. MaxHold
        /\ restarts \in 0 .. MaxRestarts /\ {peak, mark, saved} \subseteq Int
    BY <2>1 DEF Init
  <2>4. orders \in Seq({"enter", "exit"})
    BY DEF Init
  <2>5. lost \in BOOLEAN /\ excuse \in {"none", "lowered", "restarted"}
    BY Zenon DEF Init
  <2>6. {st, file} \subseteq States /\ ram \in Rams
    BY <2>2 DEF Init
  <2>7. TypeOK
    BY <2>3, <2>4, <2>5, <2>6 DEF Init, TypeOK, States, Rams
  <2> QED
    BY <2>7 DEF Init, IInv, HeldOK, FileOK, PeakOK, MarkOK, Flat
<1>2. IInv /\ [Next]_vars => IInv'
  <2>1. ASSUME IInv, Next PROVE IInv'
    BY <2>1, StepTypeOK, StepHeldOK, StepFileOK, StepPeakOK, StepMarkOK DEF IInv
  <2>2. ASSUME IInv, UNCHANGED vars PROVE IInv'
    BY <2>2, StopNext DEF IInv, TypeOK, HeldOK, FileOK, PeakOK, MarkOK, vars
  <2> QED
    BY <2>1, <2>2
<1> QED
  BY <1>1, <1>2, PTL DEF Spec

\* Types, for every ladder and every bound.
THEOREM LadderTypes == Spec => []TypeOK
<1>1. IInv => TypeOK
  BY DEF IInv
<1> QED
  BY <1>1, Invariance, PTL

\* The stop never moves against the position, exits that fail included.
THEOREM StopNeverFallsBack == Spec => []StopHeld
<1>1. IInv => StopHeld
  BY DEF IInv, HeldOK, MarkOK, StopHeld
<1> QED
  BY <1>1, Invariance, PTL

\* A gain of break-even is never given back by the ladder, whatever fills, failed
\* exits and the ATR do.
THEOREM BreakevenIsKept == Spec => []BreakevenProtects
<1>1. IInv => BreakevenProtects
  <2> SUFFICES ASSUME IInv, st.held, excuse # "restarted", peak - st.entry >= Breakeven
               PROVE  Stop(st, ram.atr) >= st.entry
    BY DEF BreakevenProtects
  <2>1. st.best = peak
    BY DEF IInv, HeldOK, PeakOK
  <2>2. st \in States /\ ram.atr \in Atrs \cup {0}
    BY TypeFacts DEF IInv
  <2> QED
    BY <2>1, <2>2, StopCovers
<1> QED
  BY <1>1, Invariance, PTL

\* A restart never lowers the stop of the position that it finds.
THEOREM RestartsKeepTheStop == Spec => RestartKeepsStop
<1>1. IInv /\ [Next]_vars => [restarts' # restarts /\ file.held
        => st'.held /\ st'.priced /\ Stop(st', ram'.atr) >= saved]_vars
  <2> SUFFICES ASSUME IInv, Next, restarts' # restarts, file.held
               PROVE  st'.held /\ st'.priced /\ Stop(st', ram'.atr) >= saved
    OBVIOUS
  <2>1. Restart
    BY DEF Next, Tick, Answer, Enter, Ignore, Hold, Close, EmergencyExit, Ages, Unblock,
           Unpause, AtrChanges, EntryFilled, ExitFilled, EntryRejected, ExitRejected,
           Answered
  <2>2. st' = file /\ ram' = Fresh
    BY <2>1 DEF Restart, Restored
  <2>3. ram'.atr = 0
    BY <2>2 DEF Fresh
  <2> QED
    BY <2>2, <2>3 DEF IInv, FileOK
<1> QED
  BY <1>1, Invariance, PTL DEF Spec, RestartKeepsStop

\* The only exit that can be one at a loss is a ticker's.
LEMMA OnlyClose ==
    ASSUME TypeOK, Next, lost', orders' = Append(orders, "exit")
    PROVE  \E p \in Prices, o \in BOOLEAN : Close(p, o)
<1>1. /\ orders' # orders /\ orders' # <<>>
      /\ orders # <<>> => orders' # Tail(orders)
  <2>1. orders \in Seq({"enter", "exit"})
    BY TypeFacts
  <2>2. Len(orders') = Len(orders) + 1 /\ Len(orders) \in Nat
    BY <2>1
  <2>3. orders # <<>> => Len(Tail(orders)) = Len(orders) - 1
    BY <2>1
  <2> QED
    BY <2>1, <2>2, <2>3
<1>2. \A kind : ~Answered(kind)
  BY <1>1 DEF Answered
<1>3. ~Enter /\ ~EmergencyExit
  BY DEF Enter, EmergencyExit
<1> QED
  BY <1>1, <1>2, <1>3
  DEF Next, Tick, Answer, Ignore, Hold, Ages, Unblock, Unpause, AtrChanges, Restart,
      EntryFilled, ExitFilled, EntryRejected, ExitRejected

\* A loss at the stop that no gain had protected is called so and pauses entries.
THEOREM StopOutsPause == Spec => StopOutPauses
<1>1. IInv /\ [Next]_vars => [/\ lost' /\ orders' = Append(orders, "exit")
                             /\ excuse = "none"
                             /\ peak' < Breakeven
                             /\ peak' < Terms(st, ram.atr).trigger
                             => ram'.paused]_vars
  <2> SUFFICES ASSUME IInv, Next, lost', orders' = Append(orders, "exit"),
                      excuse = "none", peak' < Breakeven,
                      peak' < Terms(st, ram.atr).trigger
               PROVE  ram'.paused
    OBVIOUS
  <2>1. PICK p \in Prices, o \in BOOLEAN : Close(p, o)
    BY OnlyClose DEF IInv
  <2> DEFINE s == Climbed(st, p)
  <2>2. /\ st \in States /\ ram \in Rams /\ ram.atr \in Atrs \cup {0} /\ p \in Int
        /\ st.best \in Int /\ peak \in Int /\ Terms(st, ram.atr).trigger \in Nat
        /\ Breakeven \in Int /\ TakeProfit \in Int /\ Fee \in Int
        /\ Fee <= TakeProfit
    <3>1. st \in States /\ ram.atr \in Atrs \cup {0}
      BY TypeFacts DEF IInv
    <3>2. Fee <= TakeProfit
      BY Constants
    <3> QED
      BY <3>1, <3>2, TypeFacts, Constants, TermsOK DEF IInv, States
  <2>3. /\ st.entry = 0 /\ st.best = peak
        /\ st.trailing => Trails(st, ram.atr)
        /\ st.breakeven => st.best >= Breakeven
    BY <2>1 DEF Close, IInv, HeldOK, PeakOK, MarkOK
  <2>4. /\ s.entry = 0 /\ s.entryAtr = st.entryAtr /\ s.best = Higher(peak, p)
        /\ s.trailing => st.trailing \/ Trails(s, ram.atr)
        /\ s.breakeven => st.breakeven \/ s.best - s.entry >= Breakeven
    BY <2>2, <2>3, ClimbedOK
  <2>5. peak' = Higher(peak, p) /\ peak <= peak' /\ peak' \in Int
    BY <2>1, <2>2 DEF Close, Higher
  <2>6. /\ lost' = (Stopped(s, p) /\ Net(s, p) < 0)
        /\ ram' = [ram EXCEPT !.seen = TRUE,
                     !.paused = \/ Reason(s, p) \in {"stop", "timeout"}
                                   /\ Net(s, p) < 0
                                \/ @ /\ Net(s, p) <= 0]
    BY <2>1 DEF Close
  <2> HIDE DEF s
  <2>7. ~s.trailing
    <3>1. Terms(s, ram.atr) = Terms(st, ram.atr)
      BY <2>4 DEF Terms, Effective
    <3>2. ~Trails(s, ram.atr)
      BY <2>2, <2>4, <2>5, <3>1 DEF Trails
    <3>3. ~Trails(st, ram.atr)
      BY <2>2, <2>3, <2>5 DEF Trails
    <3> QED
      BY <2>3, <2>4, <3>2, <3>3
  <2>8. ~s.breakeven
    BY <2>2, <2>3, <2>4, <2>5
  <2>9. Stopped(s, p) /\ Net(s, p) < 0 /\ ~Rich(s, p)
    <3>1. Stopped(s, p) /\ Net(s, p) < 0
      BY Zenon, <2>6
    <3>2. ~(p - s.entry >= TakeProfit)
      BY <2>2, <2>4, <3>1 DEF Net
    <3> QED
      BY <3>1, <3>2 DEF Rich
  <2>10. Reason(s, p) = "stop"
    BY <2>7, <2>8, <2>9 DEF Reason
  <2> QED
    BY <2>2, <2>6, <2>9, <2>10 DEF Rams
<1> QED
  BY <1>1, Invariance, PTL DEF Spec, StopOutPauses
=============================================================================
