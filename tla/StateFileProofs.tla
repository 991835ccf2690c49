--------------------------- MODULE StateFileProofs --------------------------
(***************************************************************************)
(* Types, and the four promises of the state file, for every bound and     *)
(* every limit: any snapshot can be loaded, strategy and account agree     *)
(* when no order is in the air, and neither the day's limit nor the        *)
(* cooldowns are forgotten by restarts that find the last snapshot.        *)
(***************************************************************************)
EXTENDS StateFile, FiniteSetTheorems, SequenceTheorems, TLAPS

\* Snapshots that a restart takes for valid.
Valid == {s \in Saved : Loads(s)}

\* Everything but the snapshots.
RestOK ==
    /\ shorts \in BOOLEAN
    /\ ram \in [fails : 0 .. GiveUp, paused : BOOLEAN]
    /\ orders \in Seq({"buy", "sell", "short", "cover"})
    /\ account \in Int
    /\ clock \in [day : 1 .. MaxDay, instant : 0 .. MaxInstants,
                  cooling : BOOLEAN, resting : BOOLEAN]
    /\ entered \in Nat /\ backs \in Nat
    /\ adrift \in Int
    /\ restarts \in 0 .. MaxRestarts
    /\ mishaps \subseteq {"apart", "stale", "forgot"}

SavesOK ==
    /\ st \in Valid
    /\ pending \in Seq(Valid)
    /\ file \in Seq(Valid)
    /\ newest \in Seq(Valid)

\* Removing an element keeps a sequence a sequence over its set.
LEMMA RemoveAtType ==
    ASSUME NEW S, NEW s \in Seq(S), NEW i \in 1 .. Len(s)
    PROVE  RemoveAt(s, i) \in Seq(S)
<1>1. SubSeq(s, 1, i - 1) \in Seq(S)
  <2>1. i - 1 \in Int /\ 1 \in Int /\ \A j \in 1 .. i - 1 : s[j] \in S
    OBVIOUS
  <2> QED
    BY <2>1, SubSeqProperties
<1>2. SubSeq(s, i + 1, Len(s)) \in Seq(S)
  <2>1. i + 1 \in Int /\ Len(s) \in Int /\ \A j \in i + 1 .. Len(s) : s[j] \in S
    OBVIOUS
  <2> QED
    BY <2>1, SubSeqProperties
<1> QED
  BY <1>1, <1>2, ConcatProperties DEF RemoveAt

\* A valid state makes a valid snapshot.
LEMMA SaveOK ==
    ASSUME SavesOK, Save, st' \in Valid
    PROVE  pending' \in Seq(Valid) /\ newest' \in Seq(Valid)
BY DEF SavesOK, Save

\* The fields of a valid snapshot, and what makes one.
LEMMA ValidFields ==
    ASSUME NEW s \in Valid
    PROVE  /\ s \in Saved /\ Loads(s)
           /\ s.side \in {"None", "Long", "Short"} /\ s.priced \in BOOLEAN
           /\ s.trades \in 0 .. DailyTrades /\ s.day \in 0 .. MaxDay
           /\ s.stamp \in 0 .. MaxInstants
BY DEF Valid, Saved

LEMMA MakesValid ==
    ASSUME NEW side \in {"None", "Long", "Short"}, NEW priced \in BOOLEAN,
           NEW trades \in 0 .. DailyTrades, NEW day \in 0 .. MaxDay,
           NEW stamp \in 0 .. MaxInstants, side # "None" => priced
    PROVE  [side |-> side, priced |-> priced, trades |-> trades, day |-> day,
            stamp |-> stamp] \in Valid
BY DEF Valid, Saved, Loads

\* The ranges of days, instants and trades.
LEMMA Ranges ==
    ASSUME FileAssumption, RestOK
    PROVE  /\ DailyTrades \in Nat /\ MaxDay \in Nat /\ MaxInstants \in Nat
           /\ MaxRestarts \in Nat /\ GiveUp \in Nat /\ GiveUp > 0 /\ MaxDay > 0
           /\ clock.day \in 1 .. MaxDay /\ clock.day \in 0 .. MaxDay
           /\ clock.instant \in 0 .. MaxInstants
           /\ clock.cooling \in BOOLEAN /\ clock.resting \in BOOLEAN
<1>1. /\ DailyTrades \in Nat /\ MaxDay \in Nat /\ MaxInstants \in Nat
      /\ MaxRestarts \in Nat /\ GiveUp \in Nat /\ GiveUp > 0 /\ MaxDay > 0
  BY DEF FileAssumption
<1> QED
  BY <1>1 DEF RestOK

\* A day's reset keeps a state valid, whichever day.
LEMMA ResetOK ==
    ASSUME NEW s \in Valid, NEW day \in 0 .. MaxDay, FileAssumption
    PROVE  /\ Reset(s, day) \in Valid /\ Reset(s, day) \in Saved
           /\ Reset(s, day).day = day
           /\ Reset(s, day).side = s.side /\ Reset(s, day).priced = s.priced
           /\ Reset(s, day).stamp = s.stamp
           /\ Reset(s, day).trades = IF s.day = day THEN s.trades ELSE 0
<1>0. s \in Saved /\ Loads(s)
  BY DEF Valid
<1>1. CASE s.day = day
  BY <1>0, <1>1 DEF Reset
<1>2. CASE s.day # day
  <2>1. Reset(s, day) = [s EXCEPT !.trades = 0, !.day = day]
    BY <1>2 DEF Reset
  <2>2. 0 \in 0 .. DailyTrades
    BY DEF FileAssumption
  <2>3. Reset(s, day) \in Saved
    BY <1>0, <2>1, <2>2 DEF Saved
  <2>4. /\ Reset(s, day).day = day /\ Reset(s, day).trades = 0
        /\ Reset(s, day).side = s.side /\ Reset(s, day).priced = s.priced
        /\ Reset(s, day).stamp = s.stamp
    BY <1>0, <2>1 DEF Saved
  <2>5. Loads(Reset(s, day))
    BY <1>0, <2>4 DEF Loads
  <2> QED
    BY <1>2, <2>3, <2>4, <2>5 DEF Valid
<1> QED
  BY <1>1, <1>2

\* A new day keeps a state valid.
LEMMA TodayOK ==
    ASSUME NEW s \in Valid, RestOK, FileAssumption
    PROVE  /\ Today(s) \in Valid
           /\ Today(s).day = clock.day
           /\ Today(s).side = s.side /\ Today(s).priced = s.priced
           /\ Today(s).stamp = s.stamp
BY Ranges, ResetOK, ZenonT(60) DEF Today

\* The day of a bar that closes a position, and the state that it leaves.
LEMMA EmergencyLeaves ==
    ASSUME FileAssumption, RestOK, st \in Valid, EmergencyExit
    PROVE  \E day \in {clock.day - 1, clock.day} :
             /\ st' \in Valid /\ st'.side = "None"
             /\ st'.day = day /\ st'.stamp = st.stamp
             /\ st'.trades = IF st.day = day THEN st.trades ELSE 0
             /\ ram' = [ram EXCEPT !.paused = PausedAfter(day)]
             /\ backs' = IF day < st.day THEN backs + 1 ELSE backs
             /\ mishaps' = IF day < st.day /\ clock.resting
                           THEN mishaps \cup {"forgot"} ELSE mishaps
<1>1. PICK day \in {clock.day - 1, clock.day} :
             /\ st' = [Reset(st, day) EXCEPT !.side = "None"]
             /\ ram' = [ram EXCEPT !.paused = PausedAfter(day)]
             /\ backs' = IF day < st.day THEN backs + 1 ELSE backs
             /\ mishaps' = IF day < st.day /\ clock.resting
                           THEN mishaps \cup {"forgot"} ELSE mishaps
  BY DEF EmergencyExit
<1>2. day \in 0 .. MaxDay
  BY Ranges
<1>3. /\ st' \in Saved /\ st'.side = "None"
      /\ st'.day = day /\ st'.stamp = st.stamp
      /\ st'.trades = IF st.day = day THEN st.trades ELSE 0
  BY <1>1, <1>2, ResetOK DEF Saved
<1>4. st' \in Valid
  BY <1>3 DEF Valid, Loads
<1> QED
  BY <1>1, <1>3, <1>4

LEMMA RestoredOK ==
    ASSUME NEW s \in Valid, NEW allowed \in BOOLEAN, RestOK, FileAssumption
    PROVE  Restored(s, allowed) \in Valid
<1>1. (IF s.side = "Short" /\ ~allowed THEN "None" ELSE s.side)
        \in {"None", "Long", "Short"}
  BY ValidFields
<1>2. (IF s.day = clock.day THEN s.trades ELSE 0) \in 0 .. DailyTrades
  BY ValidFields, Ranges
<1> QED
  BY <1>1, <1>2, ValidFields, Ranges, MakesValid DEF Restored

LEMMA FreshOK == ASSUME FileAssumption PROVE Fresh \in Valid
<1>1. DailyTrades \in Nat /\ MaxDay \in Nat /\ MaxInstants \in Nat
  BY DEF FileAssumption
<1>2. Fresh \in Saved
  BY <1>1 DEF Fresh, Saved
<1>3. Loads(Fresh)
  BY DEF Fresh, Loads
<1> QED
  BY <1>2, <1>3 DEF Valid

LEMMA InitOK == Init /\ FileAssumption => RestOK /\ SavesOK
<1> SUFFICES ASSUME Init, FileAssumption PROVE RestOK /\ SavesOK
  OBVIOUS
<1>1. /\ DailyTrades \in Nat /\ MaxDay \in Nat /\ MaxInstants \in Nat
      /\ MaxRestarts \in Nat /\ GiveUp \in Nat /\ MaxDay > 0
  BY DEF FileAssumption
<1>2. SavesOK
  BY FreshOK DEF Init, SavesOK
<1>3. clock \in [day : 1 .. MaxDay, instant : 0 .. MaxInstants,
                cooling : BOOLEAN, resting : BOOLEAN]
  BY <1>1 DEF Init
<1>4. ram \in [fails : 0 .. GiveUp, paused : BOOLEAN]
  BY <1>1 DEF Init, Forgotten
<1> QED
  BY <1>1, <1>2, <1>3, <1>4 DEF Init, RestOK

\* Every step keeps the snapshots valid.
LEMMA StepSavesOK ==
    ASSUME FileAssumption, RestOK, SavesOK, [Next]_vars
    PROVE  SavesOK'
<1> USE FileAssumption, RestOK, SavesOK
<1>0. st \in Saved /\ Loads(st) /\ st \in Valid
  BY DEF SavesOK, Valid
<1>1. CASE Quiet
  BY <1>0, <1>1, TodayOK DEF Quiet, SavesOK
<1>2. CASE EmergencyExit
  <2>1. st' \in Valid
    BY <1>0, <1>2, EmergencyLeaves
  <2> QED
    BY <1>2, <2>1, SaveOK DEF EmergencyExit, SavesOK
<1>3. ASSUME NEW side \in {"Long", "Short"}, Enter(side)
      PROVE  SavesOK'
  <2>1. Today(st).trades + 1 \in 0 .. DailyTrades
    BY <1>0, <1>3, TodayOK, ValidFields, Ranges, SMTT(40) DEF Enter
  <2>2. Trade \in 0 .. MaxInstants
    BY <1>3, Ranges, SMTT(40) DEF Enter, Trade
  <2>3. st' \in Valid
    BY <1>3, <2>1, <2>2, Ranges, MakesValid DEF Enter
  <2> QED
    BY <1>3, <2>3, SaveOK DEF Enter, SavesOK
<1>4. ASSUME NEW outcome \in {"loss", "win", "flat"}, Exit(outcome)
      PROVE  SavesOK'
  <2>0. Trade \in 0 .. MaxInstants
    BY <1>4, Ranges, SMTT(40) DEF Exit, Trade
  <2>1. st' \in Valid
    BY <1>0, <1>4, <2>0, TodayOK, ZenonT(60) DEF Exit, Valid, Saved, Loads
  <2> QED
    BY <1>4, <2>1, SaveOK DEF Exit, SavesOK
<1>5. ASSUME NEW order \in {"buy", "sell", "short", "cover"}, Fill(order)
      PROVE  SavesOK'
  <2>1. st' \in Valid
    BY <1>0, <1>5 DEF Fill, Cleared, Valid, Saved, Loads
  <2> QED
    BY <1>5, <2>1, SaveOK DEF Fill, SavesOK
<1>6. ASSUME NEW order \in {"buy", "sell", "short", "cover"}, RejectExit(order)
      PROVE  SavesOK'
  <2>1. CASE st' = st /\ pending' = pending /\ newest' = newest
    BY <1>6, <2>1 DEF RejectExit, SavesOK
  <2>2. CASE Save
    <3>1. st' \in Valid
      BY <1>0, <1>6, <2>2 DEF RejectExit, Valid, Saved, Loads
    <3> QED
      BY <1>6, <2>2, <3>1, SaveOK DEF RejectExit, SavesOK
  <2> QED
    BY <1>6, <2>1, <2>2 DEF RejectExit
<1>7. ASSUME NEW order \in {"buy", "sell", "short", "cover"},
             NEW poor \in BOOLEAN, RejectEntry(order, poor)
      PROVE  SavesOK'
  <2>1. CASE st' = st /\ pending' = pending /\ newest' = newest
    BY <1>7, <2>1 DEF RejectEntry, SavesOK
  <2>2. CASE Save /\ st.side # "None"
    <3>1. (IF st.trades > 0 THEN st.trades - 1 ELSE 0) \in 0 .. DailyTrades
      BY <1>0, ValidFields, Ranges
    <3>2. st' = [st EXCEPT !.side = "None", !.priced = FALSE,
                           !.trades = IF @ > 0 THEN @ - 1 ELSE 0]
      BY <1>7, <2>2 DEF RejectEntry
    <3>3. st' \in Valid
      BY <1>0, <3>1, <3>2 DEF Valid, Saved, Loads
    <3> QED
      BY <1>7, <2>2, <3>3, SaveOK DEF RejectEntry, SavesOK
  <2> QED
    BY <1>7, <2>1, <2>2 DEF RejectEntry
<1>8. ASSUME NEW i \in 1 .. Len(pending), SaveEnds(i)
      PROVE  SavesOK'
  <2>1. pending' \in Seq(Valid)
    BY <1>8, RemoveAtType DEF SaveEnds, SavesOK
  <2>2. file' \in Seq(Valid)
    BY <1>8 DEF SaveEnds, SavesOK
  <2> QED
    BY <1>8, <2>1, <2>2 DEF SaveEnds, SavesOK
<1>9. ASSUME NEW i \in 1 .. Len(pending), SaveFails(i)
      PROVE  SavesOK'
  BY <1>9, RemoveAtType DEF SaveFails, SavesOK
<1>10. CASE Restart
  <2>1. file # <<>> => file[1] \in Valid
    BY DEF SavesOK
  <2>2. st' \in Valid
    BY <1>10, <2>1, FreshOK, RestoredOK DEF Restart
  <2> QED
    BY <1>10, <2>2 DEF Restart, SavesOK
<1>11. CASE Midnight
  BY <1>11 DEF Midnight, SavesOK
<1>12. CASE Elapse
  BY <1>12 DEF Elapse, SavesOK
<1>13. CASE UNCHANGED vars
  BY <1>13 DEF vars, SavesOK
<1> QED
  BY <1>1, <1>2, <1>3, <1>4, <1>5, <1>6, <1>7, <1>8, <1>9, <1>10, <1>11, <1>12,
     <1>13 DEF Next

-----------------------------------------------------------------------------
(* Everything but the snapshots.                                           *)

\* An order may be executed, and answered, or not.
LEMMA ExecutesOK ==
    ASSUME FileAssumption, RestOK, NEW order, NEW least \in Nat, NEW counted \in Nat,
           Executes(order, least, counted)
    PROVE  account' \in Int /\ adrift' \in Int
<1>1. PICK n \in least .. MaxExecutions :
        /\ account' = IF Apart' THEN 0 ELSE account + Moved(order, n)
        /\ adrift' = IF Apart' THEN 0 ELSE adrift + Moved(order, n - counted)
  BY DEF Executes
<1>2. n \in Int /\ n - counted \in Int
  BY DEF FileAssumption
<1>3. Moved(order, n) \in Int /\ Moved(order, n - counted) \in Int
  BY <1>2 DEF Moved
<1>4. account \in Int /\ adrift \in Int
  BY DEF RestOK
<1> QED
  BY <1>1, <1>3, <1>4

LEMMA FailsOK ==
    ASSUME FileAssumption, RestOK, NEW order, NEW mishap \in SUBSET {"apart", "forgot"},
           NEW counted \in Nat, Fails(order, mishap, counted)
    PROVE  /\ account' \in Int /\ adrift' \in Int
           /\ mishaps' \subseteq {"apart", "stale", "forgot"}
<1>1. account' \in Int /\ adrift' \in Int
  BY ExecutesOK DEF Fails
<1>2. mishaps \subseteq {"apart", "stale", "forgot"}
  BY DEF RestOK
<1> QED
  BY <1>1, <1>2 DEF Fails

\* An answer takes the oldest order.
LEMMA TakenOK ==
    ASSUME RestOK, NEW order, Taken(order)
    PROVE  orders' \in Seq({"buy", "sell", "short", "cover"})
BY DEF RestOK, Taken

LEMMA StepRestOK ==
    ASSUME FileAssumption, RestOK, SavesOK, [Next]_vars
    PROVE  RestOK'
<1> USE FileAssumption, RestOK
<1> DEFINE Orders == {"buy", "sell", "short", "cover"}
<1>0. /\ st \in Valid /\ ram.fails \in 0 .. GiveUp /\ ram.paused \in BOOLEAN
      /\ orders \in Seq(Orders) /\ account \in Int /\ entered \in Nat
      /\ backs \in Nat /\ adrift \in Int
      /\ mishaps \subseteq {"apart", "stale", "forgot"}
  BY DEF RestOK, SavesOK
<1>1. CASE Quiet
  BY <1>1, Ranges DEF Quiet, RestOK
<1>2. CASE EmergencyExit
  <2>1. Exits \in Orders
    BY DEF Exits
  <2>2. orders' \in Seq(Orders)
    BY <1>0, <1>2, <2>1 DEF EmergencyExit
  <2>3. PICK day \in {clock.day - 1, clock.day} :
          /\ ram' = [ram EXCEPT !.paused = PausedAfter(day)]
          /\ backs' = IF day < st.day THEN backs + 1 ELSE backs
          /\ mishaps' = IF day < st.day /\ clock.resting
                        THEN mishaps \cup {"forgot"} ELSE mishaps
    BY <1>0, <1>2, EmergencyLeaves
  <2>4. PausedAfter(day) \in BOOLEAN
    BY <1>0 DEF PausedAfter
  <2>5. ram' \in [fails : 0 .. GiveUp, paused : BOOLEAN]
    BY <2>3, <2>4 DEF RestOK
  <2>6. backs' \in Nat /\ mishaps' \subseteq {"apart", "stale", "forgot"}
    BY <1>0, <2>3, SMTT(40)
  <2> QED
    BY <1>0, <1>2, <2>2, <2>5, <2>6, Ranges DEF EmergencyExit, RestOK
<1>3. ASSUME NEW side \in {"Long", "Short"}, Enter(side)
      PROVE  RestOK'
  <2>1. orders' \in Seq(Orders)
    BY <1>0, <1>3 DEF Enter
  <2>2. Trade \in 0 .. MaxInstants
    BY <1>3, Ranges, SMTT(40) DEF Enter, Trade
  <2>3. Paused \in BOOLEAN
    BY <1>0 DEF Paused, PausedAfter
  <2>4. ram' \in [fails : 0 .. GiveUp, paused : BOOLEAN]
    <3>1. 0 \in 0 .. GiveUp
      BY Ranges
    <3>2. ram' = [ram EXCEPT !.fails = 0, !.paused = Paused]
      BY <1>3 DEF Enter
    <3> QED
      BY <2>3, <3>1, <3>2 DEF RestOK
  <2>5. clock' \in [day : 1 .. MaxDay, instant : 0 .. MaxInstants,
                   cooling : BOOLEAN, resting : BOOLEAN]
    BY <1>3, <2>2, Ranges DEF Enter, RestOK
  <2>6. entered' = entered + 1
    BY <1>3 DEF Enter
  <2>7. entered' \in Nat
    BY <1>0, <2>6
  <2>8. UNCHANGED <<shorts, account, backs, adrift, restarts, mishaps>>
    BY <1>3 DEF Enter
  <2> QED
    BY <2>1, <2>4, <2>5, <2>7, <2>8 DEF RestOK
<1>4. ASSUME NEW outcome \in {"loss", "win", "flat"}, Exit(outcome)
      PROVE  RestOK'
  <2>1. Exits \in Orders
    BY DEF Exits
  <2>2. orders' \in Seq(Orders)
    BY <1>0, <1>4, <2>1 DEF Exit
  <2>3. Trade \in 0 .. MaxInstants
    BY <1>4, Ranges, SMTT(40) DEF Exit, Trade
  <2>4. ram' \in [fails : 0 .. GiveUp, paused : BOOLEAN]
    BY <1>4 DEF Exit, RestOK
  <2>5. clock' \in [day : 1 .. MaxDay, instant : 0 .. MaxInstants,
                   cooling : BOOLEAN, resting : BOOLEAN]
    BY <1>4, <2>3, Ranges DEF Exit, RestOK
  <2> QED
    BY <1>0, <1>4, <2>2, <2>4, <2>5 DEF Exit, RestOK
<1>5. ASSUME NEW order \in Orders, Fill(order)
      PROVE  RestOK'
  <2>1. account' \in Int /\ adrift' \in Int
    BY <1>5, ExecutesOK DEF Fill
  <2>2. mishaps' \subseteq {"apart", "stale", "forgot"}
    BY <1>0, <1>5 DEF Fill
  <2> QED
    BY <1>5, <2>1, <2>2, TakenOK DEF Fill, RestOK
<1>6. ASSUME NEW order \in Orders, RejectExit(order)
      PROVE  RestOK'
  <2>1. orders' \in Seq(Orders)
    BY <1>6, TakenOK DEF RejectExit
  <2>2. /\ account' \in Int /\ adrift' \in Int
        /\ mishaps' \subseteq {"apart", "stale", "forgot"}
    BY <1>6, FailsOK DEF RejectExit
  <2>3. ram' \in [fails : 0 .. GiveUp, paused : BOOLEAN]
    <3>1. \/ ram.fails + 1 < GiveUp /\ ram' = [ram EXCEPT !.fails = ram.fails + 1]
          \/ ram' = [ram EXCEPT !.fails = 0]
          \/ ram' = ram
      BY <1>6 DEF RejectExit
    <3>2. 0 \in 0 .. GiveUp /\ (ram.fails + 1 < GiveUp => ram.fails + 1 \in 0 .. GiveUp)
      BY <1>0, Ranges
    <3> QED
      BY <3>1, <3>2 DEF RestOK
  <2> QED
    BY <1>6, <2>1, <2>2, <2>3 DEF RejectExit, RestOK
<1>7. ASSUME NEW order \in Orders, NEW poor \in BOOLEAN, RejectEntry(order, poor)
      PROVE  RestOK'
  <2>1. orders' \in Seq(Orders)
    BY <1>7, TakenOK DEF RejectEntry
  <2>2. /\ account' \in Int /\ adrift' \in Int
        /\ mishaps' \subseteq {"apart", "stale", "forgot"}
    <3>1. Unheard(order, poor) \in SUBSET {"apart", "forgot"}
      BY DEF Unheard
    <3> QED
      BY <1>7, <3>1, FailsOK DEF RejectEntry
  <2>3. ram' \in [fails : 0 .. GiveUp, paused : BOOLEAN]
    BY <1>0, <1>7 DEF RejectEntry, RestOK
  <2>4. clock' \in [day : 1 .. MaxDay, instant : 0 .. MaxInstants,
                   cooling : BOOLEAN, resting : BOOLEAN]
    BY <1>7, Ranges DEF RejectEntry, RestOK
  <2>5. entered' \in Nat
    BY <1>0, <1>7, SMTT(40) DEF RejectEntry
  <2> QED
    BY <1>7, <2>1, <2>2, <2>3, <2>4, <2>5 DEF RejectEntry, RestOK
<1>8. ASSUME NEW i \in 1 .. Len(pending), SaveEnds(i) \/ SaveFails(i)
      PROVE  RestOK'
  BY <1>8 DEF SaveEnds, SaveFails, RestOK
<1>9. CASE Restart
  <2>3. account' \in Int /\ adrift' \in Int
    BY <1>0, <1>9 DEF Restart
  <2>4. restarts' \in 0 .. MaxRestarts
    BY <1>9, Ranges DEF Restart, RestOK
  <2>5. ram' \in [fails : 0 .. GiveUp, paused : BOOLEAN]
    BY <1>9, Ranges DEF Restart, Forgotten
  <2>6. mishaps' \subseteq {"apart", "stale", "forgot"}
    BY <1>0, <1>9 DEF Restart
  <2>7. orders' \in Seq(Orders)
    BY <1>9 DEF Restart
  <2> QED
    BY <1>0, <1>9, <2>3, <2>4, <2>5, <2>6, <2>7 DEF Restart, RestOK
<1>10. CASE Midnight
  <2>1. clock' \in [day : 1 .. MaxDay, instant : 0 .. MaxInstants,
                   cooling : BOOLEAN, resting : BOOLEAN]
    <3>1. clock.day + 1 \in 1 .. MaxDay
      BY <1>10, Ranges DEF Midnight
    <3>2. clock' = [clock EXCEPT !.day = clock.day + 1, !.resting = FALSE]
      BY <1>10 DEF Midnight
    <3> QED
      BY <3>1, <3>2 DEF RestOK
  <2> QED
    BY <1>10, <2>1 DEF Midnight, RestOK
<1>11. CASE Elapse
  <2>1. clock' \in [day : 1 .. MaxDay, instant : 0 .. MaxInstants,
                   cooling : BOOLEAN, resting : BOOLEAN]
    BY <1>11 DEF Elapse, RestOK
  <2>2. ram' \in [fails : 0 .. GiveUp, paused : BOOLEAN]
    BY <1>0, <1>11, <2>1 DEF Elapse, RestOK
  <2> QED
    BY <1>11, <2>1, <2>2 DEF Elapse, RestOK
<1>12. CASE UNCHANGED vars
  BY <1>12 DEF vars, RestOK
<1> QED
  BY <1>1, <1>2, <1>3, <1>4, <1>5, <1>6, <1>7, <1>8, <1>9, <1>10, <1>11, <1>12
  DEF Next

-----------------------------------------------------------------------------
(* The day's limit.                                                        *)

\* What a snapshot tells of today's entries.
Counted(s) == IF s.day = clock.day THEN s.trades ELSE 0

\* The entries that a bar of yesterday may have made today's totals forget.
Forgiven == DailyTrades * backs

\* DayLimitKept is not inductive: the state, and the last snapshot that a restart
\* may go back to, must both have counted today's entries.
DayOK ==
    "stale" \notin mishaps =>
        /\ entered <= Counted(st) + Forgiven
        /\ IF newest = <<>> THEN entered = 0
           ELSE entered <= Counted(newest[1]) + Forgiven

IInv == RestOK /\ SavesOK /\ DayOK

LEMMA CountedType ==
    ASSUME FileAssumption, NEW s \in Valid
    PROVE  Counted(s) \in 0 .. DailyTrades
<1>1. DailyTrades \in Nat
  BY DEF FileAssumption
<1> QED
  BY <1>1, ValidFields DEF Counted

\* The state after a new day has begun for it.
LEMMA CountedToday ==
    ASSUME FileAssumption, RestOK, NEW s \in Valid
    PROVE  Today(s).trades = Counted(s) /\ Today(s).day = clock.day
<1>1. s \in Saved
  BY DEF Valid
<1> QED
  BY <1>1 DEF Today, Reset, Counted, Saved

\* What one more bar of yesterday adds.
LEMMA ForgivenType ==
    ASSUME FileAssumption, RestOK, SavesOK
    PROVE  /\ Forgiven \in Nat
           /\ backs' = backs => Forgiven' = Forgiven
           /\ backs' = backs + 1 => Forgiven' = Forgiven + DailyTrades
<1>1. DailyTrades \in Nat /\ backs \in Nat
  BY DEF FileAssumption, RestOK
<1>2. \A a, b \in Nat : a * b \in Nat /\ a * (b + 1) = a * b + a
  OBVIOUS
<1>3. /\ DailyTrades * backs \in Nat
      /\ DailyTrades * (backs + 1) = DailyTrades * backs + DailyTrades
  BY <1>1, <1>2
<1> QED
  BY <1>3 DEF Forgiven

\* A step that saves a state in which today's entries are counted.
LEMMA SavedDay ==
    ASSUME Save, entered' <= Counted(st)' + Forgiven'
    PROVE  DayOK'
<1>1. newest' = <<st'>>
  BY DEF Save
<1>2. newest' # <<>> /\ newest'[1] = st'
  BY <1>1
<1> QED
  BY <1>2 DEF DayOK, Counted

\* A step that counts nothing and after which nothing else is remembered.
LEMMA SameDay ==
    ASSUME DayOK, UNCHANGED <<clock, entered, backs, newest, st>>,
           mishaps \subseteq mishaps'
    PROVE  DayOK'
BY DEF DayOK, Counted, Forgiven

LEMMA StepDayOK ==
    ASSUME FileAssumption, IInv, [Next]_vars
    PROVE  DayOK'
<1> USE FileAssumption
<1> RestOK /\ SavesOK /\ DayOK
  BY DEF IInv
<1>0. /\ st \in Valid /\ st \in Saved /\ entered \in Nat
      /\ newest # <<>> => newest[1] \in Valid
      /\ st.trades \in Nat
  BY Ranges, ValidFields DEF SavesOK, RestOK, Valid
<1>f. backs' = backs => Forgiven' = Forgiven
  BY ForgivenType
<1>c. /\ entered \in Nat /\ DailyTrades \in Nat /\ Forgiven \in Nat
      /\ Counted(st) \in Nat /\ Counted(st) <= DailyTrades
  <2>1. Counted(st) \in 0 .. DailyTrades /\ DailyTrades \in Nat
    BY <1>0, CountedType, Ranges
  <2> QED
    BY <1>0, <2>1, ForgivenType
<1> SUFFICES ASSUME "stale" \notin mishaps' PROVE DayOK'
  BY DEF DayOK
<1>r. Counted(st)' >= 0 /\ Counted(st)' \in Nat
  <2>1. st' \in Valid /\ st'.trades \in Nat
    BY StepSavesOK, ValidFields, Ranges DEF SavesOK
  <2> QED
    BY <2>1 DEF Counted
<1>s. "stale" \notin mishaps => entered <= Counted(st) + Forgiven
  BY DEF DayOK
<1>1. CASE Quiet
  <2>1. UNCHANGED <<newest, entered, backs, clock, mishaps>>
    BY <1>1 DEF Quiet
  <2>2. Counted(st) = 0 /\ Counted(st)' = 0
    BY <1>0, <1>1, <2>1, CountedToday DEF Quiet, Counted
  <2>3. Forgiven' = Forgiven
    BY <1>f, <2>1
  <2>4. entered' <= Counted(st)' + Forgiven'
    BY <1>s, <2>1, <2>2, <2>3
  <2>5. newest # <<>> => Counted(newest[1])' = Counted(newest[1])
    BY <2>1 DEF Counted
  <2> QED
    BY <2>1, <2>3, <2>4, <2>5 DEF DayOK
<1>2. CASE EmergencyExit
  <2>1. /\ clock' = clock /\ entered' = entered /\ Save
    BY <1>2 DEF EmergencyExit
  <2>2. PICK day \in {clock.day - 1, clock.day} :
          /\ st'.day = day
          /\ st'.trades = IF st.day = day THEN st.trades ELSE 0
          /\ backs' = IF day < st.day THEN backs + 1 ELSE backs
          /\ mishaps \subseteq mishaps'
    BY <1>0, <1>2, EmergencyLeaves
  <2>3. entered <= Counted(st) + Forgiven
    BY <1>s, <2>2
  <2>4. clock.day \in Nat /\ st.day \in Nat /\ day \in Int
    BY <1>0, ValidFields, Ranges
  <2>5. CASE day < st.day
    <3>1. Forgiven' = Forgiven + DailyTrades
      BY <2>2, <2>5, ForgivenType
    <3>2. entered' <= Counted(st)' + Forgiven'
      BY <1>c, <1>r, <2>1, <2>3, <3>1
    <3> QED
      BY <2>1, <3>2, SavedDay
  <2>6. CASE ~(day < st.day)
    <3>1. Forgiven' = Forgiven
      BY <1>f, <2>2, <2>6
    <3>2. CASE st.day = clock.day
      <4>1. day = clock.day
        BY <2>4, <2>6, <3>2
      <4>2. Counted(st)' = Counted(st)
        BY <2>1, <2>2, <3>2, <4>1 DEF Counted
      <4>3. entered' <= Counted(st)' + Forgiven'
        BY <2>1, <2>3, <3>1, <4>2
      <4> QED
        BY <2>1, <4>3, SavedDay
    <3>3. CASE st.day # clock.day
      <4>1. Counted(st) = 0
        BY <3>3 DEF Counted
      <4>2. entered' <= Counted(st)' + Forgiven'
        BY <1>c, <1>r, <2>1, <2>3, <3>1, <4>1
      <4> QED
        BY <2>1, <4>2, SavedDay
    <3> QED
      BY <3>2, <3>3
  <2> QED
    BY <2>5, <2>6
<1>3. ASSUME NEW side \in {"Long", "Short"}, Enter(side)
      PROVE  DayOK'
  <2>1. st'.day = clock.day /\ st'.trades = Counted(st) + 1 /\ clock'.day = clock.day
    BY <1>0, <1>3, CountedToday DEF Enter, RestOK
  <2>2. /\ entered' = entered + 1 /\ Forgiven' = Forgiven /\ Save
        /\ "stale" \notin mishaps
    BY <1>f, <1>3 DEF Enter
  <2>3. Counted(st)' = Counted(st) + 1
    BY <2>1 DEF Counted
  <2>4. entered' <= Counted(st)' + Forgiven'
    BY <1>c, <1>s, <2>2, <2>3
  <2> QED
    BY <2>2, <2>4, SavedDay
<1>4. ASSUME NEW outcome \in {"loss", "win", "flat"}, Exit(outcome)
      PROVE  DayOK'
  <2>1. Today(st) \in Saved
    BY <1>0, TodayOK DEF Valid
  <2>2. st'.day = clock.day /\ st'.trades = Counted(st) /\ clock'.day = clock.day
    BY <1>0, <1>4, <2>1, CountedToday DEF Exit, RestOK, Saved
  <2>3. entered' = entered /\ Forgiven' = Forgiven /\ Save /\ "stale" \notin mishaps
    BY <1>f, <1>4 DEF Exit
  <2>4. Counted(st)' = Counted(st)
    BY <2>2 DEF Counted
  <2>5. entered' <= Counted(st)' + Forgiven'
    BY <1>s, <2>3, <2>4
  <2> QED
    BY <2>3, <2>5, SavedDay
<1>5. ASSUME NEW order \in {"buy", "sell", "short", "cover"}, Fill(order)
      PROVE  DayOK'
  <2>1. st'.day = st.day /\ st'.trades = st.trades
    BY <1>0, <1>5 DEF Fill, Cleared, Saved
  <2>2. /\ "stale" \notin mishaps /\ clock' = clock /\ entered' = entered
        /\ Forgiven' = Forgiven /\ Save
    BY <1>f, <1>5 DEF Fill
  <2>3. Counted(st)' = Counted(st)
    BY <2>1, <2>2 DEF Counted
  <2>4. entered' <= Counted(st)' + Forgiven'
    BY <1>s, <2>2, <2>3
  <2> QED
    BY <2>2, <2>4, SavedDay
<1>6. ASSUME NEW order \in {"buy", "sell", "short", "cover"}, RejectExit(order)
      PROVE  DayOK'
  <2>1. /\ mishaps \subseteq mishaps' /\ clock' = clock /\ entered' = entered
        /\ backs' = backs
    BY <1>6 DEF RejectExit, Fails
  <2>2. CASE st' = st /\ newest' = newest
    BY <2>1, <2>2, SameDay
  <2>3. CASE Save
    <3>1. st'.day = st.day /\ st'.trades = st.trades
      BY <1>0, <1>6 DEF RejectExit, Saved
    <3>2. Counted(st)' = Counted(st)
      BY <2>1, <3>1 DEF Counted
    <3>3. entered' <= Counted(st)' + Forgiven'
      BY <1>f, <1>s, <2>1, <3>2
    <3> QED
      BY <2>3, <3>3, SavedDay
  <2> QED
    BY <1>6, <2>2, <2>3 DEF RejectExit
<1>7. ASSUME NEW order \in {"buy", "sell", "short", "cover"},
             NEW poor \in BOOLEAN, RejectEntry(order, poor)
      PROVE  DayOK'
  <2>1. mishaps \subseteq mishaps' /\ backs' = backs
    BY <1>7 DEF RejectEntry, Fails
  <2>2. CASE st' = st /\ newest' = newest /\ clock' = clock /\ entered' = entered
    BY <2>1, <2>2, SameDay
  <2>3. CASE Save /\ st.side # "None"
    <3>1. /\ st' = [st EXCEPT !.side = "None", !.priced = FALSE,
                              !.trades = IF @ > 0 THEN @ - 1 ELSE 0]
          /\ entered' = IF entered > 0 THEN entered - 1 ELSE 0
          /\ clock' = [clock EXCEPT !.resting = @ \/ poor]
      BY <1>7, <2>3 DEF RejectEntry
    <3>2. st'.day = st.day /\ st'.trades = IF st.trades > 0 THEN st.trades - 1 ELSE 0
      BY <1>0, <3>1 DEF Saved
    <3>3. clock'.day = clock.day
      BY <3>1 DEF RestOK
    <3>4. entered <= Counted(st) + Forgiven
      BY <1>s, <2>1
    <3>5. Counted(st) = Counted(st)' \/ Counted(st) = Counted(st)' + 1
      <4>1. CASE st.day = clock.day
        <5>1. Counted(st) = st.trades /\ Counted(st)' = st'.trades
          BY <3>2, <3>3, <4>1 DEF Counted
        <5>2. st.trades \in Nat /\ Counted(st) \in Nat
          BY <1>0, <1>c
        <5>3. CASE st.trades > 0
          <6>1. Counted(st)' = Counted(st) - 1
            BY <3>2, <5>1, <5>3
          <6> QED
            BY <5>2, <6>1
        <5>4. CASE ~(st.trades > 0)
          <6>1. Counted(st) = 0 /\ Counted(st)' = 0
            BY <3>2, <5>1, <5>2, <5>4
          <6> QED
            BY <6>1
        <5> QED
          BY <5>3, <5>4
      <4>2. CASE st.day # clock.day
        BY <3>2, <3>3, <4>2 DEF Counted
      <4> QED
        BY <4>1, <4>2
    <3>6. Forgiven' = Forgiven
      BY <1>f, <2>1
    <3>7. entered' <= Counted(st)' + Forgiven'
      BY <1>c, <1>r, <3>1, <3>4, <3>5, <3>6
    <3> QED
      BY <2>3, <3>7, SavedDay
  <2> QED
    BY <1>7, <2>2, <2>3 DEF RejectEntry
<1>8. ASSUME NEW i \in 1 .. Len(pending), SaveEnds(i) \/ SaveFails(i)
      PROVE  DayOK'
  BY <1>8, SameDay DEF SaveEnds, SaveFails
<1>9. CASE Restart
  <2>1. /\ "stale" \notin mishaps /\ file = newest
        /\ clock' = clock /\ entered' = entered /\ newest' = newest
        /\ Forgiven' = Forgiven
    BY <1>f, <1>9 DEF Restart
  <2>2. CASE file = <<>>
    <3>1. entered = 0
      BY <2>1, <2>2 DEF DayOK
    <3> QED
      <4>1. entered' <= Counted(st)' + Forgiven'
        BY <1>c, <1>r, <2>1, <3>1
      <4>2. entered' = 0 /\ newest' = <<>>
        BY <2>1, <2>2, <3>1
      <4> QED
        BY <4>1, <4>2 DEF DayOK
  <2>3. CASE file # <<>>
    <3>1. newest[1] \in Valid /\ st' = Restored(newest[1], shorts')
      BY <1>0, <1>9, <2>1, <2>3 DEF Restart
    <3>2. st'.day = clock.day /\ st'.trades = Counted(newest[1])
      BY <3>1, ValidFields DEF Restored, Counted
    <3>3. entered <= Counted(newest[1]) + Forgiven
      BY <2>1, <2>3 DEF DayOK
    <3>4. /\ Counted(st)' = Counted(newest[1])
          /\ Counted(newest[1])' = Counted(newest[1])
      BY <2>1, <3>2 DEF Counted
    <3> QED
      BY <2>1, <2>3, <3>3, <3>4 DEF DayOK
  <2> QED
    BY <2>2, <2>3
<1>10. CASE Midnight
  <2>1. entered' = 0 /\ newest' = newest /\ st' = st /\ backs' = 0
    BY <1>10 DEF Midnight
  <2>2. newest # <<>> => Counted(newest[1])' \in Nat
    BY <1>0, <2>1, ValidFields, Ranges DEF Counted
  <2>3. Forgiven' = 0
    BY <1>c, <2>1 DEF Forgiven
  <2>4. entered' <= Counted(st)' + Forgiven'
    BY <1>r, <2>1, <2>3
  <2>5. newest # <<>> => entered' <= Counted(newest[1])' + Forgiven'
    BY <2>1, <2>2, <2>3
  <2> QED
    BY <2>1, <2>4, <2>5 DEF DayOK
<1>11. CASE Elapse
  <2>1. /\ clock'.day = clock.day /\ Forgiven' = Forgiven
        /\ UNCHANGED <<entered, newest, st, mishaps>>
    BY <1>f, <1>11 DEF Elapse, RestOK
  <2> QED
    BY <2>1 DEF DayOK, Counted
<1>12. CASE UNCHANGED vars
  BY <1>12, SameDay DEF vars
<1> QED
  BY <1>1, <1>2, <1>3, <1>4, <1>5, <1>6, <1>7, <1>8, <1>9, <1>10, <1>11, <1>12
  DEF Next

-----------------------------------------------------------------------------
LEMMA InitDayOK == Init /\ FileAssumption => DayOK
<1> SUFFICES ASSUME Init, FileAssumption PROVE DayOK
  OBVIOUS
<1>1. entered = 0 /\ newest = <<>> /\ backs = 0 /\ Counted(st) = 0
  BY DEF Init, Counted, Fresh
<1>2. Forgiven = 0
  BY <1>1 DEF Forgiven, FileAssumption
<1> QED
  BY <1>1, <1>2 DEF DayOK

LEMMA Invariance == Spec => []IInv
<1>1. Init => IInv
  BY FileAssumption, InitOK, InitDayOK DEF IInv
<1>2. IInv /\ [Next]_vars => IInv'
  <2> SUFFICES ASSUME IInv, [Next]_vars PROVE IInv'
    OBVIOUS
  <2>1. RestOK'
    BY FileAssumption, StepRestOK DEF IInv
  <2>2. SavesOK'
    BY FileAssumption, StepSavesOK DEF IInv
  <2>3. DayOK'
    BY FileAssumption, StepDayOK
  <2> QED
    BY <2>1, <2>2, <2>3 DEF IInv
<1> QED
  BY <1>1, <1>2, PTL DEF Spec

\* Sequences of valid snapshots hold snapshots.
LEMMA ValidSaved ==
    ASSUME NEW s \in Seq(Valid)
    PROVE  s \in Seq(Saved) /\ \A i \in DOMAIN s : Loads(s[i])
<1>1. Valid \subseteq Saved /\ \A x \in Valid : Loads(x)
  BY DEF Valid
<1> QED
  BY <1>1

\* Types: what the strategy, its file and the snapshots that are being written
\* may hold, for every limit and every bound.
THEOREM StateFileTypes == Spec => []TypeOK
<1>1. IInv => TypeOK
  <2> SUFFICES ASSUME IInv PROVE TypeOK
    OBVIOUS
  <2>1. st \in Saved /\ pending \in Seq(Saved) /\ {file, newest} \subseteq Seq(Saved)
    BY ValidSaved DEF IInv, SavesOK, Valid
  <2> QED
    BY <2>1 DEF IInv, RestOK, TypeOK
<1> QED
  BY <1>1, Invariance, PTL

\* Any snapshot that a fill, a rejection, an entry or an exit makes can be
\* loaded, and so can the file, whichever task wrote it last.
THEOREM AnySnapshotLoads == Spec => []Loadable
<1>1. IInv => Loadable
  <2> SUFFICES ASSUME IInv PROVE Loadable
    OBVIOUS
  <2>1. Loads(st) /\ \A i \in DOMAIN pending : Loads(pending[i])
    BY ValidSaved DEF IInv, SavesOK, Valid
  <2>2. file # <<>> => Loads(file[1])
    <3>1. ASSUME file # <<>> PROVE 1 \in DOMAIN file
      BY <3>1 DEF IInv, SavesOK
    <3> QED
      BY <3>1, ValidSaved DEF IInv, SavesOK
  <2> QED
    BY <2>1, <2>2 DEF Loadable
<1> QED
  BY <1>1, Invariance, PTL

\* The daily limit of entries holds across restarts that find the last snapshot,
\* and each bar of yesterday that closes a position adds one limit to it.
THEOREM DayLimitSurvives == Spec => []DayLimitKept
<1>1. IInv => DayLimitKept
  <2> SUFFICES ASSUME IInv, "stale" \notin mishaps
               PROVE  entered <= DailyTrades * (backs + 1)
    BY DEF DayLimitKept
  <2>1. st \in Valid /\ entered \in Nat /\ entered <= Counted(st) + Forgiven
    BY DEF IInv, SavesOK, RestOK, DayOK
  <2>2. Counted(st) \in 0 .. DailyTrades /\ DailyTrades \in Nat /\ backs \in Nat
    BY <2>1, FileAssumption, CountedType DEF FileAssumption, IInv, RestOK
  <2>3. \A a, b \in Nat : a * b \in Nat /\ a * (b + 1) = a * b + a
    OBVIOUS
  <2>4. DailyTrades * (backs + 1) = Forgiven + DailyTrades /\ Forgiven \in Nat
    BY <2>2, <2>3 DEF Forgiven
  <2> QED
    BY <2>1, <2>2, <2>4
<1> QED
  BY <1>1, Invariance, PTL

-----------------------------------------------------------------------------
(* The cooldown and the pause after losses.                                *)

\* RestsKept needs: the running cooldown is that of the trade that the state and
\* the last snapshot tell of, and the pause is one that the state knows of.
RestsOK ==
    /\ st.day <= clock.day
    /\ "stale" \notin mishaps /\ clock.cooling =>
          /\ st.stamp = clock.instant
          /\ newest # <<>> /\ newest[1].stamp = clock.instant
    /\ "forgot" \notin mishaps /\ clock.resting => ram.paused /\ st.day = clock.day

\* A step that saves the state and starts no cooldown.
LEMMA SavedStamp ==
    ASSUME RestsOK, Save, mishaps \subseteq mishaps', st'.stamp = st.stamp,
           clock'.cooling = clock.cooling, clock'.instant = clock.instant,
           "stale" \notin mishaps', clock'.cooling
    PROVE  /\ st'.stamp = clock'.instant
           /\ newest' # <<>> /\ newest'[1].stamp = clock'.instant
<1>1. newest' = <<st'>>
  BY DEF Save
<1>2. newest' # <<>> /\ newest'[1] = st'
  BY <1>1
<1> QED
  BY <1>2 DEF RestsOK

\* A step that changes none of what RestsOK is about.
LEMMA SameRests ==
    ASSUME RestsOK, UNCHANGED <<clock, newest, st, ram>>, mishaps \subseteq mishaps'
    PROVE  RestsOK'
BY DEF RestsOK

LEMMA StepRestsOK ==
    ASSUME FileAssumption, IInv, RestsOK, [Next]_vars
    PROVE  RestsOK'
<1> USE FileAssumption
<1> RestOK /\ SavesOK /\ RestsOK
  BY DEF IInv
<1>0. /\ st \in Valid /\ st \in Saved /\ st.day \in Nat /\ clock.day \in Nat
      /\ newest # <<>> => newest[1] \in Valid
      /\ ram \in [fails : 0 .. GiveUp, paused : BOOLEAN]
  BY ValidFields, Ranges DEF SavesOK, RestOK, Valid
<1>p. "forgot" \notin mishaps /\ clock.resting => ram.paused /\ st.day = clock.day
  BY DEF RestsOK
<1>1. CASE Quiet
  <2>1. clock' = clock /\ newest' = newest /\ mishaps' = mishaps
    BY <1>1 DEF Quiet
  <2>2. st'.day = clock.day /\ st'.stamp = st.stamp /\ st.day # clock.day
    BY <1>0, <1>1, TodayOK DEF Quiet
  <2> QED
    BY <1>0, <1>p, <2>1, <2>2 DEF RestsOK
<1>2. CASE EmergencyExit
  <2>1. clock' = clock /\ Save
    BY <1>2 DEF EmergencyExit
  <2>2. PICK day \in {clock.day - 1, clock.day} :
          /\ st'.day = day /\ st'.stamp = st.stamp
          /\ ram' = [ram EXCEPT !.paused = PausedAfter(day)]
          /\ mishaps' = IF day < st.day /\ clock.resting
                        THEN mishaps \cup {"forgot"} ELSE mishaps
    BY <1>0, <1>2, EmergencyLeaves
  <2>3. st'.day <= clock'.day /\ mishaps \subseteq mishaps'
    BY <1>0, <2>1, <2>2, SMTT(40)
  <2>4. ASSUME "forgot" \notin mishaps', clock'.resting
        PROVE  ram'.paused /\ st'.day = clock'.day
    <3>1. "forgot" \notin mishaps /\ clock.resting /\ ~(day < st.day)
      BY <2>1, <2>2, <2>4
    <3>2. ram.paused /\ st.day = clock.day
      BY <1>p, <3>1
    <3>3. day = st.day
      BY <1>0, <3>1, <3>2
    <3>4. ram'.paused = PausedAfter(day)
      BY <1>0, <2>2
    <3> QED
      BY <2>1, <2>2, <3>2, <3>3, <3>4 DEF PausedAfter
  <2> QED
    BY <2>1, <2>2, <2>3, <2>4, SavedStamp DEF RestsOK
<1>3. ASSUME NEW side \in {"Long", "Short"}, Enter(side)
      PROVE  RestsOK'
  <2>1. /\ st'.day = clock.day /\ st'.stamp = Trade /\ newest' = <<st'>>
        /\ mishaps' = mishaps /\ ~Paused
    BY <1>3 DEF Enter, Save
  <2>2. /\ clock'.day = clock.day /\ clock'.instant = Trade
        /\ clock'.resting = clock.resting
    BY <1>3 DEF Enter, RestOK
  <2>3. newest' # <<>> /\ newest'[1] = st'
    BY <2>1
  <2>4. ~("forgot" \notin mishaps' /\ clock'.resting)
    BY <1>p, <2>1, <2>2 DEF Paused, PausedAfter
  <2> QED
    BY <1>0, <2>1, <2>2, <2>3, <2>4 DEF RestsOK
<1>4. ASSUME NEW outcome \in {"loss", "win", "flat"}, Exit(outcome)
      PROVE  RestsOK'
  <2>1. Today(st) \in Saved /\ Today(st).day = clock.day
    BY <1>0, TodayOK DEF Valid
  <2>2. st' = [Today(st) EXCEPT !.side = "None", !.stamp = Trade]
    BY <1>4 DEF Exit
  <2>3. st'.day = clock.day /\ st'.stamp = Trade
    BY <2>1, <2>2 DEF Saved
  <2>4. newest' = <<st'>> /\ mishaps' = mishaps
    BY <1>4 DEF Exit, Save
  <2>5. newest' # <<>> /\ newest'[1] = st'
    BY <2>4
  <2>6. /\ clock'.day = clock.day /\ clock'.instant = Trade
        /\ clock'.resting => \/ outcome = "loss"
                             \/ clock.resting /\ outcome # "win"
    BY <1>4 DEF Exit, RestOK
  <2>7. ram'.paused = (outcome = "loss" \/ (Paused /\ outcome # "win"))
    BY <1>0, <1>4 DEF Exit
  <2>8. "forgot" \notin mishaps' /\ clock'.resting => ram'.paused
    BY <1>p, <2>4, <2>6, <2>7 DEF Paused, PausedAfter
  <2> QED
    BY <1>0, <2>3, <2>4, <2>5, <2>6, <2>8 DEF RestsOK
<1>5. ASSUME NEW order \in {"buy", "sell", "short", "cover"}, Fill(order)
      PROVE  RestsOK'
  <2>1. st'.day = st.day /\ st'.stamp = st.stamp
    BY <1>0, <1>5 DEF Fill, Cleared, Saved
  <2>2. UNCHANGED <<clock, ram>> /\ mishaps \subseteq mishaps' /\ Save
    BY <1>5 DEF Fill
  <2> QED
    BY <2>1, <2>2, SavedStamp DEF RestsOK
<1>6. ASSUME NEW order \in {"buy", "sell", "short", "cover"}, RejectExit(order)
      PROVE  RestsOK'
  <2>1. clock' = clock /\ mishaps \subseteq mishaps'
    BY <1>6 DEF RejectExit, Fails
  <2>2. CASE UNCHANGED <<st, ram, newest>>
    BY <2>1, <2>2, SameRests
  <2>3. CASE Save
    <3>1. st'.day = st.day /\ st'.stamp = st.stamp /\ ram'.paused = ram.paused
      BY <1>0, <1>6 DEF RejectExit, Saved
    <3> QED
      BY <2>1, <2>3, <3>1, SavedStamp DEF RestsOK
  <2> QED
    BY <1>6, <2>2, <2>3 DEF RejectExit
<1>7. ASSUME NEW order \in {"buy", "sell", "short", "cover"},
             NEW poor \in BOOLEAN, RejectEntry(order, poor)
      PROVE  RestsOK'
  <2>1. mishaps' = mishaps \cup Unheard(order, poor)
    BY <1>7 DEF RejectEntry, Fails
  <2>2. CASE UNCHANGED <<st, ram, newest, clock>>
    BY <2>1, <2>2, SameRests
  <2>3. CASE Save /\ st.side # "None"
    <3>1. /\ st' = [st EXCEPT !.side = "None", !.priced = FALSE,
                              !.trades = IF @ > 0 THEN @ - 1 ELSE 0]
          /\ ram' = [ram EXCEPT !.paused = @ \/ poor]
          /\ clock' = [clock EXCEPT !.resting = @ \/ poor]
      BY <1>7, <2>3 DEF RejectEntry
    <3>2. st'.day = st.day /\ st'.stamp = st.stamp
      BY <1>0, <3>1 DEF Saved
    <3>3. ram'.paused = (ram.paused \/ poor)
      BY <1>0, <3>1
    <3>4. /\ clock'.day = clock.day /\ clock'.instant = clock.instant
          /\ clock'.cooling = clock.cooling
          /\ clock'.resting = (clock.resting \/ poor)
      BY <3>1 DEF RestOK
    <3>5. "forgot" \notin mishaps' /\ clock'.resting
             => ram'.paused /\ st'.day = clock'.day
      BY <1>p, <2>1, <2>3, <3>2, <3>3, <3>4 DEF Unheard
    <3> QED
      BY <2>1, <2>3, <3>2, <3>4, <3>5, SavedStamp DEF RestsOK
  <2> QED
    BY <1>7, <2>2, <2>3 DEF RejectEntry
<1>8. ASSUME NEW i \in 1 .. Len(pending), SaveEnds(i) \/ SaveFails(i)
      PROVE  RestsOK'
  BY <1>8, SameRests DEF SaveEnds, SaveFails
<1>9. CASE Restart
  <2>1. /\ mishaps \subseteq mishaps' /\ clock' = clock /\ newest' = newest
        /\ clock.resting => "forgot" \in mishaps'
        /\ file # newest => "stale" \in mishaps'
    BY <1>9 DEF Restart
  <2>2. CASE file = <<>>
    <3>1. st' = Fresh
      BY <1>9, <2>2 DEF Restart
    <3> QED
      BY <1>0, <2>1, <2>2, <3>1 DEF RestsOK, Fresh
  <2>3. CASE file # <<>>
    <3>1. file[1] \in Valid /\ st' = Restored(file[1], shorts')
      BY <1>9, <2>3 DEF Restart, SavesOK
    <3>2. st'.day = clock.day /\ st'.stamp = file[1].stamp
      BY <3>1, ValidFields DEF Restored
    <3> QED
      BY <1>0, <2>1, <2>3, <3>2 DEF RestsOK
  <2> QED
    BY <2>2, <2>3
<1>10. CASE Midnight
  <2>1. UNCHANGED <<st, ram, newest, mishaps>>
    BY <1>10 DEF Midnight
  <2>2. /\ clock'.day = clock.day + 1 /\ clock'.instant = clock.instant
        /\ clock'.cooling = clock.cooling /\ ~clock'.resting
    BY <1>10 DEF Midnight, RestOK
  <2> QED
    BY <1>0, <2>1, <2>2 DEF RestsOK
<1>11. CASE Elapse
  <2>1. UNCHANGED <<st, newest, mishaps>>
    BY <1>11 DEF Elapse
  <2>2. /\ clock'.day = clock.day /\ clock'.instant = clock.instant
        /\ clock'.cooling => clock.cooling
        /\ clock'.resting => clock.resting
    BY <1>11 DEF Elapse, RestOK
  <2>3. ram'.paused = (ram.paused /\ clock'.resting)
    BY <1>0, <1>11 DEF Elapse
  <2> QED
    BY <2>1, <2>2, <2>3 DEF RestsOK
<1>12. CASE UNCHANGED vars
  BY <1>12, SameRests DEF vars
<1> QED
  BY <1>1, <1>2, <1>3, <1>4, <1>5, <1>6, <1>7, <1>8, <1>9, <1>10, <1>11, <1>12
  DEF Next

\* The only step that sends an entry's signal.
LEMMA OnlyEnter ==
    ASSUME RestOK, Next, Enters
    PROVE  \E side \in {"Long", "Short"} : Enter(side)
<1>1. PICK order \in {"buy", "short"} : orders' = Append(orders, order)
  BY DEF Enters
<1>2. orders \in Seq({"buy", "sell", "short", "cover"})
  BY DEF RestOK
<1>3. /\ orders' # orders /\ orders' # <<>>
      /\ orders # <<>> => orders' # Tail(orders)
      /\ \A exit \in {"sell", "cover"} : orders' # Append(orders, exit)
  <2>1. Len(orders') = Len(orders) + 1 /\ Len(orders) \in Nat
        /\ orders'[Len(orders) + 1] = order
    BY <1>1, <1>2
  <2>2. orders # <<>> => Len(Tail(orders)) = Len(orders) - 1
    BY <1>2
  <2>3. \A exit \in {"sell", "cover"} :
          Append(orders, exit)[Len(orders) + 1] = exit
    BY <1>2
  <2> QED
    BY <2>1, <2>2, <2>3
<1>4. Exits \in {"sell", "cover"}
  BY DEF Exits
<1>5. ~Quiet /\ ~EmergencyExit /\ \A outcome : ~Exit(outcome)
  <2>1. Quiet => orders' = orders
    BY DEF Quiet
  <2>2. EmergencyExit => orders' = Append(orders, Exits)
    BY DEF EmergencyExit
  <2>3. \A outcome : Exit(outcome) => orders' = Append(orders, Exits)
    BY DEF Exit
  <2> QED
    BY <1>3, <1>4, <2>1, <2>2, <2>3
<1>6. \A any : ~Fill(any) /\ ~RejectExit(any) /\ \A poor : ~RejectEntry(any, poor)
  BY <1>3 DEF Fill, RejectExit, RejectEntry, Taken
<1>7. ~Restart /\ ~Midnight /\ ~Elapse /\ \A i : ~SaveEnds(i) /\ ~SaveFails(i)
  BY <1>3 DEF Restart, Midnight, Elapse, SaveEnds, SaveFails
<1> QED
  BY <1>5, <1>6, <1>7 DEF Next

\* Neither the cooldown of a trade nor the pause after losses is skipped by an
\* entry, unless a restart lost the last snapshot, or a restart or yesterday's date
\* ended the pause.
THEOREM RestsSurvive == Spec => RestsKept
<1> DEFINE Skips == Enters =>
                      /\ clock.cooling => "stale" \in mishaps
                      /\ clock.resting => "forgot" \in mishaps
<1>1. Init => RestsOK
  BY FileAssumption DEF Init, RestsOK, Fresh
<1>2. IInv /\ RestsOK /\ [Next]_vars => RestsOK'
  BY FileAssumption, StepRestsOK
<1>3. IInv /\ RestsOK /\ [Next]_vars => [Skips]_vars
  <2> SUFFICES ASSUME IInv, RestsOK, Next, Enters
               PROVE  /\ clock.cooling => "stale" \in mishaps
                      /\ clock.resting => "forgot" \in mishaps
    OBVIOUS
  <2>1. PICK side \in {"Long", "Short"} : Enter(side)
    BY OnlyEnter DEF IInv
  <2>2. Rested /\ ~Paused
    BY <2>1 DEF Enter
  <2> QED
    BY <2>2 DEF Rested, Paused, PausedAfter, RestsOK
<1> QED
  BY <1>1, <1>2, <1>3, Invariance, PTL DEF Spec, RestsKept

-----------------------------------------------------------------------------
(* Strategy and account.  The account is where the strategy believes it to *)
(* be, but for what it was never told of, less what the orders in the air  *)
(* still have to do.                                                       *)

\* The places of a sequence of orders that raise (1) or lower (-1) the account,
\* and what the orders will do to it together.
Sided(q, e) == {i \in DOMAIN q : Effect(q[i]) = e}
Net(q) == Cardinality(Sided(q, 1)) - Cardinality(Sided(q, -1))

\* What holds as long as nothing has set them apart.
Agreed ==
    "apart" \notin mishaps =>
        /\ account + Net(orders) = Held + adrift
        /\ IF newest = <<>> THEN st.side = "None" ELSE newest[1].side = st.side
        /\ st.side = "Short" => shorts
        /\ \A i \in DOMAIN orders : orders[i] = "cover" => shorts

LEMMA SidedFinite ==
    ASSUME NEW S, NEW q \in Seq(S), NEW e
    PROVE  IsFiniteSet(Sided(q, e)) /\ Cardinality(Sided(q, e)) \in Nat
<1>1. IsFiniteSet(1 .. Len(q)) /\ Sided(q, e) \in SUBSET (1 .. Len(q))
  BY FS_Interval DEF Sided
<1> QED
  BY <1>1, FS_Subset, FS_CardinalityType

LEMMA SidedAppend ==
    ASSUME NEW S, NEW q \in Seq(S), NEW o \in S, NEW e
    PROVE  Cardinality(Sided(Append(q, o), e)) =
             Cardinality(Sided(q, e)) + (IF Effect(o) = e THEN 1 ELSE 0)
<1>1. /\ DOMAIN Append(q, o) = 1 .. Len(q) + 1
      /\ \A i \in 1 .. Len(q) : Append(q, o)[i] = q[i]
      /\ Append(q, o)[Len(q) + 1] = o
      /\ DOMAIN q = 1 .. Len(q) /\ Len(q) \in Nat
  OBVIOUS
<1>2. Len(q) + 1 \notin Sided(q, e)
  BY <1>1 DEF Sided
<1>3. CASE Effect(o) = e
  <2>1. Sided(Append(q, o), e) = Sided(q, e) \cup {Len(q) + 1}
    BY <1>1, <1>3 DEF Sided
  <2> QED
    BY <1>2, <1>3, <2>1, SidedFinite, FS_AddElement, ZenonT(60)
<1>4. CASE Effect(o) # e
  <2>1. Sided(Append(q, o), e) = Sided(q, e)
    BY <1>1, <1>4 DEF Sided
  <2> QED
    BY <1>4, <2>1, SidedFinite
<1> QED
  BY <1>3, <1>4

LEMMA SidedTail ==
    ASSUME NEW S, NEW q \in Seq(S), q # <<>>, NEW e
    PROVE  Cardinality(Sided(Tail(q), e)) =
             Cardinality(Sided(q, e)) - (IF Effect(Head(q)) = e THEN 1 ELSE 0)
<1> DEFINE rest == Sided(q, e) \ {1}
           back == [i \in rest |-> i - 1]
<1>1. /\ DOMAIN q = 1 .. Len(q) /\ Len(q) \in Nat \ {0}
      /\ DOMAIN Tail(q) = 1 .. Len(q) - 1
      /\ \A i \in 1 .. Len(q) - 1 : Tail(q)[i] = q[i + 1]
      /\ Head(q) = q[1]
  OBVIOUS
<1>2. \A i \in Sided(Tail(q), e) : i \in Nat /\ i + 1 \in rest
  BY <1>1 DEF Sided
<1>3. ASSUME NEW i \in rest
      PROVE  i \in Nat /\ i - 1 \in Sided(Tail(q), e)
  <2>1. i \in 2 .. Len(q) /\ Effect(q[i]) = e
    BY <1>1 DEF Sided
  <2>2. i - 1 \in 1 .. Len(q) - 1 /\ Tail(q)[i - 1] = q[i]
    BY <1>1, <2>1
  <2> QED
    BY <1>1, <2>1, <2>2 DEF Sided
<1>4. back \in Bijection(rest, Sided(Tail(q), e))
  <2>1. back \in [rest -> Sided(Tail(q), e)]
    BY <1>3
  <2>2. \A i, j \in rest : back[i] = back[j] => i = j
    BY <1>3
  <2>3. \A t \in Sided(Tail(q), e) : \E i \in rest : back[i] = t
    <3> TAKE t \in Sided(Tail(q), e)
    <3>1. t + 1 \in rest /\ back[t + 1] = t
      BY <1>2
    <3> QED
      BY <3>1
  <2> QED
    BY <2>1, <2>2, <2>3 DEF Bijection, Injection, Surjection, IsInjective
<1>5. IsFiniteSet(Sided(q, e)) /\ IsFiniteSet(rest)
  BY SidedFinite, FS_RemoveElement
<1>6. Cardinality(Sided(Tail(q), e)) = Cardinality(rest)
  BY <1>4, <1>5, FS_Bijection DEF ExistsBijection
<1>7. Cardinality(rest) = Cardinality(Sided(q, e)) - (IF 1 \in Sided(q, e) THEN 1 ELSE 0)
  BY <1>5, SidedFinite, FS_RemoveElement
<1>8. 1 \in Sided(q, e) <=> Effect(Head(q)) = e
  BY <1>1 DEF Sided
<1> QED
  BY <1>6, <1>7, <1>8

\* Sending an order adds its effect to the net, and its answer takes it off.
LEMMA NetMoves ==
    ASSUME NEW S, NEW q \in Seq(S)
    PROVE  /\ Net(q) \in Int
           /\ q = <<>> => Net(q) = 0
           /\ \A o \in S : Net(Append(q, o)) = Net(q) + Effect(o)
           /\ q # <<>> => Net(Tail(q)) = Net(q) - Effect(Head(q))
<1>1. /\ Cardinality(Sided(q, 1)) \in Nat
      /\ Cardinality(Sided(q, -1)) \in Nat
  BY SidedFinite
<1>2. q = <<>> => Sided(q, 1) = {} /\ Sided(q, -1) = {}
  BY DEF Sided
<1>3. ASSUME q = <<>> PROVE Net(q) = 0
  <2>1. /\ Cardinality(Sided(q, 1)) = Cardinality({})
        /\ Cardinality(Sided(q, -1)) = Cardinality({})
    BY <1>2, <1>3
  <2>2. Cardinality({}) = 0
    BY FS_EmptySet
  <2> QED
    BY <2>1, <2>2 DEF Net
<1>4. \A o : Effect(o) = 1 \/ Effect(o) = -1
  BY DEF Effect
<1>5. ASSUME NEW o \in S
      PROVE  Net(Append(q, o)) = Net(q) + Effect(o)
  <2>1. /\ Cardinality(Sided(Append(q, o), 1)) =
             Cardinality(Sided(q, 1)) + (IF Effect(o) = 1 THEN 1 ELSE 0)
        /\ Cardinality(Sided(Append(q, o), -1)) =
             Cardinality(Sided(q, -1)) + (IF Effect(o) = -1 THEN 1 ELSE 0)
    BY SidedAppend
  <2> QED
    BY <1>1, <1>4, <2>1 DEF Net
<1>6. ASSUME q # <<>>
      PROVE  Net(Tail(q)) = Net(q) - Effect(Head(q))
  <2>1. /\ Cardinality(Sided(Tail(q), 1)) =
             Cardinality(Sided(q, 1)) - (IF Effect(Head(q)) = 1 THEN 1 ELSE 0)
        /\ Cardinality(Sided(Tail(q), -1)) =
             Cardinality(Sided(q, -1)) - (IF Effect(Head(q)) = -1 THEN 1 ELSE 0)
    BY <1>6, SidedTail
  <2> QED
    BY <1>1, <1>4, <2>1 DEF Net
<1> QED
  BY <1>1, <1>3, <1>5, <1>6 DEF Net

\* The last snapshot tells the side that the strategy is on.
SideSaved == IF newest = <<>> THEN st.side = "None" ELSE newest[1].side = st.side

LEMMA HeldInt ==
    ASSUME SavesOK
    PROVE  /\ st.side \in {"None", "Long", "Short"}
           /\ Held \in {-1, 0, 1}
BY ValidFields DEF SavesOK, Held

\* The sums of the two lemmas below.
LEMMA SentSum ==
    ASSUME NEW S, NEW q \in Seq(S), NEW o \in S,
           NEW a \in Int, NEW h \in Int, NEW d \in Int, a + Net(q) = h + d
    PROVE  a + Net(Append(q, o)) = (h + Effect(o)) + d
<1>1. Net(Append(q, o)) = Net(q) + Effect(o) /\ Net(q) \in Int
  BY NetMoves
<1> DEFINE n == Net(q)
           e == Effect(o)
           m == Net(Append(q, o))
<1>2. n \in Int /\ e \in Int /\ m = n + e /\ a + n = h + d
  BY <1>1 DEF Effect
<1> HIDE DEF n, e, m
<1>3. a + m = (h + e) + d
  BY <1>2
<1> QED
  BY <1>3 DEF n, e, m

LEMMA AnsweredSum ==
    ASSUME NEW a \in Int, NEW n \in Int, NEW h \in Int, NEW d \in Int, NEW e \in Int,
           NEW a2 \in Int, NEW h2 \in Int, NEW d2 \in Int,
           a + n = h + d, a2 - d2 - h2 = a - d - h + e
    PROVE  a2 + (n - e) = h2 + d2
OBVIOUS

\* An answer that moves the account by x and the belief by x less the order's effect.
LEMMA KeptSum ==
    ASSUME NEW a \in Int, NEW d \in Int, NEW h \in Int, NEW e \in Int, NEW x \in Int,
           NEW a2 \in Int, NEW d2 \in Int, NEW h2 \in Int,
           a2 - d2 = a - d + x, h2 = h + x - e
    PROVE  a2 - d2 - h2 = a - d - h + e
OBVIOUS

\* A signal changes the side by what its order will do to the account.
LEMMA SentKeeps ==
    ASSUME RestOK, SavesOK, SavesOK', Agreed,
           NEW o \in {"buy", "sell", "short", "cover"},
           orders' = Append(orders, o), Save,
           UNCHANGED <<account, adrift, shorts>>, mishaps \subseteq mishaps',
           Held' = Held + Effect(o),
           "apart" \notin mishaps => (st'.side = "Short" \/ o = "cover" => shorts)
    PROVE  Agreed'
<1> SUFFICES ASSUME "apart" \notin mishaps'
             PROVE  /\ account + Net(orders') = Held' + adrift
                    /\ SideSaved'
                    /\ st'.side = "Short" => shorts
                    /\ \A i \in DOMAIN orders' : orders'[i] = "cover" => shorts
  BY DEF Agreed, SideSaved
<1>1. /\ account + Net(orders) = Held + adrift
      /\ \A i \in DOMAIN orders : orders[i] = "cover" => shorts
  BY DEF Agreed
<1>2. /\ orders \in Seq({"buy", "sell", "short", "cover"})
      /\ account \in Int /\ adrift \in Int /\ Held \in Int
  BY HeldInt DEF RestOK
<1>3. account + Net(orders') = Held' + adrift
  <2>1. account + Net(Append(orders, o)) = (Held + Effect(o)) + adrift
    BY <1>1, <1>2, SentSum
  <2> QED
    BY <2>1
<1>4. SideSaved'
  BY DEF Save, SideSaved
<1>5. \A i \in DOMAIN orders' : orders'[i] = "cover" => shorts
  <2>1. \A i \in DOMAIN orders' :
          (i \in DOMAIN orders /\ orders'[i] = orders[i]) \/ orders'[i] = o
    BY <1>2
  <2> QED
    BY <1>1, <2>1
<1> QED
  BY <1>3, <1>4, <1>5

\* An answer moves the account or takes the side back, but for a mishap.
LEMMA AnsweredKeeps ==
    ASSUME RestOK, SavesOK, SavesOK', Agreed,
           NEW o \in {"buy", "sell", "short", "cover"}, Taken(o),
           account' \in Int, adrift' \in Int,
           mishaps \subseteq mishaps', shorts' = shorts,
           "apart" \notin mishaps' =>
             /\ account' - adrift' - Held' = account - adrift - Held + Effect(o)
             /\ SideSaved => SideSaved'
             /\ st'.side = "Short" => st.side = "Short" \/ o = "cover"
    PROVE  Agreed'
<1> SUFFICES ASSUME "apart" \notin mishaps'
             PROVE  /\ account' + Net(orders') = Held' + adrift'
                    /\ SideSaved'
                    /\ st'.side = "Short" => shorts
                    /\ \A i \in DOMAIN orders' : orders'[i] = "cover" => shorts
  BY DEF Agreed, SideSaved
<1>1. /\ account + Net(orders) = Held + adrift
      /\ SideSaved
      /\ st.side = "Short" => shorts
      /\ \A i \in DOMAIN orders : orders[i] = "cover" => shorts
  BY DEF Agreed, SideSaved
<1>2. /\ orders \in Seq({"buy", "sell", "short", "cover"})
      /\ account \in Int /\ adrift \in Int
      /\ orders # <<>> /\ Head(orders) = o /\ orders' = Tail(orders)
  BY DEF RestOK, Taken
<1>3. account' + Net(orders') = Held' + adrift'
  <2>1. Net(orders') = Net(orders) - Effect(o) /\ Net(orders) \in Int
    BY <1>2, NetMoves
  <2>2. Effect(o) \in Int
    BY DEF Effect
  <2>3. Held \in Int /\ Held' \in Int
    BY SMTT(40) DEF SavesOK, Valid, Saved, Held
  <2>4. account' - adrift' - Held' = account - adrift - Held + Effect(o)
    OBVIOUS
  <2>5. /\ account \in Int /\ adrift \in Int /\ account' \in Int /\ adrift' \in Int
        /\ account + Net(orders) = Held + adrift
    BY <1>1, <1>2
  <2>6. account' + (Net(orders) - Effect(o)) = Held' + adrift'
    BY <2>1, <2>2, <2>3, <2>4, <2>5, AnsweredSum
  <2> QED
    BY <2>1, <2>6
<1>4. \A i \in DOMAIN orders' : i + 1 \in DOMAIN orders /\ orders'[i] = orders[i + 1]
  BY <1>2
<1>5. o = "cover" => shorts
  BY <1>1, <1>2
<1> QED
  BY <1>1, <1>3, <1>4, <1>5

\* Executions move the account and what the strategy does not know of, but for
\* those that it counts.
LEMMA ExecutesKeeps ==
    ASSUME FileAssumption, RestOK, NEW o \in {"buy", "sell", "short", "cover"},
           NEW least \in Nat, NEW counted \in {0, 1}, Executes(o, least, counted),
           "apart" \notin mishaps'
    PROVE  account' - adrift' =
             account - adrift + (IF counted = 1 THEN Effect(o) ELSE 0)
<1>1. PICK n \in least .. MaxExecutions :
        /\ account' = IF Apart' THEN 0 ELSE account + Moved(o, n)
        /\ adrift' = IF Apart' THEN 0 ELSE adrift + Moved(o, n - counted)
  BY DEF Executes
<1>2. /\ account' = account + Moved(o, n)
      /\ adrift' = adrift + Moved(o, n - counted)
  BY <1>1 DEF Apart
<1>3. n \in Int /\ account \in Int /\ adrift \in Int
  BY DEF FileAssumption, RestOK
<1>4. CASE o \in {"buy", "cover"}
  BY <1>2, <1>3, <1>4 DEF Moved, Effect
<1>5. CASE o \notin {"buy", "cover"}
  BY <1>2, <1>3, <1>5 DEF Moved, Effect
<1> QED
  BY <1>4, <1>5

LEMMA StepAgreed ==
    ASSUME RestOK, SavesOK, SavesOK', RestOK', Agreed, [Next]_vars
    PROVE  Agreed'
<1> DEFINE Orders == {"buy", "sell", "short", "cover"}
<1>0. /\ st \in Valid /\ st.side \in {"None", "Long", "Short"}
      /\ st \in Saved /\ st' \in Saved
  BY HeldInt DEF SavesOK, Valid
<1>n. account \in Int /\ account' \in Int /\ adrift \in Int /\ adrift' \in Int
  BY DEF RestOK
<1>1. ASSUME st'.side = st.side,
             UNCHANGED <<orders, account, adrift, newest, mishaps, shorts>>
      PROVE  Agreed'
  BY <1>1 DEF Agreed, Held
<1>2. CASE Quiet
  <2>1. st'.side = st.side
    BY <1>0, <1>2, FileAssumption, TodayOK DEF Quiet
  <2> QED
    BY <1>1, <1>2, <2>1 DEF Quiet
<1>3. CASE EmergencyExit
  <2>1. /\ st'.side = "None" /\ st.side # "None" /\ Save
        /\ mishaps \subseteq mishaps'
    BY <1>0, <1>3, FileAssumption, EmergencyLeaves DEF EmergencyExit
  <2>2. Exits \in Orders /\ Held' = Held + Effect(Exits)
    BY <1>0, <2>1 DEF Exits, Effect, Held
  <2>3. "apart" \notin mishaps => (Exits = "cover" => shorts)
    BY <1>0, <2>1 DEF Exits, Agreed
  <2> QED
    BY <1>3, <2>1, <2>2, <2>3, SentKeeps DEF EmergencyExit
<1>4. ASSUME NEW side \in {"Long", "Short"}, Enter(side)
      PROVE  Agreed'
  <2> DEFINE o == IF side = "Long" THEN "buy" ELSE "short"
  <2>1. st'.side = side /\ st.side = "None" /\ Save /\ orders' = Append(orders, o)
    BY <1>4 DEF Enter
  <2>2. o \in Orders /\ Held' = Held + Effect(o)
    BY <2>1 DEF Effect, Held
  <2>3. st'.side = "Short" \/ o = "cover" => shorts
    BY <1>4, <2>1 DEF Enter
  <2>4. UNCHANGED <<account, adrift, shorts>> /\ mishaps \subseteq mishaps'
    BY <1>4 DEF Enter
  <2> HIDE DEF o
  <2> QED
    BY <2>1, <2>2, <2>3, <2>4, SentKeeps
<1>5. ASSUME NEW outcome \in {"loss", "win", "flat"}, Exit(outcome)
      PROVE  Agreed'
  <2>1. st'.side = "None" /\ st.side # "None" /\ Save
    BY <1>0, <1>5, FileAssumption, TodayOK DEF Exit, Valid, Saved
  <2>2. Exits \in Orders /\ Held' = Held + Effect(Exits)
    BY <1>0, <2>1 DEF Exits, Effect, Held
  <2>3. "apart" \notin mishaps => (Exits = "cover" => shorts)
    BY <1>0, <2>1 DEF Exits, Agreed
  <2> QED
    BY <1>5, <2>1, <2>2, <2>3, SentKeeps DEF Exit
<1>6. ASSUME NEW o \in Orders, Fill(o)
      PROVE  Agreed'
  <2>1. Taken(o) /\ Executes(o, 1, 1) /\ Save /\ shorts' = shorts
    BY <1>6 DEF Fill
  <2>2. st'.side = st.side
    BY <1>0, <1>6 DEF Fill, Cleared, Saved
  <2>3. mishaps \subseteq mishaps'
    BY <1>6 DEF Fill
  <2>4. SideSaved'
    BY <2>1 DEF Save, SideSaved
  <2>5. ASSUME "apart" \notin mishaps'
        PROVE  account' - adrift' - Held' = account - adrift - Held + Effect(o)
    <3>1. Held' = Held /\ Held \in Int /\ Effect(o) \in Int
      BY <1>0, <2>2 DEF Held, Effect
    <3>2. account' - adrift' = account - adrift + Effect(o)
      BY <2>1, <2>5, FileAssumption, ExecutesKeeps
    <3>3. Held' = Held + Effect(o) - Effect(o)
      BY <3>1
    <3> QED
      BY <1>n, <3>1, <3>2, <3>3, KeptSum
  <2> QED
    BY <1>0, <1>n, <2>1, <2>2, <2>3, <2>4, <2>5, AnsweredKeeps
<1>7. ASSUME NEW o \in Orders, NEW mishap, NEW counted \in {0, 1},
             Fails(o, mishap, counted)
      PROVE  /\ mishaps \subseteq mishaps'
             /\ "apart" \notin mishaps' =>
                  /\ "apart" \notin mishap
                  /\ account' - adrift' =
                       account - adrift + (IF counted = 1 THEN Effect(o) ELSE 0)
  BY <1>7, FileAssumption, ExecutesKeeps DEF Fails
<1>8. ASSUME NEW o \in Orders, \E poor \in BOOLEAN : RejectEntry(o, poor)
      PROVE  Agreed'
  <2>1. /\ Taken(o) /\ shorts' = shorts /\ o \in {"buy", "short"}
        /\ mishaps \subseteq mishaps'
    BY <1>8 DEF RejectEntry, Fails
  <2>2. ASSUME "apart" \notin mishaps'
        PROVE  /\ account' - adrift' = account - adrift
               /\ st.side = Opened(o) /\ st'.side = "None" /\ Save
    <3>1. PICK poor \in BOOLEAN : RejectEntry(o, poor)
      BY <1>8
    <3>2. Fails(o, Unheard(o, poor), 0)
      BY <3>1 DEF RejectEntry
    <3>3. account' - adrift' = account - adrift
      <4>1. account' - adrift' = account - adrift + 0
        BY <1>7, <2>2, <3>2
      <4>2. account - adrift + 0 = account - adrift
        BY <1>n
      <4> QED
        BY <4>1, <4>2, Zenon
    <3>4. "apart" \notin Unheard(o, poor)
      BY <1>7, <2>2, <3>2
    <3>5. st.side = Opened(o) /\ st.side # "None"
      BY <3>4 DEF Unheard, Opened
    <3>6. /\ Save
          /\ st' = [st EXCEPT !.side = "None", !.priced = FALSE,
                              !.trades = IF @ > 0 THEN @ - 1 ELSE 0]
      BY <3>1, <3>5 DEF RejectEntry
    <3>7. st'.side = "None"
      BY <1>0, <3>6 DEF Saved
    <3> QED
      BY <3>3, <3>5, <3>6, <3>7
  <2>3. ASSUME "apart" \notin mishaps'
        PROVE  /\ account' - adrift' - Held' = account - adrift - Held + Effect(o)
               /\ SideSaved' /\ st'.side = "None"
    <3>1. Held' = 0 /\ Held = Effect(o) /\ Effect(o) \in Int
      BY <2>1, <2>2, <2>3 DEF Held, Opened, Effect
    <3>2. account' - adrift' = account - adrift
      BY <2>2, <2>3
    <3>3. account' - adrift' - Held' = account - adrift - Held + Effect(o)
      <4>1. account' - adrift' - 0 = account' - adrift'
        BY <1>n
      <4>2. account - adrift - Effect(o) + Effect(o) = account - adrift
        BY <1>n, <3>1
      <4> QED
        BY <3>1, <3>2, <4>1, <4>2, Zenon
    <3>4. SideSaved' /\ st'.side = "None"
      BY <2>2, <2>3 DEF Save, SideSaved
    <3> QED
      BY <3>3, <3>4
  <2> QED
    BY <1>n, <2>1, <2>3, AnsweredKeeps
<1>9. ASSUME NEW o \in Orders, RejectExit(o)
      PROVE  Agreed'
  <2>1. Taken(o) /\ shorts' = shorts /\ o \in {"sell", "cover"}
    BY <1>9 DEF RejectExit
  <2>2. mishaps \subseteq mishaps'
    BY <1>9 DEF RejectExit, Fails
  <2>3. ASSUME "apart" \notin mishaps'
        PROVE  /\ account' - adrift' - Held' = account - adrift - Held + Effect(o)
               /\ SideSaved' /\ (st'.side = "Short" => o = "cover")
    <3>0. Effect(o) \in Int /\ (st.side = "None" => Held = 0)
      BY DEF Effect, Held
    <3>1. CASE /\ st.side = "None" /\ Fails(o, {}, 0) /\ Save
               /\ st' = [st EXCEPT !.side = IF o = "sell" THEN "Long" ELSE "Short"]
      <4>1. st'.side = IF o = "sell" THEN "Long" ELSE "Short"
        BY <1>0, <3>1 DEF Saved
      <4>2. Held' = 0 - Effect(o)
        BY <2>1, <4>1 DEF Held, Effect
      <4>3. account' - adrift' = account - adrift
        BY <1>n, <1>7, <2>3, <3>1
      <4>4. SideSaved'
        BY <3>1 DEF Save, SideSaved
      <4> QED
        BY <1>n, <2>1, <3>0, <3>1, <4>1, <4>2, <4>3, <4>4
    <3>2. CASE /\ st.side = "None" /\ Fails(o, {}, 1) /\ Save
               /\ st' = [st EXCEPT !.priced = FALSE]
      <4>1. st'.side = "None"
        BY <1>0, <3>2 DEF Saved
      <4>2. Held' = 0
        BY <4>1 DEF Held
      <4>3. account' - adrift' = account - adrift + Effect(o)
        BY <1>7, <2>3, <3>2
      <4>4. SideSaved'
        BY <3>2 DEF Save, SideSaved
      <4> QED
        BY <1>n, <3>0, <3>2, <4>1, <4>2, <4>3, <4>4
    <3>3. CASE Fails(o, {"apart"}, 0)
      BY <2>3, <3>3 DEF Fails
    <3> QED
      BY <1>9, <3>1, <3>2, <3>3 DEF RejectExit
  <2> QED
    BY <1>n, <2>1, <2>2, <2>3, AnsweredKeeps
<1>10. ASSUME NEW i \in 1 .. Len(pending), SaveEnds(i) \/ SaveFails(i)
       PROVE  Agreed'
  BY <1>1, <1>10 DEF SaveEnds, SaveFails
<1>11. CASE Restart
  <2> SUFFICES ASSUME "apart" \notin mishaps'
               PROVE  Agreed'
    BY DEF Agreed
  <2>1. /\ "apart" \notin mishaps
        /\ file = newest /\ orders = <<>> /\ shorts' = shorts
        /\ newest' = newest /\ orders' = <<>>
    BY <1>11 DEF Restart
  <2>2. /\ account + Net(orders) = Held + adrift
        /\ SideSaved
        /\ st.side = "Short" => shorts
    BY <2>1 DEF Agreed, SideSaved
  <2>3. account' = account /\ adrift' = adrift
    BY <1>11 DEF Restart, Apart
  <2>4. st'.side = st.side
    <3>1. st' = IF file = <<>> THEN Fresh ELSE Restored(file[1], shorts')
      BY <1>11 DEF Restart
    <3>2. CASE file = <<>>
      BY <2>1, <2>2, <3>1, <3>2 DEF SideSaved, Fresh
    <3>3. CASE file # <<>>
      <4>1. file[1] \in Valid /\ Loads(file[1])
        BY <3>3 DEF SavesOK, Valid
      <4>2. file[1].side = st.side
        BY <2>1, <2>2, <3>3 DEF SideSaved
      <4> QED
        BY <2>1, <2>2, <3>1, <3>3, <4>1, <4>2 DEF Restored
    <3> QED
      BY <3>2, <3>3
  <2>5. Held' = Held /\ SideSaved' /\ (st'.side = "Short" => shorts')
    BY <2>1, <2>2, <2>4 DEF Held, SideSaved
  <2>6. account' + Net(orders') = Held' + adrift'
    BY <2>1, <2>2, <2>3, <2>5
  <2> QED
    BY <2>1, <2>5, <2>6 DEF Agreed, SideSaved
<1>12. CASE Midnight \/ Elapse \/ UNCHANGED vars
  BY <1>1, <1>12 DEF Midnight, Elapse, vars
<1> QED
  BY <1>2, <1>3, <1>4, <1>5, <1>6, <1>8, <1>9, <1>10, <1>11, <1>12 DEF Next

\* Once no order is in the air, the account holds what the strategy believes,
\* also after a restart, but for the executions that no answer told of and the
\* positions given up, unless answers crossed or a restart did not know better.
THEOREM AgreeWhenQuiet == Spec => []AgreesWhenQuiet
<1>1. Init => Agreed
  <2> SUFFICES ASSUME Init PROVE Agreed
    OBVIOUS
  <2>1. /\ orders = <<>> /\ account = 0 /\ adrift = 0
        /\ newest = <<>> /\ st.side = "None"
    BY DEF Init, Fresh
  <2>2. Net(orders) = 0
    <3>1. orders \in Seq({"buy", "sell", "short", "cover"})
      BY <2>1
    <3> QED
      BY <2>1, <3>1, NetMoves
  <2> QED
    BY <2>1, <2>2 DEF Agreed, Held
<1>2. IInv /\ IInv' /\ Agreed /\ [Next]_vars => Agreed'
  BY StepAgreed DEF IInv
<1>3. IInv /\ Agreed => AgreesWhenQuiet
  <2> SUFFICES ASSUME IInv, Agreed, orders = <<>>, "apart" \notin mishaps
               PROVE  account = Held + adrift
    BY DEF AgreesWhenQuiet
  <2>1. account \in Int /\ orders \in Seq({"buy", "sell", "short", "cover"})
    BY DEF IInv, RestOK
  <2>2. Net(orders) = 0
    BY <2>1, NetMoves
  <2> QED
    BY <2>1, <2>2 DEF Agreed
<1> QED
  BY <1>1, <1>2, <1>3, Invariance, PTL DEF Spec
=============================================================================
