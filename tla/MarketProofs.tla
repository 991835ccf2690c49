---------------------------- MODULE MarketProofs ----------------------------
(***************************************************************************)
(* Proofs about what the market's data are used for, live and recorded.    *)
(*                                                                         *)
(* MarketData: for every choice of intervals, a dead connection is given   *)
(* up in time, and a live one is not.                                      *)
(*                                                                         *)
(* Backtest: for every engine, setting and course of prices, the records   *)
(* reconcile and claim no price that was not there, the stop only rises,   *)
(* a half profit stays one, and a stop at a loss is followed by a rest.    *)
(* The stop is a rung of a ladder: what a better price, a flag or another  *)
(* ATR does to it is said once, of the rung.                               *)
(***************************************************************************)
EXTENDS MarketData, Backtest, FiniteSetTheorems, TLAPS

-----------------------------------------------------------------------------
(* The connection.                                                         *)

\* Between two beats, what has passed and what is to come add up: a connection
\* that beat in time is silent for no more than one interval after.  An end
\* that answers does so between two beats.
Beating ==
    phase = "running" =>
        /\ silent + toBeat <= HeartbeatTimeout + HeartbeatInterval
        /\ peer = "here" /\ answered => silent + toBeat <= HeartbeatInterval
        /\ peer = "here" /\ ~answered =>
             toBeat > 0 /\ silent + toBeat <= 2 * HeartbeatInterval

\* An attempt starts with no silence and a ping that nobody waits for.
Fresh ==
    /\ phase \in {"connecting", "failed"} => silent = 0
    /\ phase # "running" => answered

Sleeping ==
    phase = "lost" =>
        silent + left <= HeartbeatTimeout + HeartbeatInterval + ReconnectInterval

IInv == TypeOK /\ Beating /\ Fresh /\ Sleeping

-----------------------------------------------------------------------------
\* What a step may be called.
Names == {"tcp", "request", "status", "headers", "tls", "websocket", "subscribe"}

\* Every interval is positive.
LEMMA Intervals ==
    /\ ReconnectInterval \in Nat \ {0} /\ MaxReconnect \in Nat \ {0}
    /\ ConnectTimeout \in Nat \ {0} /\ HeartbeatInterval \in Nat \ {0}
    /\ HeartbeatTimeout \in Nat \ {0} /\ AliveThreshold \in Nat \ {0}
    /\ MaxFailures \in Nat \ {0}
    /\ ReconnectInterval <= MaxReconnect /\ HeartbeatInterval <= HeartbeatTimeout
BY MarketAssumption

\* Every mode has a first step.
LEMMA PathType ==
    ASSUME mode \in Modes
    PROVE  Len(Path) \in Nat \ {0}
<1>1. Connecting[mode] \in Seq(Names) /\ Len(Connecting[mode]) >= 1
  <2>1. CASE mode = "direct"
    <3>1. Connecting[mode] = <<"websocket">>
      BY <2>1 DEF Connecting
    <3>2. QED
      BY <3>1 DEF Names
  <2>2. CASE mode = "tunnel"
    <3>1. Connecting[mode] = <<"tcp", "tls", "websocket">>
      BY <2>2 DEF Connecting
    <3>2. QED
      BY <3>1 DEF Names
  <2>3. CASE mode = "proxy"
    <3>1. Connecting[mode] =
            <<"tcp", "request", "status", "headers", "tls", "websocket">>
      BY <2>3 DEF Connecting
    <3>2. QED
      BY <3>1 DEF Names
  <2>4. QED
    BY <2>1, <2>2, <2>3, MarketAssumption
<1>2. CASE SeveralSymbols
  BY <1>1, <1>2 DEF Path, Names
<1>3. CASE ~SeveralSymbols
  BY <1>1, <1>3 DEF Path
<1>4. QED
  BY <1>2, <1>3, MarketAssumption

\* The path depends on the mode alone.
LEMMA PathKept ==
    ASSUME UNCHANGED mode
    PROVE  Path' = Path
BY DEF Path

LEMMA DroppedType ==
    ASSUME TypeOK, Dropped
    PROVE  /\ mode' \in Modes /\ up' \in BOOLEAN /\ step' \in 1 .. Len(Path)'
           /\ spent' \in 0 .. ConnectTimeout
           /\ elapsed' \in 0 .. AliveThreshold + 1
           /\ peer' \in {"here", "gone"}
           /\ toBeat' \in 0 .. HeartbeatInterval /\ answered' = TRUE
<1>1. Path' = Path
  BY PathKept DEF Dropped
<1>2. QED
  BY <1>1, PathType, Intervals DEF Dropped, TypeOK

LEMMA FailStep ==
    ASSUME IInv, Fail, phase = "connecting"
    PROVE  IInv'
<1> DEFINE wait == IF elapsed > AliveThreshold THEN ReconnectInterval ELSE retry
<1>1. wait \in ReconnectInterval .. MaxReconnect
  BY Intervals DEF IInv, TypeOK
<1>2. Min2(wait * 2, MaxReconnect) \in ReconnectInterval .. MaxReconnect
  BY <1>1, Intervals DEF Min2
<1>3. Min2(failures + 1, MaxFailures) \in 0 .. MaxFailures
  BY Intervals DEF Min2, IInv, TypeOK
<1>4. phase' = "failed" /\ left' = wait /\ Dropped /\ silent' = silent
      /\ retry' = Min2(wait * 2, MaxReconnect)
      /\ failures' = Min2(failures + 1, MaxFailures)
  BY DEF Fail
<1> HIDE DEF wait
<1>5. left' \in 0 .. MaxReconnect
  BY <1>1, <1>4, Intervals
<1>6. TypeOK'
  BY <1>5, <1>2, <1>3, <1>4, DroppedType DEF IInv, TypeOK
<1>7. Beating' /\ Fresh' /\ Sleeping'
  BY <1>4, DroppedType DEF IInv, Beating, Fresh, Sleeping
<1>8. QED
  BY <1>6, <1>7 DEF IInv

LEMMA LoseStep ==
    ASSUME IInv, Lose, phase = "running"
    PROVE  IInv'
<1>1. phase' = "lost" /\ left' = ReconnectInterval /\ retry' = ReconnectInterval
      /\ Dropped /\ silent' = silent /\ failures' = failures
  BY DEF Lose
<1>2. left' \in 0 .. MaxReconnect /\ retry' \in ReconnectInterval .. MaxReconnect
  BY <1>1, Intervals
<1>3. TypeOK'
  BY <1>1, <1>2, DroppedType DEF IInv, TypeOK
<1>4. Beating' /\ Fresh'
  BY <1>1, DroppedType DEF IInv, Beating, Fresh
<1>5. Sleeping'
  BY <1>1, Intervals DEF IInv, Beating, Sleeping, TypeOK
<1>6. QED
  BY <1>3, <1>4, <1>5 DEF IInv

-----------------------------------------------------------------------------
LEMMA TickStep ==
    ASSUME IInv, Tick
    PROVE  IInv'
<1> USE Intervals
<1>1. Path' = Path
  BY PathKept DEF Tick
<1>2. CASE TickConnecting
  <2>1. spent' \in 0 .. ConnectTimeout /\ elapsed' \in 0 .. AliveThreshold + 1
    BY <1>2 DEF TickConnecting, Min2, IInv, TypeOK
  <2>2. QED
    BY <1>1, <1>2, <2>1 DEF Tick, TickConnecting, IInv, TypeOK, Beating, Fresh,
       Sleeping
<1>3. CASE TickRunning
  BY <1>1, <1>3 DEF Tick, TickRunning, IInv, TypeOK, Beating, Fresh, Sleeping
<1>4. CASE TickAsleep
  BY <1>1, <1>4 DEF Tick, TickAsleep, IInv, TypeOK, Beating, Fresh, Sleeping
<1>5. QED
  BY <1>2, <1>3, <1>4 DEF Tick

LEMMA NetworkStep ==
    ASSUME IInv, NetworkDown \/ NetworkUp
    PROVE  IInv'
<1>1. Path' = Path
  BY PathKept DEF NetworkDown, NetworkUp
<1>2. CASE NetworkDown
  BY <1>1, <1>2 DEF NetworkDown, IInv, TypeOK, Beating, Fresh, Sleeping
<1>3. CASE NetworkUp
  BY <1>1, <1>3 DEF NetworkUp, IInv, TypeOK, Beating, Fresh, Sleeping
<1>4. QED
  BY <1>2, <1>3

LEMMA WakeStep ==
    ASSUME IInv, Wake
    PROVE  IInv'
<1>1. Path' = Path
  BY PathKept DEF Wake
<1>2. QED
  BY <1>1 DEF Wake, IInv, TypeOK, Beating, Fresh, Sleeping

LEMMA PassStep ==
    ASSUME IInv, Pass
    PROVE  IInv'
<1> USE Intervals
<1>1. Path' = Path /\ Len(Path) \in Nat \ {0}
  BY PathKept, PathType DEF Pass, IInv, TypeOK
<1>2. CASE step < Len(Path)
  BY <1>1, <1>2 DEF Pass, IInv, TypeOK, Beating, Fresh, Sleeping
<1>3. CASE ~(step < Len(Path))
  BY <1>1, <1>3 DEF Pass, IInv, TypeOK, Beating, Fresh, Sleeping
<1>4. QED
  BY <1>2, <1>3

LEMMA MessageStep ==
    ASSUME IInv, NEW kind, Message(kind)
    PROVE  IInv'
<1> USE Intervals
<1>1. Path' = Path
  BY PathKept DEF Message
<1>2. kind = "pong" => silent' = 0 /\ answered' = TRUE
  BY DEF Message, Refreshes
<1>3. kind # "pong" => silent' \in {silent, 0} /\ answered' = answered
  BY DEF Message, IInv, TypeOK
<1>4. TypeOK'
  BY <1>1, <1>2, <1>3 DEF Message, IInv, TypeOK
<1>5. Beating'
  BY <1>2, <1>3 DEF Message, IInv, TypeOK, Beating
<1>6. Fresh' /\ Sleeping'
  BY DEF Message, Fresh, Sleeping
<1>7. QED
  BY <1>4, <1>5, <1>6 DEF IInv

LEMMA BeatStep ==
    ASSUME IInv, Beat
    PROVE  IInv'
<1>1. CASE Lose
  BY <1>1, LoseStep DEF Beat
<1>2. CASE ~Lose
  <2>1. Path' = Path
    BY <1>2, PathKept DEF Beat
  <2>2. toBeat' \in 0 .. HeartbeatInterval
    BY <1>2, Intervals DEF Beat
  <2>3. TypeOK'
    BY <1>2, <2>1, <2>2 DEF Beat, IInv, TypeOK
  <2>4. Beating'
    BY <1>2, Intervals DEF Beat, Overdue, IInv, TypeOK, Beating
  <2>5. Fresh' /\ Sleeping'
    BY <1>2 DEF Beat, IInv, Fresh, Sleeping
  <2>6. QED
    BY <2>3, <2>4, <2>5 DEF IInv
<1>3. QED
  BY <1>1, <1>2

-----------------------------------------------------------------------------
LEMMA InvInit == Init => IInv
<1> SUFFICES ASSUME Init PROVE IInv
  OBVIOUS
<1>1. Len(Path) \in Nat \ {0}
  BY PathType DEF Init
<1>2. TypeOK
  BY <1>1, Intervals DEF Init, TypeOK
<1>3. QED
  BY <1>2 DEF Init, IInv, Beating, Fresh, Sleeping

LEMMA InvStep == IInv /\ [Next]_vars => IInv'
<1> SUFFICES ASSUME IInv, [Next]_vars PROVE IInv'
  OBVIOUS
<1>1. CASE Tick
  BY <1>1, TickStep
<1>2. CASE NetworkDown \/ NetworkUp
  BY <1>2, NetworkStep
<1>3. CASE Wake
  BY <1>3, WakeStep
<1>4. CASE Pass
  BY <1>4, PassStep
<1>5. CASE Refused \/ Declined \/ TimesOut
  BY <1>5, FailStep DEF Refused, Declined, TimesOut
<1>6. CASE \E kind \in {"text", "ping", "pong", "other"} : Message(kind)
  BY <1>6, MessageStep
<1>7. CASE Closed
  BY <1>7, LoseStep DEF Closed
<1>8. CASE Beat
  BY <1>8, BeatStep
<1>9. CASE UNCHANGED vars
  <2>1. Path' = Path
    BY <1>9, PathKept DEF vars
  <2>2. QED
    BY <1>9, <2>1 DEF vars, IInv, TypeOK, Beating, Fresh, Sleeping
<1>10. QED
  BY <1>1, <1>2, <1>3, <1>4, <1>5, <1>6, <1>7, <1>8, <1>9 DEF Next

\* The inductive invariant holds in every behaviour.
THEOREM Invariant == Spec => []IInv
BY InvInit, InvStep, PTL DEF Spec

\* Every variable keeps its type: the wait between two attempts, above all, stays
\* within its limits.
THEOREM TypeCorrect == Spec => []TypeOK
<1>1. IInv => TypeOK
  BY DEF IInv
<1>2. QED
  BY <1>1, Invariant, PTL

\* The next attempt begins in bounded time after a connection's last message.
THEOREM ResumesSoon == Spec => []Resumes
<1>1. IInv => Resumes
  BY Intervals DEF IInv, TypeOK, Beating, Sleeping, Resumes
<1>2. QED
  BY <1>1, Invariant, PTL

\* A connection whose other end answers pings is never given up by the heartbeat.
THEOREM LiveStays == Spec => []LiveKept
<1>1. IInv => LiveKept
  BY Intervals DEF IInv, TypeOK, Beating, LiveKept, Overdue
<1>2. QED
  BY <1>1, Invariant, PTL

-----------------------------------------------------------------------------
(* The backoff.                                                            *)

\* A power of two counts the subsets of a set, and one element more doubles them.
LEMMA Doubling ==
  ASSUME NEW n \in Nat
  PROVE  2^n \in Nat /\ 2^(n + 1) = 2 * 2^n
<1> DEFINE S == 1 .. n
           T == 1 .. (n + 1)
           New == {C \in SUBSET T : n + 1 \in C}
<1>1. IsFiniteSet(S) /\ Cardinality(S) = n /\ IsFiniteSet(T) /\ Cardinality(T) = n + 1
  BY FS_Interval
<1>2. /\ IsFiniteSet(SUBSET S) /\ Cardinality(SUBSET S) = 2^n
      /\ Cardinality(SUBSET T) = 2^(n + 1)
  BY <1>1, FS_SUBSET
<1>3. T = S \cup {n + 1} /\ n + 1 \notin S
  OBVIOUS
<1> HIDE DEF S, T
<1>4. SUBSET T = (SUBSET S) \cup New /\ (SUBSET S) \cap New = {}
  <2>1. ASSUME NEW C \in SUBSET T PROVE C \in (SUBSET S) \cup New
    <3>1. CASE n + 1 \in C
      <4>1. C \in New
        BY <3>1
      <4> QED BY <4>1
    <3>2. CASE n + 1 \notin C
      <4>1. C \subseteq S
        BY <1>3, <3>2
      <4> QED BY <4>1
    <3> QED BY <3>1, <3>2
  <2>2. ASSUME NEW C \in SUBSET S PROVE C \in SUBSET T /\ C \notin New
    <3>1. C \subseteq T /\ n + 1 \notin C
      BY <1>3
    <3> QED BY <3>1
  <2>3. \A C \in New : C \in SUBSET T
    OBVIOUS
  <2> DEFINE U == SUBSET S
             V == SUBSET T
  <2> HIDE DEF New, U, V
  <2>4. /\ \A C \in V : C \in U \cup New
        /\ \A C \in U : C \in V /\ C \notin New
        /\ \A C \in New : C \in V
    BY <2>1, <2>2, <2>3, Zenon DEF U, V
  <2>5. V = U \cup New /\ U \cap New = {}
    BY <2>4
  <2> QED BY <2>5 DEF U, V
<1>5. ExistsBijection(SUBSET S, New)
  <2> DEFINE f == [A \in SUBSET S |-> A \cup {n + 1}]
  <2>1. \A A \in SUBSET S : A \cup {n + 1} \in New
    <3> SUFFICES ASSUME NEW A \in SUBSET S PROVE A \cup {n + 1} \in New
      OBVIOUS
    <3>1. A \cup {n + 1} \subseteq T
      BY <1>3
    <3> QED BY <3>1
  <2>2. \A A, B \in SUBSET S : A \cup {n + 1} = B \cup {n + 1} => A = B
    BY <1>3
  <2>3. \A C \in New : \E A \in SUBSET S : A \cup {n + 1} = C
    <3> SUFFICES ASSUME NEW C \in New PROVE \E A \in SUBSET S : A \cup {n + 1} = C
      OBVIOUS
    <3>1. C \subseteq T /\ n + 1 \in C
      OBVIOUS
    <3>2. C \ {n + 1} \subseteq S
      BY <1>3, <3>1
    <3>3. (C \ {n + 1}) \cup {n + 1} = C
      BY <3>1
    <3> QED BY <3>2, <3>3
  <2> HIDE DEF New
  <2>4. f \in Bijection(SUBSET S, New)
    BY <2>1, <2>2, <2>3 DEF Bijection, Injection, Surjection, IsInjective
  <2> QED BY <2>4 DEF ExistsBijection
<1> HIDE DEF New
<1>6. IsFiniteSet(New) /\ Cardinality(New) = 2^n
  BY <1>2, <1>5, FS_Bijection
<1>7. 2^n \in Nat /\ Cardinality({}) = 0
  BY <1>2, FS_CardinalityType, FS_EmptySet
<1>8. Cardinality(SUBSET T) = 2^n + 2^n - 0
  BY <1>2, <1>4, <1>6, <1>7, FS_Union
<1> QED BY <1>2, <1>7, <1>8

\* An attempt has taken the timeouts of the steps behind it, at the most.
Before == CASE step = 1 -> 0 [] step = 2 -> ConnectTimeout
            [] step = 3 -> 2 * ConnectTimeout [] OTHER -> 3 * ConnectTimeout
Timely ==
    /\ phase = "connecting" /\ mode # "proxy" =>
         /\ elapsed <= spent + Before
         /\ At \in Writes => spent = 0
    /\ phase # "connecting" => step = 1 /\ spent = 0 /\ elapsed = 0

\* The wait has been doubled once for each failure since the last connection.
Doubled ==
    /\ phase = "running" => failures = 0
    /\ mode # "proxy" /\ phase # "running" =>
         retry = Min2(ReconnectInterval * 2^failures, MaxReconnect)

LEMMA PathSteps ==
    ASSUME mode \in Modes, mode # "proxy"
    PROVE  /\ Len(Path) <= 4
           /\ \A n \in 1 .. Len(Path) :
                Path[n] \in Timed \cup Writes /\ (n = 4 => Path[n] \in Writes)
<1>1. PICK s : s = Connecting[mode]
  OBVIOUS
<1>2. PICK t : t = IF SeveralSymbols THEN <<"subscribe">> ELSE << >>
  OBVIOUS
<1>3. s \in Seq(Names) /\ Len(s) <= 3 /\ \A n \in 1 .. Len(s) : s[n] \in Timed
  <2>1. CASE mode = "direct"
    <3>1. s = <<"websocket">>
      BY <1>1, <2>1 DEF Connecting
    <3> QED BY <3>1 DEF Names, Timed
  <2>2. CASE mode = "tunnel"
    <3>1. s = <<"tcp", "tls", "websocket">>
      BY <1>1, <2>2 DEF Connecting
    <3> QED BY <3>1 DEF Names, Timed
  <2> QED BY <2>1, <2>2, MarketAssumption
<1>4. t \in Seq(Names) /\ Len(t) <= 1 /\ \A n \in 1 .. Len(t) : t[n] \in Writes
  <2>1. CASE t = <<"subscribe">>
    BY <2>1 DEF Names, Writes
  <2>2. CASE t = << >>
    BY <2>2
  <2> QED BY <1>2, <2>1, <2>2
<1>5. Path = s \o t
  BY <1>1, <1>2 DEF Path
<1>6. /\ Len(s \o t) = Len(s) + Len(t)
      /\ \A n \in 1 .. Len(s) + Len(t) :
           (s \o t)[n] = IF n <= Len(s) THEN s[n] ELSE t[n - Len(s)]
  BY <1>3, <1>4
<1>7. Len(s) \in Nat /\ Len(t) \in Nat
  BY <1>3, <1>4
<1>8. ASSUME NEW n \in 1 .. Len(s) + Len(t)
      PROVE  (s \o t)[n] \in Timed \cup Writes /\ (n = 4 => (s \o t)[n] \in Writes)
  <2>1. CASE n <= Len(s)
    <3>1. n \in 1 .. Len(s) /\ n # 4
      BY <1>3, <1>7, <2>1
    <3> QED BY <1>3, <1>6, <2>1, <3>1
  <2>2. CASE ~(n <= Len(s))
    <3>1. n - Len(s) \in 1 .. Len(t)
      BY <1>7, <2>2
    <3> QED BY <1>4, <1>6, <2>2, <3>1
  <2> QED BY <2>1, <2>2
<1> QED BY <1>3, <1>4, <1>5, <1>6, <1>7, <1>8

LEMMA AtStep ==
    ASSUME TypeOK, mode # "proxy"
    PROVE  step \in 1 .. 4 /\ (step = 4 => At \in Writes) /\ At \in Timed \cup Writes
<1>1. Len(Path) \in Nat /\ step \in 1 .. Len(Path) /\ mode \in Modes
  BY PathType DEF TypeOK
<1> QED BY <1>1, PathSteps DEF At

\* An attempt that does not go through a proxy fails before it is long enough to
\* count as a connection.
LEMMA FailsEarly ==
    ASSUME TypeOK, Timely, phase = "connecting", mode # "proxy"
    PROVE  elapsed <= 3 * ConnectTimeout
<1>1. step \in 1 .. 4 /\ (step = 4 => spent = 0)
  BY AtStep DEF Timely
<1>2. elapsed <= spent + Before /\ spent \in 0 .. ConnectTimeout /\ elapsed \in Nat
  BY Intervals DEF Timely, TypeOK
<1>3. ConnectTimeout \in Nat
  BY Intervals
<1> QED BY <1>1, <1>2, <1>3 DEF Before

LEMMA TimelyStep ==
    ASSUME TypeOK, Timely, [Next]_vars
    PROVE  Timely'
<1>1. mode' = mode
  BY DEF Next, vars, Tick, NetworkDown, NetworkUp, Wake, Pass, Refused, Declined, TimesOut, Fail,
         Dropped, Message, Closed, Lose, Beat
<1>2. Path' = Path
  BY <1>1, PathKept
<1>3. /\ spent \in 0 .. ConnectTimeout /\ elapsed \in Nat /\ ConnectTimeout \in Nat
      /\ AliveThreshold \in Nat
  BY Intervals DEF TypeOK
<1>4. mode # "proxy" => step \in 1 .. 4 /\ At \in Timed \cup Writes
  BY AtStep
<1>5. CASE TickConnecting /\ Tick
  <2>1. phase = "connecting" /\ phase' = phase /\ step' = step /\ At \notin Writes
    BY <1>5 DEF Tick, TickConnecting
  <2>2. At' = At /\ Before' = Before
    BY <1>2, <2>1 DEF At, Before
  <2> SUFFICES ASSUME mode # "proxy" PROVE elapsed' <= spent' + Before'
    BY <1>1, <2>1, <2>2 DEF Timely
  <2>3. /\ spent < ConnectTimeout
        /\ spent' = Min2(spent + 1, ConnectTimeout)
        /\ elapsed' = Min2(elapsed + 1, AliveThreshold + 1)
    BY <1>3, <1>4, <1>5, <2>1 DEF TickConnecting
  <2>4. spent' = spent + 1 /\ elapsed' <= elapsed + 1 /\ elapsed' \in Nat
    BY <1>3, <2>3 DEF Min2
  <2>5. elapsed <= spent + Before /\ Before \in Nat
    BY <1>3, <2>1 DEF Timely, Before
  <2> QED BY <1>3, <2>2, <2>4, <2>5
<1>6. CASE Pass /\ step < Len(Path)
  <2>1. /\ step' = step + 1 /\ spent' = 0 /\ elapsed' = elapsed
        /\ phase = "connecting" /\ phase' = phase
    BY <1>6 DEF Pass
  <2> SUFFICES ASSUME mode # "proxy" PROVE elapsed' <= spent' + Before'
    BY <1>1, <2>1 DEF Timely
  <2>2. elapsed <= spent + Before
    BY <2>1 DEF Timely
  <2>3. step \in 1 .. 3
    <3>1. Len(Path) <= 4 /\ Len(Path) \in Nat
      BY PathSteps, PathType DEF TypeOK
    <3> QED BY <1>4, <1>6, <3>1
  <2>4. Before \in Nat /\ Before' = Before + ConnectTimeout
    BY <1>3, <2>1, <2>3 DEF Before
  <2> QED BY <1>3, <2>1, <2>2, <2>4
<1>7. CASE UNCHANGED <<phase, step, spent, elapsed>>
  <2>1. At' = At /\ Before' = Before
    BY <1>2, <1>7 DEF At, Before
  <2> QED BY <1>1, <1>7, <2>1 DEF Timely
<1>8. CASE Wake
  <2>1. UNCHANGED <<step, spent, elapsed>> /\ phase # "connecting" /\ phase' = "connecting"
    BY <1>8 DEF Wake
  <2>2. step' = 1 /\ spent' = 0 /\ elapsed' = 0
    BY <2>1 DEF Timely
  <2>3. Before' = 0
    BY <2>2 DEF Before
  <2> QED BY <2>1, <2>2, <2>3 DEF Timely
<1>9. CASE step' = 1 /\ spent' = 0 /\ elapsed' = 0 /\ phase' # "connecting"
  BY <1>9 DEF Timely
<1>10. CASE Pass /\ ~(step < Len(Path))
  BY <1>9, <1>10 DEF Pass
<1>11. CASE Tick /\ ~TickConnecting
  BY <1>7, <1>11 DEF Tick, TickRunning, TickAsleep
<1>12. CASE \E kind \in {"text", "ping", "pong", "other"} : Message(kind)
  BY <1>7, <1>12 DEF Message
<1>13. CASE Beat
  BY <1>7, <1>9, <1>13 DEF Beat, Lose, Dropped
<1>14. CASE Refused \/ Declined \/ TimesOut \/ Closed
  BY <1>9, <1>14 DEF Refused, Declined, TimesOut, Closed, Fail, Lose, Dropped
<1>15. CASE NetworkDown \/ NetworkUp \/ UNCHANGED vars
  BY <1>7, <1>15 DEF NetworkDown, NetworkUp, vars
<1> QED BY <1>5, <1>6, <1>8, <1>10, <1>11, <1>12, <1>13, <1>14, <1>15 DEF Next

\* The wait doubles with each failure in a row.
Settings ==
    /\ 3 * ConnectTimeout <= AliveThreshold
    /\ ReconnectInterval * 2^(MaxFailures - 1) >= MaxReconnect

LEMMA Doubles ==
    ASSUME NEW r \in Nat, NEW m \in Nat, NEW x \in Nat
    PROVE  Min2(Min2(r * x, m) * 2, m) = Min2(r * (2 * x), m)
<1>1. r * x \in Nat /\ r * (2 * x) = (r * x) * 2
  OBVIOUS
<1>2. PICK y \in Nat : y = r * x
  BY <1>1
<1>3. Min2(Min2(y, m) * 2, m) = Min2(y * 2, m)
  BY DEF Min2
<1> QED BY <1>1, <1>2, <1>3

LEMMA FailDoubles ==
    ASSUME IInv, Timely, Doubled, Settings, Fail, phase = "connecting", mode # "proxy"
    PROVE  /\ left' = Min2(ReconnectInterval * 2^(failures' - 1), MaxReconnect)
           /\ retry' = Min2(ReconnectInterval * 2^failures', MaxReconnect)
<1>1. TypeOK /\ ~(elapsed > AliveThreshold)
  BY FailsEarly, Intervals DEF Settings, IInv, TypeOK
<1>2. /\ left' = retry /\ retry' = Min2(retry * 2, MaxReconnect)
      /\ failures' = Min2(failures + 1, MaxFailures)
      /\ retry = Min2(ReconnectInterval * 2^failures, MaxReconnect)
  BY <1>1 DEF Fail, Doubled
<1>3. failures \in Nat /\ failures <= MaxFailures /\ MaxFailures \in Nat \ {0}
      /\ ReconnectInterval \in Nat /\ MaxReconnect \in Nat
  BY <1>1, Intervals DEF TypeOK
<1>4. CASE failures < MaxFailures
  <2>1. failures' = failures + 1
    BY <1>2, <1>3, <1>4 DEF Min2
  <2>2. 2^failures \in Nat /\ 2^(failures + 1) = 2 * 2^failures
    BY <1>3, Doubling
  <2>3. PICK x \in Nat : x = 2^failures
    BY <2>2
  <2>4. Min2(Min2(ReconnectInterval * x, MaxReconnect) * 2, MaxReconnect)
          = Min2(ReconnectInterval * (2 * x), MaxReconnect)
    BY <1>3, Doubles
  <2>5. failures' - 1 = failures
    BY <1>3, <2>1
  <2> QED BY <1>2, <2>1, <2>2, <2>3, <2>4, <2>5
<1>5. CASE failures = MaxFailures
  <2>1. failures' = MaxFailures
    BY <1>2, <1>3, <1>5 DEF Min2
  <2>2. PICK n \in Nat : n = MaxFailures - 1
    BY <1>3
  <2>3. 2^n \in Nat /\ 2^(n + 1) = 2 * 2^n /\ n + 1 = MaxFailures
    BY <1>3, <2>2, Doubling
  <2>4. PICK x \in Nat : x = 2^n
    BY <2>3
  <2>5. ReconnectInterval * x >= MaxReconnect
    BY <2>2, <2>4 DEF Settings
  <2>6. ReconnectInterval * (2 * x) >= MaxReconnect
    <3>1. ReconnectInterval * (2 * x) = 2 * (ReconnectInterval * x)
          /\ ReconnectInterval * x \in Nat
      BY <1>3
    <3> QED BY <1>3, <2>5, <3>1
  <2>7. /\ Min2(ReconnectInterval * x, MaxReconnect) = MaxReconnect
        /\ Min2(ReconnectInterval * (2 * x), MaxReconnect) = MaxReconnect
    <3>1. ReconnectInterval * x \in Nat /\ ReconnectInterval * (2 * x) \in Nat
      BY <1>3
    <3> QED BY <1>3, <2>5, <2>6, <3>1 DEF Min2
  <2>8. 2^failures = 2 * x /\ 2^failures' = 2 * x /\ 2^(failures' - 1) = x
    BY <1>5, <2>1, <2>2, <2>3, <2>4
  <2>9. retry = MaxReconnect
    BY <1>2, <2>7, <2>8
  <2>10. Min2(MaxReconnect * 2, MaxReconnect) = MaxReconnect
    BY <1>3 DEF Min2
  <2> QED BY <1>2, <2>7, <2>8, <2>9, <2>10
<1> QED BY <1>3, <1>4, <1>5

LEMMA DoubledStep ==
    ASSUME IInv, Timely, Doubled, Settings, [Next]_vars
    PROVE  Doubled'
<1>1. CASE UNCHANGED <<mode, phase, retry, failures>>
  BY <1>1 DEF Doubled
<1>2. CASE Lose /\ phase = "running"
  <2>1. failures' = 0 /\ phase' = "lost" /\ retry' = ReconnectInterval
    BY <1>2 DEF Lose, Doubled
  <2>2. Min2(ReconnectInterval * 2^0, MaxReconnect) = ReconnectInterval
    <3>1. 2^0 = 1
      OBVIOUS
    <3> QED BY <3>1, Intervals DEF Min2
  <2> QED BY <2>1, <2>2 DEF Doubled
<1>3. CASE Fail /\ phase = "connecting"
  <2>1. phase' = "failed" /\ mode' = mode
    BY <1>3 DEF Fail, Dropped
  <2> QED BY <1>3, <2>1, FailDoubles DEF Doubled
<1>4. CASE Wake
  BY <1>4 DEF Wake, Doubled
<1>5. CASE Pass
  BY <1>1, <1>5 DEF Pass, Doubled
<1>6. CASE Tick \/ NetworkDown \/ NetworkUp \/ UNCHANGED vars
  BY <1>1, <1>6 DEF Tick, NetworkDown, NetworkUp, vars
<1>7. CASE \E kind \in {"text", "ping", "pong", "other"} : Message(kind)
  BY <1>1, <1>7 DEF Message
<1>8. CASE Beat
  BY <1>1, <1>2, <1>8 DEF Beat
<1>9. CASE Refused \/ Declined \/ TimesOut \/ Closed
  BY <1>2, <1>3, <1>9 DEF Refused, Declined, TimesOut, Closed
<1> QED BY <1>4, <1>5, <1>6, <1>7, <1>8, <1>9 DEF Next

BackoffStep ==
    phase = "connecting" /\ phase' = "failed" /\ mode # "proxy"
      => left' = Min2(ReconnectInterval * 2^(failures' - 1), MaxReconnect)

\* The n-th failure in a row waits 2^(n-1) times the first waiting time, or the
\* longest, if the timeouts of an attempt that fails do not make it count as a
\* connection, as the program's do not, and failures are counted to the longest.
THEOREM BackoffDoubles ==
    ASSUME 3 * ConnectTimeout <= AliveThreshold,
           ReconnectInterval * 2^(MaxFailures - 1) >= MaxReconnect
    PROVE  Spec => BackoffKept
<1> Settings
  BY DEF Settings
<1> DEFINE Inv == IInv /\ Timely /\ Doubled
<1>1. Init => Inv
  <2> SUFFICES ASSUME Init PROVE Timely /\ Doubled
    BY InvInit
  <2>1. phase = "connecting" /\ elapsed = 0 /\ spent = 0 /\ step = 1 /\ failures = 0
        /\ retry = ReconnectInterval
    BY DEF Init
  <2>2. Min2(ReconnectInterval * 2^0, MaxReconnect) = ReconnectInterval
    <3>1. 2^0 = 1
      OBVIOUS
    <3> QED BY <3>1, Intervals DEF Min2
  <2> QED BY <2>1, <2>2 DEF Timely, Doubled, Before
<1>2. Inv /\ [Next]_vars => Inv'
  <2> SUFFICES ASSUME Inv, [Next]_vars PROVE Inv'
    OBVIOUS
  <2>1. IInv'
    BY InvStep
  <2>2. Timely'
    BY TimelyStep DEF IInv
  <2>3. Doubled'
    BY DoubledStep
  <2> QED BY <2>1, <2>2, <2>3
<1>3. Inv /\ [Next]_vars => [BackoffStep]_vars
  <2> SUFFICES ASSUME Inv, [Next]_vars, phase = "connecting", phase' = "failed",
                      mode # "proxy"
               PROVE  left' = Min2(ReconnectInterval * 2^(failures' - 1), MaxReconnect)
    BY DEF BackoffStep
  <2>1. Fail
    BY DEF Next, vars, Tick, NetworkDown, NetworkUp, Wake, Pass, Refused, Declined, TimesOut,
           Message, Closed, Lose, Beat
  <2> QED BY <2>1, FailDoubles
<1> QED BY <1>1, <1>2, <1>3, PTL DEF Spec, BackoffKept, BackoffStep

-----------------------------------------------------------------------------
(* The simulated trading.                                                  *)

Position == [side : Sides \cup {"None"}, qty : Nat, since : Nat, best : Nat,
             trailing : BOOLEAN, breakeven : BOOLEAN, partial : BOOLEAN,
             atr : Atrs \cup {0}]

Held == p.side \in Sides

\* The stop at a best price, with or without the break-even flag, for an ATR.
WithAtr(a) == useAtr /\ a > 0
TrailFrom(a) == IF WithAtr(a) THEN AtrTrigger * a ELSE Trigger
TrailBy(a) == IF WithAtr(a) THEN AtrDistance * a ELSE Distance
FirstStop(a) == IF WithAtr(a) THEN -(AtrStop * a) ELSE -StopLoss

Rung(best, flag, a) ==
    IF best >= TrailFrom(a) THEN best - TrailBy(a)
    ELSE IF flag \/ best >= Breakeven THEN 0 ELSE FirstStop(a)

\* What is kept of the last bar tells its stop, above which it ended.
LastStop ==
    Held /\ engine # "v2" =>
      /\ last.level = Rung(p.best, p.breakeven, last.atr)
      /\ last.level < last.close

\* A position that has taken its half is protected and has not lost since.
HalfDone ==
    Held /\ took =>
      engine = "kline" /\ p.partial /\ p.breakeven /\ last.close >= 0

\* One that has not did not end a bar above its first target.
HalfDue ==
    Held /\ engine = "kline" /\ ~p.partial /\ Half(p) > 0 => last.close <= PartialAt

\* The flag of the trailing stop is never set too early.
TrailEarned == Held /\ p.trailing /\ ~useAtr => p.best >= Trigger

\* A stop at a loss is one that the longer cooldown follows.
HurtRests == hurt /\ ~useAtr /\ engine \in {"kline", "data"} => lastStop

BacktestInv ==
    /\ BacktestTypes /\ p \in Position /\ today \in [trades : Nat, pnl : Int]
    /\ LastStop /\ HalfDone /\ HalfDue /\ TrailEarned /\ HurtRests
    /\ Reconciles /\ FillsAreReal /\ ProfitLocked

USE BacktestAssumption

Atr == Atrs \cup {0}

-----------------------------------------------------------------------------
(* The ladder.                                                             *)

LEMMA Products ==
  ASSUME NEW a \in Nat, a > 0
  PROVE  /\ AtrTrigger * a \in Nat /\ AtrDistance * a \in Nat /\ AtrStop * a \in Nat
         /\ AtrTrigger * a >= 1 /\ AtrDistance * a >= 1
         /\ AtrDistance * a <= AtrTrigger * a
         /\ Cost < AtrStop * a
<1>1. \A x \in Nat : x * a \in Nat /\ x <= x * a
  OBVIOUS
<1>2. \A x, y \in Nat : x <= y => x * a <= y * a
  OBVIOUS
<1> QED BY <1>1, <1>2

LEMMA LadderParts ==
  ASSUME NEW a \in Nat
  PROVE  /\ TrailFrom(a) \in Nat /\ TrailBy(a) \in Nat /\ FirstStop(a) \in Int
         /\ TrailFrom(a) >= 1 /\ TrailBy(a) >= 1 /\ TrailBy(a) <= TrailFrom(a)
         /\ FirstStop(a) < -Cost /\ FirstStop(a) < 0
<1>1. CASE WithAtr(a)
  <2>1. a > 0
    BY <1>1 DEF WithAtr
  <2> QED BY <1>1, <2>1, Products DEF TrailFrom, TrailBy, FirstStop
<1>2. CASE ~WithAtr(a)
  BY <1>2 DEF TrailFrom, TrailBy, FirstStop
<1> QED BY <1>1, <1>2

LEMMA RungFacts ==
  ASSUME NEW a \in Nat, NEW b \in Nat, NEW f \in BOOLEAN
  PROVE  /\ Rung(b, f, a) \in Int
         /\ Rung(b, f, a) <= b
         /\ f => Rung(b, f, a) >= 0
         /\ b >= TrailFrom(a) => Rung(b, f, a) >= 0
         /\ b >= Breakeven => Rung(b, f, a) >= 0
         /\ Rung(b, f, a) < 0 => Rung(b, f, a) = FirstStop(a)
         /\ Rung(b, b >= Breakeven \/ f, a) = Rung(b, f, a)
  BY LadderParts DEF Rung

\* The ladder is climbed: a better price or the flag never lowers the stop.
LEMMA RungRises ==
  ASSUME NEW a \in Nat, NEW b \in Nat, NEW c \in Nat, b <= c,
         NEW f \in BOOLEAN, NEW g \in BOOLEAN, f => g
  PROVE  Rung(b, f, a) <= Rung(c, g, a)
  BY LadderParts DEF Rung

\* The flag only tells what the price has already reached.
LEMMA RungFlag ==
  ASSUME NEW a, NEW b \in Nat, NEW f \in BOOLEAN, NEW g \in BOOLEAN,
         f => g, g => f \/ b >= Breakeven
  PROVE  Rung(b, g, a) = Rung(b, f, a)
  BY DEF Rung

LEMMA RungAtEntry ==
  ASSUME NEW a \in Nat
  PROVE  Rung(0, FALSE, a) < -Cost /\ Rung(0, FALSE, a) < 0
  BY LadderParts DEF Rung

\* dynamic_sl is a rung of the ladder.
LEMMA LevelIsRung ==
  ASSUME NEW q
  PROVE  Level(q) = Rung(q.best, q.breakeven, Effective(q))
  BY Zenon DEF Level, Rung, Trails, BreaksEven, TrailsAt, Behind, ByAtr, TrailFrom, TrailBy,
         FirstStop, WithAtr

-----------------------------------------------------------------------------
(* The position in a bar.                                                  *)

LEMMA AtrNat == Atr \subseteq Nat
  BY DEF Atr

LEMMA EffectiveType ==
  ASSUME atr \in Atr, NEW q \in Position
  PROVE  Effective(q) \in Atr /\ Effective(q) \in Nat
<1>1. q.atr \in Atr
  BY DEF Position, Atr
<1> QED BY <1>1, AtrNat DEF Effective, Max2

LEMMA BarParts ==
  ASSUME NEW c \in Bars
  PROVE  /\ c.worst \in Int /\ c.close \in Int /\ c.best \in Int
         /\ c.worst <= c.close /\ c.close <= c.best /\ c.best <= TakeProfit
  BY DEF Bars, Prices

LEMMA HalfOf ==
  ASSUME NEW n \in Nat
  PROVE  n \div 2 \in Nat /\ (n > 0 => n \div 2 < n)
  OBVIOUS

LEMMA ReachedPosition ==
  ASSUME NEW q \in Position, NEW c \in Bars
  PROVE  /\ Reached(q, c) \in Position
         /\ Reached(q, c).best = Max2(q.best, c.best)
         /\ Reached(q, c).side = q.side /\ Reached(q, c).qty = q.qty
         /\ Reached(q, c).since = q.since /\ Reached(q, c).atr = q.atr
         /\ Reached(q, c).trailing = q.trailing
         /\ Reached(q, c).breakeven = q.breakeven
         /\ Reached(q, c).partial = q.partial
<1>1. Max2(q.best, c.best) \in Nat
  BY BarParts DEF Max2, Position
<1> QED BY <1>1 DEF Reached, Position

LEMMA HalvedPosition ==
  ASSUME NEW q \in Position, Half(q) > 0
  PROVE  /\ Halved(q) \in Position
         /\ Halved(q).best = q.best
         /\ Halved(q).side = q.side /\ Halved(q).qty = q.qty - Half(q)
         /\ Halved(q).since = q.since /\ Halved(q).atr = q.atr
         /\ Halved(q).trailing = q.trailing
         /\ Halved(q).breakeven = TRUE
         /\ Halved(q).partial = TRUE
         /\ q.qty - Half(q) \in Nat \ {0} /\ Half(q) \in Nat
<1>1. q.qty \in Nat
  BY DEF Position
<1>2. Half(q) \in Nat /\ q.qty - Half(q) \in Nat \ {0}
  BY <1>1, HalfOf DEF Half
<1> QED BY <1>2 DEF Halved, Position

LEMMA GuardedPosition ==
  ASSUME NEW q \in Position
  PROVE  /\ Guarded(q) \in Position
         /\ Guarded(q).best = q.best
         /\ Guarded(q).side = q.side /\ Guarded(q).qty = q.qty
         /\ Guarded(q).since = q.since /\ Guarded(q).atr = q.atr
         /\ Guarded(q).trailing <=> q.trailing \/ Trails(q)
         /\ q.breakeven => Guarded(q).breakeven
         /\ Guarded(q).breakeven => q.breakeven \/ q.best >= Breakeven
         /\ Guarded(q).partial = q.partial
<1>1. /\ (q.trailing \/ Trails(q)) \in BOOLEAN
      /\ (IF Trails(q) THEN q.breakeven ELSE BreaksEven(q)) \in BOOLEAN
  BY DEF Position, Trails, BreaksEven
<1> QED BY <1>1 DEF Guarded, Position, BreaksEven

\* What Hold makes of the position before it asks why to close it.
TookHalf(c) == TakesHalf(Reached(p, c), c)
HalfSold(c) == IF TookHalf(c) THEN Half(Reached(p, c)) ELSE 0
Split(c) == IF TookHalf(c) THEN Halved(Reached(p, c)) ELSE Reached(p, c)
After(c) == IF engine = "v2" THEN Split(c) ELSE Guarded(Split(c))

LEMMA HalfMeans ==
  ASSUME p \in Position, NEW c \in Bars
  PROVE  /\ TookHalf(c) <=> /\ engine = "kline" /\ ~p.partial
                            /\ Max2(p.best, c.best) \in Nat
                            /\ c.best >= PartialAt /\ Half(p) > 0
         /\ HalfSold(c) = IF TookHalf(c) THEN Half(p) ELSE 0
<1>1. Half(Reached(p, c)) = Half(p) /\ Reached(p, c).partial = p.partial
  BY ReachedPosition DEF Half
<1>2. Max2(p.best, c.best) \in Nat
  BY ReachedPosition, BarParts DEF Max2, Position
<1> QED BY <1>1, <1>2 DEF TookHalf, HalfSold, TakesHalf

LEMMA SplitPosition ==
  ASSUME p \in Position, NEW c \in Bars, p.qty > 0
  PROVE  /\ Split(c) \in Position
         /\ Split(c).best = Max2(p.best, c.best)
         /\ Split(c).side = p.side
         /\ Split(c).since = p.since /\ Split(c).atr = p.atr
         /\ Split(c).trailing = p.trailing
         /\ Split(c).breakeven <=> p.breakeven \/ TookHalf(c)
         /\ Split(c).partial <=> p.partial \/ TookHalf(c)
         /\ HalfSold(c) \in Nat
         /\ TookHalf(c) => HalfSold(c) > 0
         /\ Split(c).qty = p.qty - HalfSold(c) /\ Split(c).qty > 0
<1> DEFINE q == Reached(p, c)
<1>1. /\ q \in Position /\ q.best = Max2(p.best, c.best)
      /\ q.side = p.side /\ q.qty = p.qty /\ q.since = p.since /\ q.atr = p.atr
      /\ q.trailing = p.trailing /\ q.breakeven = p.breakeven /\ q.partial = p.partial
  BY ReachedPosition
<1>2. p.qty \in Nat /\ p.breakeven \in BOOLEAN /\ p.partial \in BOOLEAN
  BY DEF Position
<1>3. CASE TookHalf(c)
  <2>1. Half(q) > 0
    BY <1>3 DEF TookHalf, TakesHalf
  <2>2. Split(c) = Halved(q) /\ HalfSold(c) = Half(q)
    BY <1>3 DEF Split, HalfSold
  <2> HIDE DEF q
  <2>3. /\ Halved(q) \in Position /\ Halved(q).best = q.best
        /\ Halved(q).side = q.side /\ Halved(q).qty = q.qty - Half(q)
        /\ Halved(q).since = q.since /\ Halved(q).atr = q.atr
        /\ Halved(q).trailing = q.trailing
        /\ Halved(q).breakeven = TRUE /\ Halved(q).partial = TRUE
        /\ q.qty - Half(q) \in Nat \ {0} /\ Half(q) \in Nat
    BY <1>1, <2>1, HalvedPosition
  <2> QED BY <1>1, <1>3, <2>1, <2>2, <2>3
<1>4. CASE ~TookHalf(c)
  <2>1. Split(c) = q /\ HalfSold(c) = 0
    BY <1>4 DEF Split, HalfSold
  <2> HIDE DEF q
  <2> QED BY <1>1, <1>2, <1>4, <2>1
<1> QED BY <1>3, <1>4

LEMMA AfterPosition ==
  ASSUME p \in Position, NEW c \in Bars, p.qty > 0
  PROVE  /\ After(c) \in Position
         /\ After(c).best = Max2(p.best, c.best)
         /\ After(c).side = p.side
         /\ After(c).since = p.since /\ After(c).atr = p.atr
         /\ After(c).partial <=> p.partial \/ TookHalf(c)
         /\ p.breakeven \/ TookHalf(c) => After(c).breakeven
         /\ After(c).breakeven =>
              p.breakeven \/ TookHalf(c) \/ (engine # "v2" /\ After(c).best >= Breakeven)
         /\ After(c).trailing => p.trailing \/ Trails(Split(c))
         /\ HalfSold(c) \in Nat
         /\ After(c).qty = p.qty - HalfSold(c) /\ After(c).qty > 0
<1>1. /\ Split(c) \in Position
      /\ Split(c).best = Max2(p.best, c.best)
      /\ Split(c).side = p.side
      /\ Split(c).since = p.since /\ Split(c).atr = p.atr
      /\ Split(c).trailing = p.trailing
      /\ Split(c).breakeven <=> p.breakeven \/ TookHalf(c)
      /\ Split(c).partial <=> p.partial \/ TookHalf(c)
      /\ HalfSold(c) \in Nat
      /\ Split(c).qty = p.qty - HalfSold(c) /\ Split(c).qty > 0
  BY SplitPosition
<1>2. CASE engine = "v2"
  BY <1>1, <1>2 DEF After
<1>3. CASE engine # "v2"
  <2>1. PICK q : q = Split(c)
    OBVIOUS
  <2>2. After(c) = Guarded(q)
    BY <1>3, <2>1 DEF After
  <2>3. /\ Guarded(q) \in Position
        /\ Guarded(q).best = q.best
        /\ Guarded(q).side = q.side /\ Guarded(q).qty = q.qty
        /\ Guarded(q).since = q.since /\ Guarded(q).atr = q.atr
        /\ Guarded(q).trailing <=> q.trailing \/ Trails(q)
        /\ q.breakeven => Guarded(q).breakeven
        /\ Guarded(q).breakeven => q.breakeven \/ q.best >= Breakeven
        /\ Guarded(q).partial = q.partial
    BY <1>1, <2>1, GuardedPosition
  <2> QED BY <1>1, <1>3, <2>1, <2>2, <2>3
<1> QED BY <1>2, <1>3

-----------------------------------------------------------------------------
(* The stop in a bar, and why a position is closed.                        *)

LEMMA HeldParts ==
  ASSUME BacktestInv, Held
  PROVE  /\ p \in Position /\ p.qty \in Nat /\ p.qty > 0 /\ p.best \in Nat
         /\ p.breakeven \in BOOLEAN /\ p.partial \in BOOLEAN /\ p.trailing \in BOOLEAN
         /\ atr \in Atr /\ last.close \in Int /\ last.level \in Int
         /\ last.atr \in Atr /\ last.atr \in Nat /\ took \in BOOLEAN
  BY AtrNat DEF BacktestInv, BacktestTypes, Held, Position, Atr

LEMMA AfterLevel ==
  ASSUME BacktestInv, Held, NEW c \in Bars
  PROVE  /\ Effective(After(c)) \in Atr /\ Effective(After(c)) \in Nat
         /\ After(c).best \in Nat /\ After(c).breakeven \in BOOLEAN
         /\ Level(After(c)) = Rung(After(c).best, After(c).breakeven, Effective(After(c)))
         /\ Level(After(c)) \in Int
         /\ Level(After(c)) = Rung(After(c).best, p.breakeven \/ TookHalf(c),
                                   Effective(After(c)))
<1>1. p \in Position /\ p.qty > 0 /\ atr \in Atr /\ p.breakeven \in BOOLEAN
  BY HeldParts
<1>2. /\ After(c) \in Position
      /\ p.breakeven \/ TookHalf(c) => After(c).breakeven
      /\ After(c).breakeven =>
           p.breakeven \/ TookHalf(c) \/ (engine # "v2" /\ After(c).best >= Breakeven)
  BY <1>1, AfterPosition
<1>3. PICK q \in Position : q = After(c)
  BY <1>2
<1>4. PICK e : e = Effective(q)
  OBVIOUS
<1>5. e \in Atr /\ e \in Nat
  BY <1>1, <1>3, <1>4, EffectiveType
<1>6. q.best \in Nat /\ q.breakeven \in BOOLEAN
  BY <1>3 DEF Position
<1>7. Level(q) = Rung(q.best, q.breakeven, e)
  BY <1>4, LevelIsRung
<1>8. Rung(q.best, q.breakeven, e) \in Int
  BY <1>5, <1>6, RungFacts
<1>9. PICK f \in BOOLEAN : f <=> (p.breakeven \/ TookHalf(c))
  BY <1>1
<1>10. Rung(q.best, q.breakeven, e) = Rung(q.best, f, e)
  BY <1>2, <1>3, <1>6, <1>9, RungFlag
<1>11. f = (p.breakeven \/ TookHalf(c))
  BY <1>1, <1>9, Zenon DEF TookHalf, TakesHalf
<1> QED BY <1>3, <1>4, <1>5, <1>6, <1>7, <1>8, <1>10, <1>11

LEMMA AfterStop ==
  ASSUME BacktestInv, Held, NEW c \in Bars
  PROVE  LET q == After(c) IN
         \* A half sold, now or before, is a stop at the entry's price or above.
         /\ took \/ TookHalf(c) => Level(q) >= 0
         \* With the same ATR the stop does not fall.
         /\ engine # "v2" /\ Effective(q) = last.atr => last.level <= Level(q)
         \* A bar that goes on from the last close reaches as high as its stop.
         /\ engine # "v2" /\ Effective(q) = last.atr /\ last.close <= c.best
              => Level(q) <= c.best
         \* Without the ATR the flags stand for a stop at the entry's price or above.
         /\ ~useAtr /\ q.trailing => q.best >= Trigger
         /\ ~useAtr /\ (q.trailing \/ q.breakeven) => Level(q) >= 0
<1> DEFINE half == p.breakeven \/ TookHalf(c)
<1>1. /\ p \in Position /\ p.qty > 0 /\ p.best \in Nat /\ p.breakeven \in BOOLEAN
      /\ last.close \in Int /\ last.level \in Int /\ last.atr \in Nat
  BY HeldParts
<1>2. PICK q \in Position : q = After(c)
  BY <1>1, AfterPosition
<1>3. /\ q.best = Max2(p.best, c.best) /\ q.best \in Nat /\ q.breakeven \in BOOLEAN
      /\ p.breakeven \/ TookHalf(c) => q.breakeven
      /\ q.trailing => p.trailing \/ Trails(Split(c))
  BY <1>1, <1>2, AfterPosition DEF Position
<1>4. PICK e \in Nat : e = Effective(q)
  BY <1>2, AfterLevel
<1>5. /\ Level(q) = Rung(q.best, q.breakeven, e) /\ Level(q) \in Int
      /\ Level(q) = Rung(q.best, half, e)
  BY <1>2, <1>4, AfterLevel
<1>14. /\ Rung(q.best, q.breakeven, e) <= q.best
       /\ q.breakeven => Level(q) >= 0
       /\ q.best >= TrailFrom(e) => Level(q) >= 0
  <2>1. PICK b \in Nat : b = q.best
    BY <1>3
  <2>2. PICK f \in BOOLEAN : f = q.breakeven
    BY <1>3
  <2>3. /\ Rung(b, f, e) <= b
        /\ f => Rung(b, f, e) >= 0
        /\ b >= TrailFrom(e) => Rung(b, f, e) >= 0
    BY RungFacts
  <2> QED BY <1>5, <2>1, <2>2, <2>3, Zenon
<1>6. p.best <= q.best /\ c.best <= q.best /\ (q.best = p.best \/ q.best = c.best)
  BY <1>1, <1>3, BarParts DEF Max2
<1>7. TookHalf(c) => c.best >= 0
  BY <1>1, HalfMeans, BarParts
<1>8. half \in BOOLEAN /\ (p.breakeven => half)
  BY <1>1 DEF TookHalf, TakesHalf
<1>9. took \/ TookHalf(c) => Level(q) >= 0
  <2>1. took => p.breakeven
    BY DEF BacktestInv, HalfDone
  <2>2. took \/ TookHalf(c) => q.breakeven
    BY <1>3, <2>1
  <2> QED BY <1>14, <2>2, Zenon
<1>10. engine # "v2" /\ e = last.atr =>
         /\ last.level = Rung(p.best, p.breakeven, e)
         /\ last.level < last.close
         /\ last.level <= Level(q)
  <2> SUFFICES ASSUME engine # "v2", e = last.atr
               PROVE  /\ last.level = Rung(p.best, p.breakeven, e)
                      /\ last.level < last.close
                      /\ last.level <= Level(q)
    OBVIOUS
  <2>1. last.level = Rung(p.best, p.breakeven, e) /\ last.level < last.close
    BY DEF BacktestInv, LastStop
  <2>2. Rung(p.best, p.breakeven, e) <= Rung(q.best, half, e)
    <3> HIDE DEF half
    <3> QED BY <1>1, <1>3, <1>6, <1>8, RungRises
  <2> QED BY <1>5, <2>1, <2>2
<1>11. engine # "v2" /\ e = last.atr /\ last.close <= c.best => Level(q) <= c.best
  <2> SUFFICES ASSUME engine # "v2", e = last.atr, last.close <= c.best
               PROVE  Level(q) <= c.best
    OBVIOUS
  <2>1. c.best \in Int
    BY BarParts
  <2>2. CASE q.best = c.best
    BY <1>5, <1>14, <2>2
  <2>3. CASE q.best = p.best /\ ~TookHalf(c)
    <3>1. Level(q) = Rung(p.best, p.breakeven, e)
      BY <1>1, <1>5, <2>3, Zenon
    <3> QED BY <1>1, <1>5, <1>10, <2>1, <3>1
  <2>4. CASE q.best = p.best /\ TookHalf(c)
    <3>1. half = TRUE
      BY <2>4
    <3>2. Level(q) = Rung(p.best, TRUE, e)
      BY <1>5, <2>4, <3>1
    <3>3. Rung(p.best, TRUE, e) = Rung(p.best, p.breakeven, e) \/ Rung(p.best, TRUE, e) = 0
      BY DEF Rung
    <3>4. Level(q) = last.level \/ Level(q) = 0
      BY <1>10, <3>2, <3>3, Zenon
    <3> QED BY <1>1, <1>7, <1>10, <2>1, <2>4, <3>4
  <2> QED BY <1>6, <2>2, <2>3, <2>4
<1>12. ~useAtr /\ q.trailing => q.best >= Trigger
  <2> SUFFICES ASSUME ~useAtr, q.trailing PROVE q.best >= Trigger
    OBVIOUS
  <2>1. CASE p.trailing
    <3>1. p.best >= Trigger
      BY <2>1 DEF BacktestInv, TrailEarned
    <3> QED BY <1>1, <1>3, <1>6, <3>1
  <2>2. CASE Trails(Split(c))
    <3>1. Split(c).best = q.best
      BY <1>1, <1>3, SplitPosition
    <3> QED BY <2>2, <3>1 DEF Trails, TrailsAt, ByAtr
  <2> QED BY <1>3, <2>1, <2>2
<1>13. ~useAtr /\ (q.trailing \/ q.breakeven) => Level(q) >= 0
  <2> SUFFICES ASSUME ~useAtr, q.trailing \/ q.breakeven PROVE Level(q) >= 0
    OBVIOUS
  <2>1. CASE q.trailing
    <3>1. q.best >= TrailFrom(e)
      BY <1>12, <2>1 DEF TrailFrom, WithAtr
    <3> QED BY <1>14, <3>1, Zenon
  <2>2. CASE q.breakeven
    BY <1>14, <2>2, Zenon
  <2> QED BY <2>1, <2>2
<1> QED BY <1>2, <1>4, <1>9, <1>10, <1>11, <1>12, <1>13

\* Why a position is closed, for the three engines that have a ladder.
StopWhys == {"stop", "trailing", "breakeven"}

LEMMA StoppedWhy ==
  ASSUME NEW q, NEW why
  PROVE  /\ Stopped(q, "stop") \in StopWhys
         /\ Stopped(q, "stop") = "trailing" => q.trailing
         /\ Stopped(q, "stop") = "breakeven" => q.breakeven
  BY DEF Stopped, StopWhys

LEMMA WhyBarFacts ==
  ASSUME NEW q \in Position, NEW c \in Bars, NEW hint
  PROVE  LET why == WhyBar(q, c, hint) IN
         /\ why \in StopWhys \cup {"target", "trend", "stale", "timeout", "rsi", "stay"}
         /\ why \in StopWhys <=> c.worst <= Level(q)
         /\ why = "trailing" => q.trailing
         /\ why = "breakeven" => q.breakeven
         /\ why = "target" => c.best >= TakeProfit
         /\ why = "trend" => ~q.partial
<1>1. CASE c.worst <= Level(q)
  <2>1. WhyBar(q, c, hint) \in {"stop", Stopped(q, "stop")}
    BY <1>1 DEF WhyBar
  <2> QED BY <1>1, <2>1, StoppedWhy DEF StopWhys
<1>2. CASE ~(c.worst <= Level(q))
  <2>1. /\ WhyBar(q, c, hint) \in {"target", "trend", "stale", "timeout", "rsi", "stay"}
        /\ WhyBar(q, c, hint) = "target" => c.best >= TakeProfit
        /\ WhyBar(q, c, hint) = "trend" => Broken(q, c, hint)
    BY <1>2 DEF WhyBar
  <2> QED BY <1>2, <2>1 DEF StopWhys, Broken
<1> QED BY <1>1, <1>2

WhyOf(c, hint) == Why(After(c), c, hint)
GainOf(c, hint) == Filled(After(c), c, WhyOf(c, hint))

\* An engine that sees bars, and why it closes a position in one.
LEMMA BarEngine ==
  ASSUME BacktestInv, Held, NEW c \in Bars, NEW hint, engine \in {"kline", "data"}
  PROVE  LET why == WhyOf(c, hint)
             q == After(c) IN
         /\ why \in StopWhys \cup {"target", "trend", "stale", "timeout", "rsi", "stay"}
         /\ why \in StopWhys <=> c.worst <= Level(q)
         /\ why = "trailing" => q.trailing
         /\ why = "breakeven" => q.breakeven
         /\ why = "target" => c.best >= TakeProfit
         /\ why = "trend" => ~q.partial
<1>1. PICK q \in Position : q = After(c)
  BY HeldParts, AfterPosition
<1>2. WhyOf(c, hint) = WhyBar(q, c, hint)
  BY <1>1 DEF WhyOf, Why
<1> QED BY <1>1, <1>2, WhyBarFacts

\* The price at which it does.
LEMMA BarGain ==
  ASSUME BacktestInv, Held, NEW c \in Bars, NEW hint, engine \in {"kline", "data"}
  PROVE  /\ WhyOf(c, hint) \in StopWhys => GainOf(c, hint) = Level(After(c))
         /\ WhyOf(c, hint) = "target" => GainOf(c, hint) = TakeProfit
         /\ WhyOf(c, hint) \notin StopWhys \cup {"target"} => GainOf(c, hint) = c.close
  BY DEF GainOf, Filled, StopPrice, StopWhys

LEMMA ReplayGain ==
  ASSUME engine = "replay", NEW c, NEW hint
  PROVE  GainOf(c, hint) = c.close
  BY DEF GainOf, Filled

LEMMA GainType ==
  ASSUME BacktestInv, Held, NEW c \in Bars, NEW hint
  PROVE  GainOf(c, hint) \in Int
<1>1. c.close \in Int /\ TakeProfit \in Int /\ -StopLoss \in Int
  BY BarParts
<1>2. Level(After(c)) \in Int /\ After(c).best \in Nat
  BY AfterLevel
<1>3. After(c).best - Distance \in Int
  BY <1>2
<1> QED BY <1>1, <1>2, <1>3 DEF GainOf, Filled, StopPrice

\* A bar that goes on from the last close has traded where it says it closed.
LEMMA FillIsReal ==
  ASSUME BacktestInv, Held, NEW c \in Bars, NEW hint, engine # "v2",
         last.close <= c.best, Effective(After(c)) = last.atr
  PROVE  c.worst <= GainOf(c, hint) /\ GainOf(c, hint) <= c.best
<1>1. c.worst \in Int /\ c.close \in Int /\ c.best \in Int
      /\ c.worst <= c.close /\ c.close <= c.best /\ c.best <= TakeProfit
  BY BarParts
<1>2. CASE engine = "replay"
  BY <1>1, <1>2, ReplayGain
<1>3. CASE engine \in {"kline", "data"}
  <2>1. CASE WhyOf(c, hint) \in StopWhys
    <3>1. GainOf(c, hint) = Level(After(c)) /\ c.worst <= Level(After(c))
      BY <1>3, <2>1, BarGain, BarEngine
    <3>2. Level(After(c)) <= c.best
      BY AfterStop
    <3> QED BY <3>1, <3>2
  <2>2. CASE WhyOf(c, hint) = "target"
    <3>1. GainOf(c, hint) = TakeProfit /\ c.best >= TakeProfit
      BY <1>3, <2>2, BarGain, BarEngine
    <3> QED BY <1>1, <3>1
  <2>3. CASE WhyOf(c, hint) \notin StopWhys \cup {"target"}
    BY <1>1, <1>3, <2>3, BarGain
  <2> QED BY <2>1, <2>2, <2>3
<1>4. engine \in {"kline", "data", "replay", "v2"}
  BY DEF BacktestInv, BacktestTypes
<1> QED BY <1>2, <1>3, <1>4

\* Half of a position is only sold within the bar.
LEMMA HalfIsReal ==
  ASSUME BacktestInv, Held, NEW c \in Bars, TookHalf(c), c.worst <= last.close
  PROVE  c.worst <= PartialAt /\ PartialAt <= c.best
<1>1. p \in Position /\ last.close \in Int
  BY HeldParts
<1>2. engine = "kline" /\ ~p.partial /\ c.best >= PartialAt /\ Half(p) > 0
  BY <1>1, HalfMeans
<1>3. last.close <= PartialAt
  BY <1>2 DEF BacktestInv, HalfDue
<1> QED BY <1>1, <1>2, <1>3, BarParts

\* What is left of a position that has taken its half loses no more.
LEMMA NoLoss ==
  ASSUME BacktestInv, Held, NEW c \in Bars, NEW hint, took \/ TookHalf(c)
  PROVE  /\ engine = "kline" /\ After(c).partial /\ After(c).breakeven
         /\ GainOf(c, hint) >= 0
         /\ WhyOf(c, hint) = "stay" => c.close >= 0
<1>1. p \in Position /\ p.qty > 0
  BY HeldParts
<1>2. engine = "kline" /\ After(c).partial /\ After(c).breakeven
  <2>1. took => engine = "kline" /\ p.partial /\ p.breakeven
    BY DEF BacktestInv, HalfDone
  <2>2. TookHalf(c) => engine = "kline"
    BY <1>1, HalfMeans
  <2> QED BY <1>1, <2>1, <2>2, AfterPosition
<1>3. Level(After(c)) >= 0 /\ Level(After(c)) \in Int
  BY AfterStop, AfterLevel
<1>4. c.worst \in Int /\ c.close \in Int /\ c.worst <= c.close
  BY BarParts
<1>5. WhyOf(c, hint) \notin StopWhys => c.close >= 0
  <2>1. WhyOf(c, hint) \notin StopWhys => ~(c.worst <= Level(After(c)))
    BY <1>2, BarEngine
  <2> QED BY <1>3, <1>4, <2>1
<1>6. GainOf(c, hint) >= 0
  BY <1>2, <1>3, <1>5, BarGain
<1> QED BY <1>2, <1>5, <1>6 DEF StopWhys

\* A position that stays has closed its bar above its stop.
LEMMA StaysAbove ==
  ASSUME BacktestInv, Held, NEW c \in Bars, NEW hint, engine # "v2",
         WhyOf(c, hint) = "stay"
  PROVE  Level(After(c)) < c.close
<1>1. c.worst \in Int /\ c.close \in Int /\ c.worst <= c.close /\ Level(After(c)) \in Int
  BY BarParts, AfterLevel
<1>2. CASE engine = "replay"
  <2>1. PICK q : q = After(c)
    OBVIOUS
  <2>2. WhyReplay(q, c, hint) = "stay"
    BY <1>2, <2>1 DEF WhyOf, Why
  <2>3. Stopped(q, "stop") # "stay"
    BY StoppedWhy DEF StopWhys
  <2>4. ~(c.close <= Level(q))
    BY <2>2, <2>3 DEF WhyReplay
  <2> QED BY <1>1, <2>1, <2>4
<1>3. CASE engine \in {"kline", "data"}
  <2>1. ~(c.worst <= Level(After(c)))
    BY <1>3, BarEngine DEF StopWhys
  <2> QED BY <1>1, <2>1
<1>4. engine \in {"kline", "data", "replay", "v2"}
  BY DEF BacktestInv, BacktestTypes
<1> QED BY <1>2, <1>3, <1>4

\* Without the ATR a stop at a loss is called a stop, and painful.
LEMMA LossIsStop ==
  ASSUME BacktestInv, Held, NEW c \in Bars, NEW hint, engine \in {"kline", "data"},
         ~useAtr, WhyOf(c, hint) \in StopWhys, GainOf(c, hint) < 0
  PROVE  Painful(WhyOf(c, hint))
<1>1. Level(After(c)) < 0 /\ Level(After(c)) \in Int
  BY BarGain, AfterLevel
<1>2. ~(Level(After(c)) >= 0)
  BY <1>1
<1>3. ~After(c).trailing /\ ~After(c).breakeven
  BY <1>2, AfterStop
<1>4. WhyOf(c, hint) # "trailing" /\ WhyOf(c, hint) # "breakeven"
  BY <1>3, BarEngine
<1> QED BY <1>4 DEF StopWhys, Painful

-----------------------------------------------------------------------------
(* The steps.                                                              *)

\* What Hold records of a half, and what it leaves of the day's account.
Net == IF engine \in {"kline", "data"} THEN Cost ELSE 0
Halves(c) ==
    IF TookHalf(c)
    THEN {Record(After(c), c, "half", Half(Reached(p, c)), PartialAt)} ELSE {}
Earned(c) ==
    IF TookHalf(c) THEN Counted(Started, PartialAt - Net, 0) ELSE Started

LEMMA HoldMeans ==
  ASSUME NEW c, NEW hint, Hold(c, hint)
  PROVE  LET q == After(c)
             why == WhyOf(c, hint) IN
         /\ took' = (took \/ TookHalf(c))
         /\ why = "stay" =>
              /\ p' = q
              /\ last' = [close |-> c.close, level |-> Level(q), atr |-> Effective(q)]
              /\ today' = Earned(c)
              /\ trades' = Halves(c)
              /\ unsold' = unsold - HalfSold(c)
              /\ UNCHANGED <<lastTrade, lastStop, hurt>>
         /\ why # "stay" =>
              /\ p' = Cleared(q)
              /\ last' = Gone
              /\ today' = Counted(Earned(c), GainOf(c, hint) - Net,
                                  IF engine = "v2" THEN 1 ELSE 0)
              /\ trades' = Halves(c) \cup {Record(q, c, why, q.qty, GainOf(c, hint))}
              /\ unsold' = unsold - q.qty - HalfSold(c)
              /\ lastTrade' = now
              /\ lastStop' = IF engine \in {"kline", "data"} THEN Painful(why)
                             ELSE lastStop
              /\ hurt' = (why \in {"stop", "trailing", "breakeven"}
                            /\ GainOf(c, hint) < 0)
  BY Zenon DEF Hold, TookHalf, HalfSold, Split, After, WhyOf, GainOf, Net, Halves, Earned

LEMMA StartedType ==
  ASSUME BacktestInv
  PROVE  Started \in [trades : Nat, pnl : Int]
  BY DEF BacktestInv, Started

LEMMA CountedType ==
  ASSUME NEW t \in [trades : Nat, pnl : Int], NEW gain \in Int, NEW n \in Nat
  PROVE  Counted(t, gain, n) \in [trades : Nat, pnl : Int]
  BY DEF Counted

LEMMA EarnedType ==
  ASSUME BacktestInv, NEW c
  PROVE  Earned(c) \in [trades : Nat, pnl : Int] /\ Net \in Int
<1>1. Net \in Int /\ PartialAt - Net \in Int
  BY DEF Net
<1> QED BY <1>1, StartedType, CountedType DEF Earned

LEMMA ClearedParts ==
  ASSUME NEW q \in Position
  PROVE  /\ Cleared(q) \in Position
         /\ Cleared(q).side = "None" /\ Cleared(q).qty = 0 /\ Cleared(q).since = 0
         /\ Cleared(q).best = 0 /\ Cleared(q).partial = q.partial
         /\ Cleared(q).trailing = FALSE /\ Cleared(q).breakeven = FALSE
  BY DEF Cleared, Flat, Position

LEMMA HalvesGood ==
  ASSUME BacktestInv, Held, NEW c \in Bars, NEW t \in Halves(c)
  PROVE  /\ t.qty \in Nat \ {0} /\ t.gain \in Int /\ t.gain >= 0
         /\ t.smooth => t.real
         /\ took \/ TookHalf(c)
<1>1. TookHalf(c) /\ t = Record(After(c), c, "half", Half(Reached(p, c)), PartialAt)
  BY DEF Halves
<1>2. Half(Reached(p, c)) \in Nat /\ Half(Reached(p, c)) > 0
  <2>1. HalfSold(c) = Half(Reached(p, c))
    BY <1>1 DEF HalfSold
  <2> QED BY <1>1, <2>1, HeldParts, SplitPosition
<1>3. /\ t.qty = Half(Reached(p, c)) /\ t.gain = PartialAt
      /\ t.real = (c.worst <= PartialAt /\ PartialAt <= c.best)
      /\ t.smooth => c.worst <= last.close
  <2>1. PICK q : q = After(c)
    OBVIOUS
  <2>2. PICK n : n = Half(Reached(p, c))
    OBVIOUS
  <2>3. t = Record(q, c, "half", n, PartialAt)
    BY <1>1, <2>1, <2>2
  <2> QED BY <2>2, <2>3 DEF Record
<1>4. t.smooth => t.real
  BY <1>1, <1>3, HalfIsReal, Zenon
<1> QED BY <1>1, <1>2, <1>3, <1>4

LEMMA CloseGood ==
  ASSUME BacktestInv, Held, NEW c \in Bars, NEW hint, WhyOf(c, hint) # "stay",
         NEW t, t = Record(After(c), c, WhyOf(c, hint), After(c).qty, GainOf(c, hint))
  PROVE  /\ t.qty \in Nat \ {0} /\ t.gain \in Int
         /\ engine # "v2" => (t.smooth => t.real)
         /\ took \/ TookHalf(c) => t.gain >= 0
<1>1. /\ t.qty = After(c).qty /\ t.gain = GainOf(c, hint)
      /\ t.real = (c.worst <= GainOf(c, hint) /\ GainOf(c, hint) <= c.best)
      /\ t.smooth => last.close <= c.best /\ Effective(After(c)) = last.atr
  BY DEF Record
<1>2. After(c).qty \in Nat /\ After(c).qty > 0
  BY HeldParts, AfterPosition DEF Position
<1>3. engine # "v2" => (t.smooth => t.real)
  BY <1>1, FillIsReal, Zenon
<1>4. took \/ TookHalf(c) => t.gain >= 0
  BY <1>1, NoLoss, Zenon
<1> QED BY <1>1, <1>2, <1>3, <1>4, GainType

LEMMA RungStays ==
  ASSUME NEW b, NEW f, NEW a, useAtr' = useAtr
  PROVE  Rung(b, f, a)' = Rung(b, f, a)
  BY DEF Rung, TrailFrom, TrailBy, FirstStop, WithAtr

LEMMA BestBound ==
  ASSUME BacktestInv, Held, NEW c \in Bars
  PROVE  After(c).best \in 0 .. Max2(TakeProfit, Distance + 1)
<1>1. p.best \in 0 .. Max2(TakeProfit, Distance + 1)
  BY DEF BacktestInv, BacktestTypes
<1>2. After(c).best = Max2(p.best, c.best) /\ c.best \in Int /\ c.best <= TakeProfit
  BY HeldParts, AfterPosition, BarParts
<1> QED BY <1>1, <1>2 DEF Max2

LEMMA Stay ==
  ASSUME BacktestInv, Held, NEW c \in Bars, NEW hint, Hold(c, hint),
         WhyOf(c, hint) = "stay", now' = now + 1, now < MaxBars,
         UNCHANGED <<engine, useAtr, over, atr>>
  PROVE  BacktestInv'
<1>1. PICK q \in Position : q = After(c)
  BY HeldParts, AfterPosition
<1>2. /\ p' = q /\ took' = (took \/ TookHalf(c))
      /\ last' = [close |-> c.close, level |-> Level(q), atr |-> Effective(q)]
      /\ today' = Earned(c) /\ trades' = Halves(c)
      /\ unsold' = unsold - HalfSold(c)
      /\ UNCHANGED <<lastTrade, lastStop, hurt>>
  BY <1>1, HoldMeans
<1>3. /\ p \in Position /\ p.qty \in Nat /\ took \in BOOLEAN
  BY HeldParts
<1>4. /\ q.best = Max2(p.best, c.best) /\ q.side = p.side /\ q.since = p.since
      /\ q.partial <=> p.partial \/ TookHalf(c)
      /\ HalfSold(c) \in Nat /\ q.qty = p.qty - HalfSold(c) /\ q.qty > 0
  BY <1>1, HeldParts, AfterPosition
<1>5. PICK e \in Atr : e = Effective(q)
  BY <1>1, AfterLevel
<1>6. PICK l \in Int : l = Level(q)
  BY <1>1, AfterLevel
<1>7. last'.close = c.close /\ last'.level = l /\ last'.atr = e /\ c.close \in Int
  BY <1>2, <1>5, <1>6, BarParts
<1>8. TookHalf(c) \in BOOLEAN
  BY DEF TookHalf, TakesHalf
<1>9. BacktestTypes'
  <2>1. \A t \in trades' : t.qty \in Nat \ {0} /\ t.gain \in Int
    BY <1>2, HalvesGood
  <2>2. q.best \in 0 .. Max2(TakeProfit, Distance + 1)
    BY <1>1, BestBound
  <2>3. last' \in [close : Int, level : Int, atr : Atrs \cup {0}]
    BY <1>2, <1>5, <1>6, <1>7 DEF Atr
  <2>4. today'.trades \in Nat /\ today'.pnl \in Int
    BY <1>2, EarnedType
  <2>5. now' \in 0 .. MaxBars /\ q.since \in 0 .. now' /\ lastTrade' \in {Never} \cup 0 .. now'
    BY <1>2, <1>4 DEF BacktestInv, BacktestTypes
  <2>6. unsold' \in Int
    BY <1>2, <1>4 DEF BacktestInv, BacktestTypes
  <2>7. q.side \in Sides /\ q.qty \in Nat /\ q.trailing \in BOOLEAN
        /\ q.breakeven \in BOOLEAN /\ q.partial \in BOOLEAN
    BY <1>4 DEF Held, Position
  <2>8. took' \in BOOLEAN
    BY <1>2
  <2>9. engine \in Engines /\ useAtr \in BOOLEAN /\ over \in BOOLEAN /\ atr \in Atrs \cup {0}
        /\ lastStop \in BOOLEAN /\ hurt \in BOOLEAN
    BY DEF BacktestInv, BacktestTypes
  <2> QED BY <1>2, <1>4, <2>1, <2>2, <2>3, <2>4, <2>5, <2>6, <2>7, <2>8, <2>9
          DEF BacktestTypes
<1>10. p' \in Position' /\ today' \in [trades : Nat, pnl : Int]
  BY <1>2, EarnedType DEF Position
<1>11. LastStop'
  <2> SUFFICES ASSUME engine # "v2"
               PROVE  /\ last'.level = Rung(p.best, p.breakeven, last.atr)'
                      /\ last'.level < last'.close
    BY DEF LastStop
  <2>1. PICK b : b = q.best
    OBVIOUS
  <2>2. PICK f : f = q.breakeven
    OBVIOUS
  <2>3. l = Rung(b, f, e)
    BY <1>5, <1>6, <2>1, <2>2, LevelIsRung
  <2>4. Rung(p.best, p.breakeven, last.atr)' = Rung(b, f, e)'
    BY <1>2, <1>7, <2>1, <2>2
  <2>5. Rung(b, f, e)' = Rung(b, f, e)
    BY RungStays
  <2>6. l < c.close
    BY <1>1, <1>6, StaysAbove
  <2> QED BY <1>7, <2>3, <2>4, <2>5, <2>6
<1>12. HalfDone'
  BY <1>1, <1>2, <1>7, NoLoss DEF HalfDone
<1>13. HalfDue'
  <2> SUFFICES ASSUME engine = "kline", ~q.partial, Half(q) > 0
               PROVE  c.close <= PartialAt
    BY <1>2, <1>7 DEF HalfDue, Half
  <2>1. ~p.partial /\ ~TookHalf(c)
    BY <1>4
  <2>2. HalfSold(c) = 0
    BY <2>1 DEF HalfSold
  <2>3. Half(q) = Half(p)
    BY <1>3, <1>4, <2>2 DEF Half
  <2>4. Max2(p.best, c.best) \in Nat
    BY <1>4 DEF Position
  <2>5. ~(c.best >= PartialAt)
    BY <1>3, <2>1, <2>3, <2>4, HalfMeans
  <2> QED BY <2>5, BarParts
<1>14. TrailEarned'
  BY <1>1, <1>2, AfterStop DEF TrailEarned
<1>15. HurtRests'
  BY <1>2 DEF BacktestInv, HurtRests
<1>16. Reconciles'
  BY <1>2, <1>3, <1>4 DEF BacktestInv, BacktestTypes, Reconciles
<1>17. FillsAreReal' /\ ProfitLocked'
  BY <1>2, HalvesGood DEF FillsAreReal, ProfitLocked
<1> QED BY <1>9, <1>10, <1>11, <1>12, <1>13, <1>14, <1>15, <1>16, <1>17 DEF BacktestInv

LEMMA Close ==
  ASSUME BacktestInv, Held, NEW c \in Bars, NEW hint, Hold(c, hint),
         WhyOf(c, hint) # "stay", now' = now + 1, now < MaxBars,
         UNCHANGED <<engine, useAtr, over, atr>>
  PROVE  BacktestInv'
<1>1. PICK q \in Position : q = After(c)
  BY HeldParts, AfterPosition
<1>2. PICK why : why = WhyOf(c, hint)
  OBVIOUS
<1>3. PICK gain \in Int : gain = GainOf(c, hint)
  BY GainType
<1>4. PICK r : r = Record(q, c, why, q.qty, gain)
  OBVIOUS
<1>5. /\ p' = Cleared(q) /\ took' = (took \/ TookHalf(c)) /\ last' = Gone
      /\ today' = Counted(Earned(c), gain - Net, IF engine = "v2" THEN 1 ELSE 0)
      /\ trades' = Halves(c) \cup {r}
      /\ unsold' = unsold - q.qty - HalfSold(c)
      /\ lastTrade' = now
      /\ lastStop' = IF engine \in {"kline", "data"} THEN Painful(why) ELSE lastStop
      /\ hurt' = (why \in StopWhys /\ gain < 0)
  BY <1>1, <1>2, <1>3, <1>4, HoldMeans DEF StopWhys
<1>6. /\ p' \in Position /\ p'.side = "None" /\ p'.qty = 0 /\ p'.since = 0 /\ p'.best = 0
      /\ p'.partial = q.partial /\ p'.trailing = FALSE /\ p'.breakeven = FALSE
  BY <1>5, ClearedParts
<1>7. HalfSold(c) \in Nat /\ q.qty \in Nat /\ q.qty = p.qty - HalfSold(c)
      /\ p.qty \in Nat
  BY <1>1, HeldParts, AfterPosition DEF Position
<1>8. /\ r.qty \in Nat \ {0} /\ r.gain \in Int
      /\ engine # "v2" => (r.smooth => r.real)
      /\ took \/ TookHalf(c) => r.gain >= 0
  BY <1>1, <1>2, <1>3, <1>4, CloseGood
<1>9. ~Held'
  BY <1>6 DEF Held, Sides
<1>10. today' \in [trades : Nat, pnl : Int]
  <2>1. gain - Net \in Int
    BY EarnedType
  <2> QED BY <1>5, <2>1, EarnedType, CountedType
<1>11. BacktestTypes'
  <2>1. \A t \in trades' : t.qty \in Nat \ {0} /\ t.gain \in Int
    BY <1>5, <1>8, HalvesGood
  <2>2. p'.best \in 0 .. Max2(TakeProfit, Distance + 1)
    BY <1>6 DEF Max2
  <2>3. last' \in [close : Int, level : Int, atr : Atrs \cup {0}]
    BY <1>5 DEF Gone
  <2>4. now' \in 0 .. MaxBars /\ p'.since \in 0 .. now' /\ lastTrade' \in {Never} \cup 0 .. now'
    BY <1>5, <1>6 DEF BacktestInv, BacktestTypes
  <2>5. unsold' \in Int
    BY <1>5, <1>7 DEF BacktestInv, BacktestTypes
  <2>6. q.partial \in BOOLEAN
    BY DEF Position
  <2>7. took' \in BOOLEAN /\ hurt' \in BOOLEAN
    BY <1>5, HeldParts
  <2>8. engine \in Engines /\ useAtr \in BOOLEAN /\ over \in BOOLEAN /\ atr \in Atrs \cup {0}
        /\ lastStop \in BOOLEAN
    BY DEF BacktestInv, BacktestTypes
  <2>9. lastStop' \in BOOLEAN
    <3>1. Painful(why) \in BOOLEAN
      BY DEF Painful
    <3> QED BY <1>5, <2>8, <3>1, Zenon
  <2>10. today'.trades \in Nat /\ today'.pnl \in Int
    BY <1>10
  <2>11. p'.side \in Sides \cup {"None"} /\ p'.qty \in Nat /\ (p'.qty > 0 <=> p'.side \in Sides)
    BY <1>6, <1>9 DEF Held
  <2>12. {p'.trailing, p'.breakeven, p'.partial, lastStop', took', hurt'} \subseteq BOOLEAN
    BY <1>6, <2>6, <2>7, <2>9
  <2> HIDE <1>1, <1>5
  <2> QED BY <2>1, <2>2, <2>3, <2>4, <2>5, <2>8, <2>10, <2>11, <2>12 DEF BacktestTypes
<1>12. p' \in Position'
  BY <1>6 DEF Position
<1>13. LastStop' /\ HalfDone' /\ HalfDue' /\ TrailEarned'
  BY <1>9 DEF LastStop, HalfDone, HalfDue, TrailEarned
<1>14. HurtRests'
  <2> SUFFICES ASSUME hurt', ~useAtr, engine \in {"kline", "data"} PROVE lastStop'
    BY DEF HurtRests
  <2>1. why \in StopWhys /\ gain < 0
    BY <1>5
  <2>2. Painful(why)
    BY <1>2, <1>3, <2>1, LossIsStop
  <2> QED BY <1>5, <2>2
<1>15. Reconciles'
  BY <1>5, <1>6, <1>7 DEF BacktestInv, BacktestTypes, Reconciles
<1>16. FillsAreReal' /\ ProfitLocked'
  BY <1>5, <1>8, HalvesGood DEF FillsAreReal, ProfitLocked
<1> QED BY <1>10, <1>11, <1>12, <1>13, <1>14, <1>15, <1>16 DEF BacktestInv

\* A step that leaves the position alone.
LEMMA Quiet ==
  ASSUME BacktestInv,
         UNCHANGED <<engine, useAtr, p, lastTrade, lastStop, last, unsold, hurt>>,
         over' \in BOOLEAN, atr' \in Atr, now' \in now .. MaxBars,
         today' \in [trades : Nat, pnl : Int],
         \/ trades' = {} /\ took' \in {took, FALSE}
         \/ trades' = trades /\ took' = took
  PROVE  BacktestInv'
<1>1. took \in BOOLEAN /\ took' \in BOOLEAN /\ (took' => took)
  <2>1. took \in BOOLEAN
    BY DEF BacktestInv, BacktestTypes
  <2>2. took' = took \/ took' = FALSE
    OBVIOUS
  <2>3. CASE took' = took
    <3>1. took' \in BOOLEAN
      BY <2>1, <2>3
    <3>2. took' => took
      BY <2>3
    <3> QED BY <2>1, <3>1, <3>2
  <2>4. CASE took' = FALSE
    <3>1. took' \in BOOLEAN
      BY <2>4
    <3>2. took' => took
      BY <2>4
    <3> QED BY <2>1, <3>1, <3>2
  <2> QED BY <2>2, <2>3, <2>4, Zenon
<1>2. /\ \A t \in trades' : t.qty \in Nat \ {0} /\ t.gain \in Int
      /\ engine # "v2" => \A t \in trades' : t.smooth => t.real
      /\ took' => \A t \in trades' : t.gain >= 0
  <2>1. CASE trades' = {}
    BY <2>1
  <2>2. CASE trades' = trades /\ took' = took
    <3>1. /\ \A t \in trades : t.qty \in Nat \ {0} /\ t.gain \in Int
          /\ engine # "v2" => \A t \in trades : t.smooth => t.real
          /\ took => \A t \in trades : t.gain >= 0
      BY Zenon DEF BacktestInv, BacktestTypes, FillsAreReal, ProfitLocked
    <3> QED BY <2>2, <3>1, Zenon
  <2> QED BY <2>1, <2>2
<1>3. BacktestTypes'
  <2>1. /\ engine \in Engines /\ useAtr \in BOOLEAN
        /\ p.side \in Sides \cup {"None"}
        /\ p.qty \in Nat /\ (p.qty > 0 <=> p.side \in Sides)
        /\ p.best \in 0 .. Max2(TakeProfit, Distance + 1)
        /\ {p.trailing, p.breakeven, p.partial, lastStop, hurt} \subseteq BOOLEAN
        /\ last \in [close : Int, level : Int, atr : Atrs \cup {0}] /\ unsold \in Int
    BY DEF BacktestInv, BacktestTypes
  <2>2. /\ now' \in 0 .. MaxBars /\ p.since \in 0 .. now'
        /\ lastTrade \in {Never} \cup 0 .. now'
    BY DEF BacktestInv, BacktestTypes
  <2>3. today'.trades \in Nat /\ today'.pnl \in Int /\ atr' \in Atrs \cup {0}
    BY DEF Atr
  <2> QED BY <1>1, <1>2, <2>1, <2>2, <2>3 DEF BacktestTypes
<1>4. p' \in Position'
  BY DEF BacktestInv, Position
<1>5. LastStop'
  <2>1. PICK b : b = p.best
    OBVIOUS
  <2>2. PICK f : f = p.breakeven
    OBVIOUS
  <2>3. PICK a : a = last.atr
    OBVIOUS
  <2>4. Rung(p.best, p.breakeven, last.atr)' = Rung(b, f, a)'
    BY <2>1, <2>2, <2>3
  <2>5. Rung(b, f, a)' = Rung(b, f, a)
    BY RungStays
  <2>6. Rung(b, f, a) = Rung(p.best, p.breakeven, last.atr)
    BY <2>1, <2>2, <2>3
  <2> QED BY <2>4, <2>5, <2>6 DEF BacktestInv, LastStop, Held
<1>6. HalfDone' /\ HalfDue' /\ TrailEarned' /\ HurtRests' /\ Reconciles'
  BY <1>1 DEF BacktestInv, HalfDone, HalfDue, TrailEarned, HurtRests, Reconciles, Held, Half
<1>7. FillsAreReal' /\ ProfitLocked'
  BY <1>2 DEF FillsAreReal, ProfitLocked
<1> QED BY <1>3, <1>4, <1>5, <1>6, <1>7 DEF BacktestInv

LEMMA Entering ==
  ASSUME BacktestInv, NEW side \in Sides, NEW qty \in Lots, NEW reach \in {0, Distance + 1},
         Enter(side, qty, reach), now' = now + 1, now < MaxBars,
         UNCHANGED <<engine, useAtr, over, atr>>
  PROVE  BacktestInv'
<1>1. PICK q : q = Opened(side, qty, reach)
  OBVIOUS
<1>2. p.partial \in BOOLEAN /\ atr \in Atr /\ p.qty = 0 /\ p.side = "None" /\ qty \in Nat
      /\ qty > 0 /\ now \in Nat
  BY DEF BacktestInv, BacktestTypes, Enter, Atr, Sides
<1>3. /\ q \in Position /\ q.side = side /\ q.qty = qty /\ q.since = now /\ q.atr = atr
      /\ q.best = (IF engine = "v2" THEN reach ELSE 0)
      /\ q.trailing = FALSE /\ q.breakeven = FALSE
  <2>1. reach \in Nat
    OBVIOUS
  <2> QED BY <1>1, <1>2, <2>1 DEF Opened, Position, Atr
<1>4. PICK e \in Atr : e = Effective(q)
  BY <1>2, <1>3, EffectiveType
<1>5. PICK l : l = Level(q)
  OBVIOUS
<1>6. /\ p' = q /\ took' = FALSE /\ trades' = {} /\ lastTrade' = now
      /\ last' = [close |-> IF engine \in {"kline", "data"} THEN -Cost ELSE 0,
                  level |-> l, atr |-> e]
      /\ unsold' = unsold + qty /\ lastStop' = lastStop /\ hurt' = hurt
      /\ today' = [Started EXCEPT !.trades = @ + 1]
  BY <1>1, <1>4, <1>5 DEF Enter
<1>7. l = Rung(q.best, FALSE, e)
  BY <1>3, <1>4, <1>5, LevelIsRung
<1>8. e \in Nat
  BY AtrNat
<1>9. l \in Int
  <2>1. q.best \in Nat
    BY <1>3 DEF Position
  <2> QED BY <1>7, <1>8, <2>1, RungFacts
<1>10. BacktestTypes'
  <2>1. /\ engine \in Engines /\ useAtr \in BOOLEAN /\ over \in BOOLEAN /\ atr \in Atrs \cup {0}
        /\ lastStop \in BOOLEAN /\ hurt \in BOOLEAN /\ unsold \in Int
    BY DEF BacktestInv, BacktestTypes
  <2>2. /\ now' \in 0 .. MaxBars /\ p'.since \in 0 .. now'
        /\ lastTrade' \in {Never} \cup 0 .. now'
    BY <1>2, <1>3, <1>6
  <2>3. today'.trades \in Nat /\ today'.pnl \in Int
    BY <1>6, StartedType
  <2>4. p'.best \in 0 .. Max2(TakeProfit, Distance + 1)
    BY <1>3, <1>6 DEF Max2
  <2>5. last' \in [close : Int, level : Int, atr : Atrs \cup {0}] /\ unsold' \in Int
    BY <1>2, <1>6, <1>9, <2>1 DEF Atr
  <2>6. /\ p'.side \in Sides /\ p'.qty \in Nat /\ p'.qty > 0
        /\ {p'.trailing, p'.breakeven, p'.partial} \subseteq BOOLEAN
    BY <1>2, <1>3, <1>6 DEF Position
  <2> QED BY <1>6, <2>1, <2>2, <2>3, <2>4, <2>5, <2>6 DEF BacktestTypes
<1>11. p' \in Position' /\ today' \in [trades : Nat, pnl : Int]
  BY <1>3, <1>6, StartedType DEF Position
<1>12. LastStop'
  <2> SUFFICES ASSUME engine # "v2"
               PROVE  /\ last'.level = Rung(p.best, p.breakeven, last.atr)'
                      /\ last'.level < last'.close
    BY DEF LastStop
  <2>1. l = Rung(0, FALSE, e)
    BY <1>3, <1>7
  <2>2. Rung(p.best, p.breakeven, last.atr)' = Rung(0, FALSE, e)'
    BY <1>3, <1>6
  <2>3. Rung(0, FALSE, e)' = Rung(0, FALSE, e)
    BY RungStays
  <2>4. l < -Cost /\ l < 0
    BY <1>8, <2>1, RungAtEntry
  <2> QED BY <1>6, <2>1, <2>2, <2>3, <2>4
<1>13. HalfDone' /\ TrailEarned' /\ FillsAreReal' /\ ProfitLocked'
  BY <1>3, <1>6 DEF HalfDone, TrailEarned, FillsAreReal, ProfitLocked
<1>14. HalfDue'
  BY <1>6 DEF HalfDue
<1>15. HurtRests' /\ Reconciles'
  BY <1>2, <1>3, <1>6 DEF BacktestInv, HurtRests, Reconciles
<1> QED BY <1>10, <1>11, <1>12, <1>13, <1>14, <1>15 DEF BacktestInv

LEMMA Ending ==
  ASSUME BacktestInv, End
  PROVE  BacktestInv'
<1>1. p \in Position /\ p.qty \in Nat /\ (p.qty > 0 <=> Held) /\ took \in BOOLEAN
      /\ last.close \in Int
  BY DEF BacktestInv, BacktestTypes, Held
<1>2. /\ p' = Cleared(p) /\ last' = Gone /\ unsold' = unsold - p.qty /\ over' = TRUE
      /\ UNCHANGED <<engine, useAtr, now, atr, today, lastTrade, lastStop, took, hurt>>
      /\ trades' = IF Held THEN {[why |-> "end", qty |-> p.qty, gain |-> last.close,
                                  real |-> TRUE, smooth |-> TRUE]} ELSE {}
  BY DEF End, Held
<1>3. /\ p' \in Position /\ p'.side = "None" /\ p'.qty = 0 /\ p'.since = 0 /\ p'.best = 0
      /\ p'.partial = p.partial /\ p'.trailing = FALSE /\ p'.breakeven = FALSE
  BY <1>1, <1>2, ClearedParts
<1>4. ~Held'
  BY <1>3 DEF Held, Sides
<1>5. \A t \in trades' : /\ t.qty \in Nat \ {0} /\ t.gain = last.close /\ t.real /\ Held
  BY <1>1, <1>2
<1>6. BacktestTypes'
  <2>1. /\ engine \in Engines /\ useAtr \in BOOLEAN /\ atr \in Atrs \cup {0}
        /\ now \in 0 .. MaxBars /\ lastTrade \in {Never} \cup 0 .. now
        /\ today.trades \in Nat /\ today.pnl \in Int
        /\ lastStop \in BOOLEAN /\ took \in BOOLEAN /\ hurt \in BOOLEAN /\ unsold \in Int
    BY DEF BacktestInv, BacktestTypes
  <2>2. p'.best \in 0 .. Max2(TakeProfit, Distance + 1) /\ p'.since \in 0 .. now
    BY <1>3, <2>1 DEF Max2
  <2>3. last' \in [close : Int, level : Int, atr : Atrs \cup {0}]
    BY <1>2 DEF Gone
  <2>4. unsold' \in Int
    BY <1>1, <1>2, <2>1
  <2>5. p'.side \in Sides \cup {"None"} /\ p'.qty \in Nat /\ (p'.qty > 0 <=> p'.side \in Sides)
    BY <1>3, <1>4 DEF Held
  <2>6. {p'.trailing, p'.breakeven, p'.partial} \subseteq BOOLEAN
    BY <1>1, <1>3 DEF Position
  <2> QED BY <1>1, <1>2, <1>5, <2>1, <2>2, <2>3, <2>4, <2>5, <2>6 DEF BacktestTypes
<1>7. p' \in Position' /\ today' \in [trades : Nat, pnl : Int]
  BY <1>2, <1>3 DEF BacktestInv, Position
<1>8. LastStop' /\ HalfDone' /\ HalfDue' /\ TrailEarned'
  BY <1>4 DEF LastStop, HalfDone, HalfDue, TrailEarned
<1>9. HurtRests' /\ Reconciles'
  BY <1>1, <1>2, <1>3 DEF BacktestInv, HurtRests, Reconciles
<1>10. FillsAreReal' /\ ProfitLocked'
  <2>1. Held /\ took => last.close >= 0
    BY DEF BacktestInv, HalfDone
  <2> QED BY <1>2, <1>5, <2>1 DEF FillsAreReal, ProfitLocked
<1> QED BY <1>6, <1>7, <1>8, <1>9, <1>10 DEF BacktestInv

\* What a step of Next is: something of a position, or nothing of it.
LEMMA Step ==
  ASSUME BacktestInv, [BacktestNext]_backtestVars
  PROVE  \/ \E c \in Bars : \E hint : Held /\ Hold(c, hint)
         \/ /\ p.side = "None"
            /\ \E side \in Sides, qty \in Lots, reach \in {0, Distance + 1} :
                  Enter(side, qty, reach)
         \/ UNCHANGED <<p, last>>
         \/ End
<1>1. CASE Minute
  BY <1>1 DEF Minute, Ticks, Signals, Wait, Enter, Held
<1>2. CASE FiveMinutes
  BY <1>2 DEF FiveMinutes
<1>3. CASE UNCHANGED backtestVars
  BY <1>3 DEF backtestVars
<1> QED BY <1>1, <1>2, <1>3 DEF BacktestNext

LEMMA StepKeeps ==
  ASSUME BacktestInv, [BacktestNext]_backtestVars
  PROVE  BacktestInv'
<1>1. /\ now \in Nat /\ now \in 0 .. MaxBars /\ over \in BOOLEAN /\ atr \in Atr
      /\ today \in [trades : Nat, pnl : Int]
  BY DEF BacktestInv, BacktestTypes, Atr
<1>2. CASE Minute
  <2>1. now' = now + 1 /\ now < MaxBars /\ UNCHANGED <<engine, useAtr, over, atr>>
    BY <1>2 DEF Minute
  <2>2. ASSUME Held, NEW c \in Bars, NEW hint, Hold(c, hint) PROVE BacktestInv'
    BY <2>1, <2>2, Stay, Close
  <2>3. ASSUME NEW side \in Sides, NEW qty \in Lots, NEW reach \in {0, Distance + 1},
               Enter(side, qty, reach)
        PROVE  BacktestInv'
    BY <2>1, <2>3, Entering
  <2>4. CASE Wait
    <3>1. /\ UNCHANGED <<p, lastTrade, lastStop, last, unsold, hurt>>
          /\ today' = Started /\ trades' = {} /\ took' = FALSE
      BY <2>4 DEF Wait
    <3>2. over' \in BOOLEAN /\ atr' \in Atr /\ now' \in now .. MaxBars
      BY <1>1, <2>1
    <3>3. today' \in [trades : Nat, pnl : Int]
      BY <3>1, StartedType
    <3>4. /\ UNCHANGED <<engine, useAtr, p, lastTrade, lastStop, last, unsold, hurt>>
          /\ trades' = {} /\ took' \in {took, FALSE}
      BY <2>1, <3>1
    <3> QED BY <3>2, <3>3, <3>4, Quiet
  <2> QED BY <1>2, <2>2, <2>3, <2>4 DEF Minute, Ticks, Signals, Held
<1>3. CASE FiveMinutes
  <2>1. /\ UNCHANGED <<engine, useAtr, now, over, p, today, lastTrade, lastStop, last,
                       unsold, took, hurt>>
        /\ atr' \in Atr /\ trades' = {}
    BY <1>3 DEF FiveMinutes, Atr
  <2> QED BY <1>1, <2>1, Quiet
<1>4. CASE End
  BY <1>4, Ending
<1>5. CASE UNCHANGED backtestVars
  <2>1. UNCHANGED <<engine, useAtr, now, over, atr, p, today, lastTrade, lastStop, trades,
                    last, unsold, took, hurt>>
    BY <1>5 DEF backtestVars
  <2> QED BY <1>1, <2>1, Quiet
<1> QED BY <1>2, <1>3, <1>4, <1>5 DEF BacktestNext

\* The inductive invariant of the simulated trading.
THEOREM BacktestInvariant == BacktestSpec => []BacktestInv
<1>1. BacktestInit => BacktestInv
  <2> SUFFICES ASSUME BacktestInit PROVE BacktestInv
    OBVIOUS
  <2>1. p = Flat /\ p \in Position /\ p.side = "None" /\ p.qty = 0 /\ p.best = 0
        /\ p.since = 0 /\ p.trailing = FALSE /\ p.breakeven = FALSE /\ p.partial = FALSE
    BY DEF BacktestInit, Flat, Position
  <2>2. ~Held
    BY <2>1 DEF Held, Sides
  <2>3. last \in [close : Int, level : Int, atr : Atrs \cup {0}]
        /\ today \in [trades : Nat, pnl : Int]
    BY DEF BacktestInit, Gone
  <2>4. BacktestTypes
    <3>1. 0 \in 0 .. Max2(TakeProfit, Distance + 1)
      BY DEF Max2
    <3>2. 0 \in 0 .. MaxBars /\ 0 \in 0 .. 0
      OBVIOUS
    <3>3. /\ engine \in Engines /\ useAtr \in BOOLEAN /\ now = 0 /\ over = FALSE /\ atr = 0
          /\ today.trades = 0 /\ today.pnl = 0 /\ lastTrade = Never /\ lastStop = FALSE
          /\ trades = {} /\ unsold = 0 /\ took = FALSE /\ hurt = FALSE
      BY DEF BacktestInit
    <3>4. p.side \in Sides \cup {"None"} /\ p.qty \in Nat /\ (p.qty > 0 <=> p.side \in Sides)
      BY <2>1, <2>2 DEF Held
    <3> QED BY <2>1, <2>3, <3>1, <3>2, <3>3, <3>4 DEF BacktestTypes
  <2> QED BY <2>1, <2>2, <2>3, <2>4
       DEF BacktestInit, BacktestInv, LastStop, HalfDone, HalfDue, TrailEarned, HurtRests,
           Reconciles, FillsAreReal, ProfitLocked
<1>2. BacktestInv /\ [BacktestNext]_backtestVars => BacktestInv'
  BY StepKeeps
<1> QED BY <1>1, <1>2, PTL DEF BacktestSpec

\* There is a quantity exactly as long as there is a position, whatever the
\* engine, its settings and the prices.
THEOREM BacktestTypeCorrect == BacktestSpec => []BacktestTypes
<1>1. BacktestInv => BacktestTypes
  BY DEF BacktestInv
<1> QED BY <1>1, BacktestInvariant, PTL

\* What the records say was closed is what was opened, but for what is held.
THEOREM RecordsReconcile == BacktestSpec => []Reconciles
<1>1. BacktestInv => Reconciles
  BY DEF BacktestInv
<1> QED BY <1>1, BacktestInvariant, PTL

\* No record of a bar that goes on from the last one's close, under the same
\* stop, claims a price that the bar did not trade at.
THEOREM RecordsAreReal == BacktestSpec => []FillsAreReal
<1>1. BacktestInv => FillsAreReal
  BY DEF BacktestInv
<1> QED BY <1>1, BacktestInvariant, PTL

\* A position that has sold half at a profit never closes the rest at a loss.
THEOREM ProfitIsLocked == BacktestSpec => []ProfitLocked
<1>1. BacktestInv => ProfitLocked
  BY DEF BacktestInv
<1> QED BY <1>1, BacktestInvariant, PTL

StopHoldsStep ==
    (p.side \in Sides /\ p'.side = p.side /\ engine # "v2" /\ last'.atr = last.atr)
      => last'.level >= last.level

\* The stop of a position moves in its favour only, as long as the ATR stays.
THEOREM StopNeverFalls == BacktestSpec => StopHolds
<1>1. BacktestInv /\ [BacktestNext]_backtestVars => [StopHoldsStep]_backtestVars
  <2> SUFFICES ASSUME BacktestInv, [BacktestNext]_backtestVars,
                      p.side \in Sides, p'.side = p.side, engine # "v2",
                      last'.atr = last.atr
               PROVE  last'.level >= last.level
    BY DEF StopHoldsStep
  <2>1. Held /\ p.side # "None" /\ p \in Position /\ last.level \in Int
    BY HeldParts DEF Held, Sides
  <2>2. ASSUME NEW c \in Bars, NEW hint, Hold(c, hint) PROVE last'.level >= last.level
    <3>1. WhyOf(c, hint) = "stay"
      <4> SUFFICES ASSUME WhyOf(c, hint) # "stay" PROVE FALSE
        OBVIOUS
      <4>1. PICK q \in Position : q = After(c)
        BY <2>1, HeldParts, AfterPosition
      <4>2. p' = Cleared(q)
        BY <2>2, <4>1, HoldMeans
      <4> QED BY <2>1, <4>2, ClearedParts
    <3>2. last' = [close |-> c.close, level |-> Level(After(c)), atr |-> Effective(After(c))]
      BY <2>2, <3>1, HoldMeans
    <3>3. last'.level = Level(After(c)) /\ Effective(After(c)) = last.atr
      BY <3>2
    <3>4. last.level <= Level(After(c)) /\ Level(After(c)) \in Int
      BY <2>1, <3>3, AfterStop, AfterLevel
    <3> QED BY <2>1, <3>3, <3>4
  <2>3. CASE UNCHANGED <<p, last>>
    BY <2>1, <2>3
  <2>4. CASE End
    <3>1. p' = Cleared(p)
      BY <2>4 DEF End
    <3> QED BY <2>1, <3>1, ClearedParts
  <2> QED BY <2>1, <2>2, <2>3, <2>4, Step
<1> QED BY <1>1, BacktestInvariant, PTL DEF BacktestSpec, StopHolds, StopHoldsStep

LossesRestStep ==
    (p.side = "None" /\ p'.side \in Sides /\ hurt /\ ~useAtr /\ engine \in {"kline", "data"})
      => now - lastTrade >= LongCooldown

\* After a stop at a loss the next entry is a long cooldown away.
THEOREM LossesAreFollowedByRest == BacktestSpec => LossesRest
<1>1. BacktestInv /\ [BacktestNext]_backtestVars => [LossesRestStep]_backtestVars
  <2> SUFFICES ASSUME BacktestInv, [BacktestNext]_backtestVars,
                      p.side = "None", p'.side \in Sides, hurt, ~useAtr,
                      engine \in {"kline", "data"}
               PROVE  now - lastTrade >= LongCooldown
    BY DEF LossesRestStep
  <2>1. ~Held /\ p'.side # "None" /\ p \in Position
    BY DEF Held, Sides, BacktestInv
  <2>2. now \in Nat /\ lastTrade \in Int
    BY DEF BacktestInv, BacktestTypes, Never
  <2>3. ASSUME NEW side \in Sides, NEW qty \in Lots, NEW reach \in {0, Distance + 1},
               Enter(side, qty, reach)
        PROVE  now - lastTrade >= LongCooldown
    <3>1. Rested
      BY <2>3 DEF Enter, MayEnter
    <3>2. lastStop
      BY DEF BacktestInv, HurtRests
    <3> QED BY <2>2, <3>1, <3>2 DEF Rested
  <2>4. ~UNCHANGED <<p, last>>
    BY <2>1
  <2>5. ~End
    <3> SUFFICES ASSUME End PROVE FALSE
      OBVIOUS
    <3>1. p' = Cleared(p)
      BY DEF End
    <3> QED BY <2>1, <3>1, ClearedParts
  <2> QED BY <2>1, <2>3, <2>4, <2>5, Step
<1> QED BY <1>1, BacktestInvariant, PTL DEF BacktestSpec, LossesRest, LossesRestStep

=============================================================================
