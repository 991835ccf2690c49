----------------------------- MODULE MarketData -----------------------------
(***************************************************************************)
(* The websocket of MarketDataService: start (reconnecting with a backoff),*)
(* connect_and_run (the steps of a connection in each of its three modes)  *)
(* and handle_connection_generic (messages and the heartbeat).             *)
(*                                                                         *)
(* Time passes in Tick, which no deadline lets pass: a timeout, a beat or  *)
(* the end of a sleep comes when it is due.  All counters of time are      *)
(* bounded by deadlines, or stop at a limit beyond which the code does not *)
(* tell values apart, so the model runs for ever.                          *)
(*                                                                         *)
(* The network is down or up, and a connection whose other end is gone     *)
(* stays silent; one that is there answers a step before its timeout and a *)
(* ping before the next.  A message is its kind: what a text says (parsed  *)
(* and published to the bus, or logged) does not matter to the connection. *)
(***************************************************************************)
EXTENDS Integers, Sequences

CONSTANTS
    Modes,             \* connection modes that the configuration may choose
    SeveralSymbols,    \* symbols.len() > 1
    ReconnectInterval, MaxReconnect, ConnectTimeout,
    HeartbeatInterval, HeartbeatTimeout,
    AliveThreshold,    \* an attempt that took longer resets the backoff
    MaxFailures        \* bound: failures are counted up to it

ASSUME MarketAssumption ==
    /\ Modes \subseteq {"direct", "tunnel", "proxy"}
    /\ SeveralSymbols \in BOOLEAN
    /\ {ReconnectInterval, MaxReconnect, ConnectTimeout, HeartbeatInterval,
        HeartbeatTimeout, AliveThreshold, MaxFailures} \subseteq Nat \ {0}
    /\ ReconnectInterval <= MaxReconnect
    /\ HeartbeatInterval <= HeartbeatTimeout

VARIABLES
    mode,        \* how to connect
    up,          \* the network
    phase,       \* connecting, running; asleep after a failure or a loss
    step,        \* the step of connect_and_run
    spent,       \* time in this step
    elapsed,     \* time since connect_start, while connecting
    retry,       \* retry_interval
    left,        \* what is left of the sleep
    peer,        \* this connection's other end
    silent,      \* time since last_message_time, in a loss's sleep, too
    toBeat,      \* time to the heartbeat's next tick
    answered,    \* the last ping was answered
    failures     \* history: failed attempts since the last connection

vars == <<mode, up, phase, step, spent, elapsed, retry, left, peer, silent,
          toBeat, answered, failures>>

Min2(a, b) == IF a < b THEN a ELSE b

-----------------------------------------------------------------------------
\* The steps of connect_and_run, and the subscription.
Connecting ==
    [direct |-> <<"websocket">>,
     tunnel |-> <<"tcp", "tls", "websocket">>,
     proxy  |-> <<"tcp", "request", "status", "headers", "tls", "websocket">>]

Path == Connecting[mode] \o IF SeveralSymbols THEN <<"subscribe">> ELSE << >>

\* Steps that only write, which nobody has to answer.
Writes == {"request", "subscribe"}

\* Mutation of Timed: the websocket's handshake has no timeout.
TimedButLast == {"tcp", "status", "tls"}

\* Steps under a timeout.  The rest of the proxy's headers is not.
Timed == {"tcp", "status", "tls", "websocket"}

At == Path[step]

Init ==
    /\ mode \in Modes
    /\ up \in BOOLEAN
    /\ phase = "connecting"
    /\ step = 1
    /\ spent = 0
    /\ elapsed = 0
    /\ retry = ReconnectInterval
    /\ left = 0
    /\ peer = IF up THEN "here" ELSE "gone"
    /\ silent = 0
    /\ toBeat = 0
    /\ answered = TRUE
    /\ failures = 0

-----------------------------------------------------------------------------
\* Time, and the network.

TickConnecting ==
    /\ phase = "connecting"
    /\ At \notin Writes
    /\ At \in Timed => spent + (IF peer = "here" THEN 1 ELSE 0) < ConnectTimeout
    /\ spent' = Min2(spent + 1, ConnectTimeout)
    /\ elapsed' = Min2(elapsed + 1, AliveThreshold + 1)
    /\ UNCHANGED <<left, silent, toBeat>>

TickRunning ==
    /\ phase = "running"
    /\ toBeat > 0
    /\ toBeat = 1 /\ peer = "here" => answered
    /\ toBeat' = toBeat - 1
    /\ silent' = silent + 1
    /\ UNCHANGED <<spent, elapsed, left>>

TickAsleep ==
    /\ phase \in {"failed", "lost"}
    /\ left > 0
    /\ left' = left - 1
    /\ silent' = IF phase = "lost" THEN silent + 1 ELSE silent
    /\ UNCHANGED <<spent, elapsed, toBeat>>

Tick ==
    /\ TickConnecting \/ TickRunning \/ TickAsleep
    /\ UNCHANGED <<mode, up, phase, step, retry, peer, answered, failures>>

NetworkDown ==
    /\ up
    /\ up' = FALSE
    /\ peer' \in {peer, "gone"}
    /\ UNCHANGED <<mode, phase, step, spent, elapsed, retry, left, silent,
                   toBeat, answered, failures>>

\* A first step that is still waiting gets through.
NetworkUp ==
    /\ ~up
    /\ up' = TRUE
    /\ peer' \in {peer} \cup
                 (IF phase = "connecting" /\ step = 1 THEN {"here"} ELSE {})
    /\ UNCHANGED <<mode, phase, step, spent, elapsed, retry, left, silent,
                   toBeat, answered, failures>>

-----------------------------------------------------------------------------
\* start: what follows an attempt.

\* Nothing of a connection is kept: stream and timers go out of scope.
Dropped ==
    /\ step' = 1
    /\ spent' = 0
    /\ elapsed' = 0
    /\ peer' = "gone"
    /\ toBeat' = 0
    /\ answered' = TRUE
    /\ UNCHANGED <<mode, up>>

\* Mutation of Fail: the backoff has no limit.
FailUncapped ==
    LET wait == IF elapsed > AliveThreshold THEN ReconnectInterval ELSE retry
    IN  /\ phase' = "failed"
        /\ left' = wait
        /\ retry' = IF wait > 4 * MaxReconnect THEN wait ELSE wait * 2
        /\ failures' = Min2(failures + 1, MaxFailures)
        /\ Dropped
        /\ UNCHANGED silent

\* Err: the wait doubles with each failure, up to a limit.
Fail ==
    LET wait == IF elapsed > AliveThreshold THEN ReconnectInterval ELSE retry
    IN  /\ phase' = "failed"
        /\ left' = wait
        /\ retry' = Min2(wait * 2, MaxReconnect)
        /\ failures' = Min2(failures + 1, MaxFailures)
        /\ Dropped
        /\ UNCHANGED silent

\* Mutation of Lose: a loss waits as long as the failures before it would.
LoseBackedOff ==
    /\ phase' = "lost"
    /\ left' = retry
    /\ retry' = ReconnectInterval
    /\ Dropped
    /\ UNCHANGED <<silent, failures>>

\* Ok: the connection was there and is closed, ended or given up.
Lose ==
    /\ phase' = "lost"
    /\ left' = ReconnectInterval
    /\ retry' = ReconnectInterval
    /\ Dropped
    /\ UNCHANGED <<silent, failures>>

Wake ==
    /\ phase \in {"failed", "lost"}
    /\ left = 0
    /\ phase' = "connecting"
    /\ peer' = IF up THEN "here" ELSE "gone"
    /\ silent' = 0
    /\ UNCHANGED <<mode, up, step, spent, elapsed, retry, left, toBeat, answered,
                   failures>>

-----------------------------------------------------------------------------
\* connect_and_run.

\* A step is done: the next one, or the loop of the connection.
Pass ==
    /\ phase = "connecting"
    /\ peer = "here" \/ At \in Writes
    /\ spent' = 0
    /\ IF step < Len(Path)
       THEN /\ step' = step + 1
            /\ UNCHANGED <<phase, elapsed, toBeat, failures>>
       ELSE /\ phase' = "running"
            /\ step' = 1
            /\ elapsed' = 0
            /\ toBeat' = HeartbeatInterval
            /\ failures' = 0
    /\ UNCHANGED <<mode, up, retry, left, peer, silent, answered>>

\* A step ends in an error.
Refused ==
    /\ phase = "connecting"
    /\ ~up \/ peer = "gone"
    /\ Fail

\* The other end is there and answers with an error: a proxy's status other
\* than 200, a failed handshake.
Declined ==
    /\ phase = "connecting"
    /\ peer = "here"
    /\ Fail

TimesOut ==
    /\ phase = "connecting"
    /\ At \in Timed
    /\ spent = ConnectTimeout
    /\ Fail

-----------------------------------------------------------------------------
\* handle_connection_generic.

\* Mutation of Refreshes: an answered ping is not taken for a sign of life.
RefreshesOnData(kind) == kind \in {"text", "ping"}

Refreshes(kind) == kind \in {"text", "ping", "pong"}

\* The other end answers a ping; all else it sends when it likes.
Message(kind) ==
    /\ phase = "running"
    /\ peer = "here"
    /\ kind = "pong" => ~answered
    /\ silent' = IF Refreshes(kind) THEN 0 ELSE silent
    /\ answered' = (answered \/ kind = "pong")
    /\ UNCHANGED <<mode, up, phase, step, spent, elapsed, retry, left, peer,
                   toBeat, failures>>

\* A Close, an error, or the end of the stream.
Closed == phase = "running" /\ Lose

Overdue == silent > HeartbeatTimeout

\* The heartbeat: give up, or send a ping, which fails if the end is gone and
\* that is known.
Beat ==
    /\ phase = "running"
    /\ toBeat = 0
    /\ \/ Overdue /\ Lose
       \/ ~Overdue /\ peer = "gone" /\ Lose
       \/ /\ ~Overdue
          /\ toBeat' = HeartbeatInterval
          /\ answered' = FALSE
          /\ UNCHANGED <<mode, up, phase, step, spent, elapsed, retry, left,
                         peer, silent, failures>>

Next ==
    \/ Tick \/ NetworkDown \/ NetworkUp \/ Wake
    \/ Pass \/ Refused \/ Declined \/ TimesOut
    \/ \E kind \in {"text", "ping", "pong", "other"} : Message(kind)
    \/ Closed \/ Beat

\* Time passes whatever the network does, timers fire, and an end that is there
\* answers.
Fairness ==
    /\ SF_vars(Tick) /\ WF_vars(Wake) /\ WF_vars(TimesOut) /\ WF_vars(Beat)
    /\ WF_vars(Pass) /\ WF_vars(Message("pong"))

Spec == Init /\ [][Next]_vars
FairSpec == Spec /\ Fairness

-----------------------------------------------------------------------------
\* Types.
TypeOK ==
    /\ mode \in Modes
    /\ up \in BOOLEAN
    /\ phase \in {"connecting", "running", "failed", "lost"}
    /\ step \in 1 .. Len(Path)
    /\ spent \in 0 .. ConnectTimeout
    /\ elapsed \in 0 .. AliveThreshold + 1
    /\ retry \in ReconnectInterval .. MaxReconnect
    /\ left \in 0 .. MaxReconnect
    /\ peer \in {"here", "gone"}
    /\ silent \in Nat
    /\ toBeat \in 0 .. HeartbeatInterval
    /\ answered \in BOOLEAN
    /\ failures \in 0 .. MaxFailures

\* However a connection dies, the next attempt begins at most the heartbeat's
\* timeout, one beat and the first waiting time after its last message.
Resumes ==
    /\ phase = "running" => silent <= HeartbeatTimeout + HeartbeatInterval
    /\ phase = "lost" =>
         silent + left <= HeartbeatTimeout + HeartbeatInterval + ReconnectInterval

\* The heartbeat never gives up a connection whose other end answers pings,
\* though no market data come for ever so long.
LiveKept ==
    phase = "running" /\ peer = "here" /\ toBeat = 0 => ~Overdue

\* The n-th failure in a row waits 2^(n-1) times the first waiting time, or the
\* longest.  Not so through a proxy, where the steps' timeouts together exceed
\* the time that an attempt must take to count as connected.
BackoffKept ==
    [][phase = "connecting" /\ phase' = "failed" /\ mode # "proxy"
       => left' = Min2(ReconnectInterval * 2^(failures' - 1), MaxReconnect)]_vars

\* A proxy that answered with its status line and nothing more.
Stalled == phase = "connecting" /\ At = "headers" /\ peer = "gone"

\* Once the network stays up and nobody answers with errors any more, there is
\* again and again a live connection, unless a proxy has stalled for good.
Recovers ==
    <>[]up /\ <>[][~Declined]_vars /\ ~<>[]Stalled
        => []<>(phase = "running" /\ peer = "here")
=============================================================================
