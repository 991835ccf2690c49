---------------------------- MODULE ClientProofs ----------------------------
(***************************************************************************)
(* Proofs about BinanceClient and about the entry that is made over it.    *)
(*                                                                         *)
(* RateLimit: the pause that the clones of the client share, for any       *)
(* number of callers and retries, any pauses and any bans.  What a call    *)
(* may still send when a pause begins is bounded by what it has left of    *)
(* its attempts; no other call begins, because the deadline that is        *)
(* compared is the one the exchange asked for, as long as nothing shorter  *)
(* was stored over it.                                                     *)
(*                                                                         *)
(* LimitEntry: one entry, for any quantity, any number of polls, retries   *)
(* and faults.  What is bought or may still be is counted unit by unit;    *)
(* before each call there is room, of one quantity for each call that went *)
(* wrong, for what the calls from there on may buy.                        *)
(***************************************************************************)
EXTENDS RateLimit, LimitEntry, FiniteSetTheorems, TLAPS

Replies == {<<"none">>, <<"ok">>, <<"unreadable">>, <<"error">>, <<"limit">>}
             \cup {"ban"} \X Nat

Call == [at : {"idle", "ready", "sent", "answered"},
         kind : {"order", "read", "klines"}, attempt : 0 .. Retries,
         reply : Replies, done : Nat, fails : Nat]

\* Requests that a call may still send.
Left(c) ==
    CASE ~Signed(c)               -> 0
      [] Signed(c) /\ Busy(c, "ready") -> Retries + 1 - calls[c].attempt
      [] Signed(c) /\ Busy(c, "sent")  -> Retries - calls[c].attempt
      [] OTHER                    -> 0

\* The deadline that the client compares is the one in force.
Informed == ~shortened /\ now < told => until = told

\* In a pause a call has at most one call's attempts, sent or still to send.
Stragglers ==
    \A c \in Callers :
        /\ during[c] \in 0 .. Retries + 2
        /\ ~shortened => during[c] <= Retries + 1
        /\ ~shortened /\ now < told => during[c] + Left(c) <= Retries + 1

\* What has been ran, while a call is on its way and when it is answered.
Repeats ==
    \A c \in Callers :
        LET call == calls[c] IN
        /\ call.done <= call.fails + 1
        /\ call.at # "answered" => call.done <= call.fails

IInv == TypeOK /\ Informed /\ Stragglers /\ Repeats

USE RateAssumption

-----------------------------------------------------------------------------
(* The types.                                                              *)

LEMMA NoCallIsACall == NoCall \in Call
  BY DEF NoCall, NewCall, Call, Replies

LEMMA TypeOfCalls == TypeOK <=> /\ {now, until, banned, told} \subseteq Nat
                               /\ calls \in [Callers -> Call]
                               /\ shortened \in BOOLEAN
                               /\ during \in [Callers -> Nat]
  BY Zenon DEF TypeOK, Call, Replies

\* What an error asks for is an instant.
LEMMA DeadlineIsAnInstant ==
  ASSUME now \in Nat, NEW reply \in Replies, reply[1] \in {"ban", "limit"}
  PROVE  Deadline(reply) \in Nat
<1>1. CASE reply[1] = "limit"
  BY <1>1 DEF Deadline
<1>2. CASE reply[1] = "ban"
  <2>1. reply \in {"ban"} \X Nat
    BY <1>2 DEF Replies
  <2> QED
    BY <1>2, <2>1 DEF Deadline
<1> QED
  BY <1>1, <1>2

LEMMA AttemptOf == ASSUME TypeOK, NEW c \in Callers
                   PROVE  /\ calls[c] \in Call
                          /\ calls[c].attempt \in 0 .. Retries
                          /\ calls[c].done \in Nat
                          /\ calls[c].fails \in Nat
  BY TypeOfCalls DEF Call

LEMMA LeftBounds == ASSUME TypeOK, NEW c \in Callers
                    PROVE  Left(c) \in 0 .. Retries + 1
  BY AttemptOf DEF Left

LEMMA LeftBoundsNext == ASSUME TypeOK', NEW c \in Callers
                        PROVE  Left(c)' \in 0 .. Retries + 1
<1>1. calls' \in [Callers -> Call]
  BY DEF TypeOK, Call, Replies
<1>2. calls'[c].attempt \in 0 .. Retries
  BY <1>1 DEF Call
<1> QED
  BY <1>2 DEF Left, Signed, Busy

\* A caller's own call is all that an action replaces.
LEMMA OthersKeepLeft ==
  ASSUME calls \in [Callers -> Call], NEW b \in Callers, NEW c \in Callers, b # c,
         NEW call, calls' = [calls EXCEPT ![c] = call]
  PROVE  calls'[b] = calls[b] /\ Left(b)' = Left(b)
  BY DEF Left, Signed, Busy

-----------------------------------------------------------------------------
(* Steps.                                                                  *)

LEMMA InitInv == Init => IInv
<1> SUFFICES ASSUME Init PROVE IInv
  OBVIOUS
<1>0. /\ now = 0 /\ until = 0 /\ banned = 0 /\ told = 0
      /\ calls \in [Callers -> Call]
      /\ \A c \in Callers : calls[c] = NoCall
      /\ during \in [Callers -> Nat]
      /\ \A c \in Callers : during[c] = 0
  BY NoCallIsACall DEF Init
<1>1. TypeOK
  <2>1. shortened \in BOOLEAN
    BY Zenon DEF Init
  <2>2. {now, until, banned, told} \subseteq Nat
    BY <1>0
  <2> QED
    BY <1>0, <2>1, <2>2, TypeOfCalls
<1>2. Informed
  BY <1>0 DEF Informed
<1>3. Stragglers
  <2>1. ~(now < told) /\ 0 \in 0 .. Retries + 2 /\ 0 <= Retries + 1
    BY <1>0
  <2> QED
    BY <1>0, <2>1 DEF Stragglers
<1>4. Repeats
  <2> SUFFICES ASSUME NEW c \in Callers
               PROVE  /\ calls[c].done <= calls[c].fails + 1
                      /\ calls[c].done <= calls[c].fails
    BY DEF Repeats
  <2>1. NoCall.done = 0 /\ NoCall.fails = 0
    BY DEF NoCall, NewCall
  <2>2. calls[c].done = 0 /\ calls[c].fails = 0
    BY <1>0, <2>1
  <2> QED
    BY <2>2
<1> QED
  BY <1>1, <1>2, <1>3, <1>4 DEF IInv

LEMMA BeginInv == ASSUME IInv, NEW c \in Callers,
                         NEW kind \in {"order", "read", "klines"}, Begin(c, kind)
                  PROVE  IInv'
<1> DEFINE call == NewCall("ready", kind)
<1>0. TypeOK /\ Informed /\ Stragglers /\ Repeats
  BY DEF IInv
<1>1. /\ calls \in [Callers -> Call]
      /\ calls' = [calls EXCEPT ![c] = call]
      /\ UNCHANGED <<now, until, banned, told, shortened, during>>
  BY <1>0, TypeOfCalls DEF Begin
<1>2. call \in Call /\ call.done = 0 /\ call.fails = 0 /\ call.kind = kind
      /\ call.at = "ready" /\ call.attempt = 0
  BY DEF NewCall, Call, Replies
<1> HIDE DEF call
<1>3. TypeOK'
  BY <1>0, <1>1, <1>2 DEF TypeOK, Call, Replies
<1>4. Informed'
  BY <1>0, <1>1 DEF Informed
<1>5. Stragglers'
  <2>1. CASE kind = "klines"
    <3>1. ASSUME NEW b \in Callers PROVE Left(b)' <= Left(b)
      <4>1. CASE b = c
        BY <1>0, <1>1, <1>2, <2>1, <4>1, LeftBounds DEF Left, Signed
      <4>2. CASE b # c
        <5>1. Left(b)' = Left(b)
          BY <1>1, <4>2, OthersKeepLeft
        <5> QED
          BY <1>0, <5>1, LeftBounds
      <4> QED
        BY <4>1, <4>2
    <3>2. ASSUME NEW b \in Callers PROVE Left(b)' \in Int /\ Left(b) \in Int
      BY <1>0, <1>1, <1>2, <3>1, LeftBounds, AttemptOf DEF Left, Signed, Busy, Call
    <3> QED
      BY <1>0, <1>1, <3>1, <3>2 DEF Stragglers, TypeOK
  <2>2. CASE kind # "klines"
    <3>1. ~(~shortened /\ now < told)
      BY <1>0, <2>2 DEF Begin, IsRateLimited, Informed, TypeOK
    <3> QED
      BY <1>0, <1>1, <3>1 DEF Stragglers
  <2> QED
    BY <2>1, <2>2
<1>6. Repeats'
  BY <1>0, <1>1, <1>2 DEF Repeats
<1> QED
  BY <1>3, <1>4, <1>5, <1>6 DEF IInv

LEMMA SendInv == ASSUME IInv, NEW c \in Callers, Send(c)
                 PROVE  IInv'
<1> DEFINE call == [calls[c] EXCEPT !.at = "sent"]
<1>0. TypeOK /\ Informed /\ Stragglers /\ Repeats
  BY DEF IInv
<1>1. /\ calls \in [Callers -> Call]
      /\ calls' = [calls EXCEPT ![c] = call]
      /\ UNCHANGED <<now, until, banned, told, shortened>>
  BY <1>0, TypeOfCalls DEF Send
<1>2. call \in Call /\ call.at = "sent" /\ call.attempt = calls[c].attempt
      /\ call.kind = calls[c].kind
      /\ call.done = calls[c].done /\ call.fails = calls[c].fails
  BY <1>1 DEF Call, Replies
<1>3. calls[c].at = "ready"
  BY DEF Send, Busy
<1> HIDE DEF call
<1>4. during' \in [Callers -> Nat]
  BY <1>0 DEF Send, TypeOK
<1>5. TypeOK'
  BY <1>0, <1>1, <1>2, <1>4 DEF TypeOK, Call, Replies
<1>6. Informed'
  BY <1>0, <1>1 DEF Informed
<1>7. Stragglers'
  <2> SUFFICES ASSUME NEW b \in Callers
               PROVE  /\ during'[b] \in 0 .. Retries + 2
                      /\ ~shortened => during'[b] <= Retries + 1
                      /\ ~shortened /\ now < told
                           => during'[b] + Left(b)' <= Retries + 1
    BY <1>1 DEF Stragglers
  <2>1. /\ during[b] \in 0 .. Retries + 2
        /\ ~shortened => during[b] <= Retries + 1
        /\ ~shortened /\ now < told => during[b] + Left(b) <= Retries + 1
    BY <1>0 DEF Stragglers
  <2>2. CASE b # c
    BY <1>0, <1>1, <2>1, <2>2, OthersKeepLeft DEF Send, TypeOK
  <2>3. CASE b = c
    <3>0. calls[c].attempt \in 0 .. Retries
      BY <1>0, AttemptOf
    <3>1. CASE Signed(c)
      <4>1. /\ Left(c) = Retries + 1 - calls[c].attempt
            /\ Left(c)' = Retries - calls[c].attempt
        BY <1>1, <1>2, <1>3, <3>1 DEF Left, Signed, Busy
      <4>2. during'[c] = IF now < told /\ during[c] <= Retries + 1
                         THEN during[c] + 1 ELSE during[c]
        BY <1>0, <3>1 DEF Send, TypeOK
      <4> QED
        BY <2>1, <2>3, <3>0, <4>1, <4>2
    <3>2. CASE ~Signed(c)
      <4>1. Left(c) = 0 /\ Left(c)' = 0 /\ during' = during
        BY <1>1, <1>2, <3>2 DEF Left, Signed, Send
      <4> QED
        BY <2>1, <2>3, <4>1
    <3> QED
      BY <3>1, <3>2
  <2> QED
    BY <2>2, <2>3
<1>8. Repeats'
  BY <1>0, <1>1, <1>2, <1>3 DEF Repeats
<1> QED
  BY <1>5, <1>6, <1>7, <1>8 DEF IInv

\* A call goes on that can send no more than before, and nothing else happens.
LEMMA CallGoesOn ==
  ASSUME IInv, UNCHANGED <<now, until, told, shortened, during>>, banned' \in Nat,
         NEW c \in Callers, NEW call \in Call, calls' = [calls EXCEPT ![c] = call],
         Left(c)' <= Left(c),
         call.done <= call.fails + 1,
         call.at # "answered" => call.done <= call.fails
  PROVE  IInv'
<1>0. TypeOK /\ Informed /\ Stragglers /\ Repeats
  BY DEF IInv
<1>1. calls \in [Callers -> Call]
  BY <1>0, TypeOfCalls
<1>2. TypeOK'
  BY <1>0, <1>1 DEF TypeOK, Call, Replies
<1>3. Informed'
  BY <1>0 DEF Informed
<1>4. Stragglers'
  <2> SUFFICES ASSUME NEW b \in Callers
               PROVE  /\ during[b] \in 0 .. Retries + 2
                      /\ ~shortened => during[b] <= Retries + 1
                      /\ ~shortened /\ now < told
                           => during[b] + Left(b)' <= Retries + 1
    BY DEF Stragglers
  <2>1. Left(b)' <= Left(b) /\ Left(b) \in Int /\ Left(b)' \in Int
    <3>1. CASE b = c
      <4>1. calls'[c].attempt \in 0 .. Retries
        BY <1>1 DEF Call
      <4>2. Left(c)' \in Int
        BY <4>1 DEF Left, Signed, Busy
      <4> QED
        BY <1>0, <3>1, <4>2, LeftBounds
    <3>2. CASE b # c
      <4>1. Left(b)' = Left(b)
        BY <1>1, <3>2, OthersKeepLeft
      <4> QED
        BY <1>0, <4>1, LeftBounds
    <3> QED
      BY <3>1, <3>2
  <2>2. /\ during[b] \in 0 .. Retries + 2
        /\ ~shortened => during[b] <= Retries + 1
        /\ ~shortened /\ now < told => during[b] + Left(b) <= Retries + 1
    BY <1>0 DEF Stragglers
  <2> QED
    BY <2>1, <2>2
<1>5. Repeats'
  BY <1>0, <1>1 DEF Repeats
<1> QED
  BY <1>2, <1>3, <1>4, <1>5 DEF IInv

LEMMA NothingToSend == ASSUME TypeOK, NEW c \in Callers,
                              calls'[c].at \in {"idle", "answered"}
                       PROVE  Left(c)' <= Left(c)
<1>1. Left(c)' = 0
  BY DEF Left, Signed, Busy
<1> QED
  BY <1>1, LeftBounds

LEMMA AnsweredCall ==
  ASSUME NEW call \in Call, NEW reply \in Replies, NEW done \in Nat
  PROVE  LET new == [call EXCEPT !.at = "answered", !.reply = reply,
                                 !.done = @ + done] IN
         /\ new \in Call /\ new.at = "answered" /\ new.fails = call.fails
         /\ new.done = call.done + done
<1> DEFINE a == [call EXCEPT !.at = "answered"]
           b == [a EXCEPT !.reply = reply]
           n == [b EXCEPT !.done = call.done + done]
<1>1. call.done + done \in Nat
  BY DEF Call
<1>2. a \in Call /\ a.at = "answered" /\ a.fails = call.fails
  BY DEF Call
<1>3. n = [call EXCEPT !.at = "answered", !.reply = reply, !.done = @ + done]
  BY Zenon
<1> HIDE DEF a
<1>4. b \in Call /\ b.at = "answered" /\ b.fails = call.fails
  BY <1>2 DEF Call
<1> HIDE DEF b
<1>5. n \in Call /\ n.at = "answered" /\ n.fails = call.fails
      /\ n.done = call.done + done
  BY <1>1, <1>4 DEF Call
<1> HIDE DEF n
<1> QED
  BY <1>3, <1>5, Zenon

LEMMA RepeatedCall ==
  ASSUME NEW call \in Call, call.attempt < Retries, NEW ran \in BOOLEAN
  PROVE  LET new == [call EXCEPT !.at = "ready", !.attempt = @ + 1,
                       !.fails = @ + 1, !.done = IF ran THEN @ + 1 ELSE @] IN
         /\ new \in Call /\ new.at = "ready" /\ new.kind = call.kind
         /\ new.attempt = call.attempt + 1
         /\ new.fails = call.fails + 1
         /\ new.done \in {call.done, call.done + 1}
<1> DEFINE done == IF ran THEN call.done + 1 ELSE call.done
           a == [call EXCEPT !.at = "ready"]
           b == [a EXCEPT !.attempt = call.attempt + 1]
           d == [b EXCEPT !.fails = call.fails + 1]
           n == [d EXCEPT !.done = done]
<1>1. /\ call.attempt + 1 \in 0 .. Retries /\ call.fails + 1 \in Nat
      /\ done \in Nat /\ done \in {call.done, call.done + 1}
  BY DEF Call
<1>2. a \in Call /\ a.at = "ready" /\ a.kind = call.kind
  BY DEF Call
<1>3. n = [call EXCEPT !.at = "ready", !.attempt = @ + 1,
             !.fails = @ + 1, !.done = IF ran THEN @ + 1 ELSE @]
  BY Zenon
<1> HIDE DEF a, done
<1>4. b \in Call /\ b.at = "ready" /\ b.kind = call.kind
      /\ b.attempt = call.attempt + 1
  BY <1>1, <1>2 DEF Call
<1> HIDE DEF b
<1>5. d \in Call /\ d.at = "ready" /\ d.kind = call.kind
      /\ d.attempt = call.attempt + 1 /\ d.fails = call.fails + 1
  BY <1>1, <1>4 DEF Call
<1> HIDE DEF d
<1>6. n \in Call /\ n.at = "ready" /\ n.kind = call.kind
      /\ n.attempt = call.attempt + 1 /\ n.fails = call.fails + 1 /\ n.done = done
  BY <1>1, <1>5 DEF Call
<1> HIDE DEF n
<1> QED
  BY <1>1, <1>3, <1>6, Zenon

LEMMA NoCallIsIdle == /\ NoCall.at = "idle"
                      /\ NoCall.done <= NoCall.fails
                      /\ NoCall.done <= NoCall.fails + 1
  BY DEF NoCall, NewCall

LEMMA ArriveInv == ASSUME IInv, NEW c \in Callers, Arrive(c)
                   PROVE  IInv'
<1>0. TypeOK /\ Repeats /\ calls \in [Callers -> Call]
  BY TypeOfCalls DEF IInv
<1>1. PICK reply \in Replies, done \in {0, 1} : Answer(c, reply, done)
  <2>1. banned \in Nat /\ \A end \in now + 1 .. MaxBan : end \in Nat
    BY <1>0 DEF TypeOK
  <2>2. \A end \in Nat : <<"ban", end>> \in Replies
    BY DEF Replies
  <2> QED
    BY <2>1, <2>2 DEF Arrive, Replies
<1>2. banned' \in Nat
  <2>1. banned' = banned \/ banned' \in now + 1 .. MaxBan
    BY DEF Arrive
  <2>2. now \in Nat /\ banned \in Nat
    BY <1>0 DEF TypeOK
  <2> QED
    BY <2>1, <2>2
<1>3. calls[c].at = "sent"
  BY DEF Arrive, Busy
<1> DEFINE call == Answered(c, reply, done)
<1>4. call \in Call /\ call.at = "answered" /\ call.fails = calls[c].fails
      /\ call.done = calls[c].done + done
  <2>1. calls[c] \in Call /\ done \in Nat
    BY <1>0
  <2> QED
    BY <2>1, AnsweredCall DEF Answered
<1>5. calls' = [calls EXCEPT ![c] = call]
  BY <1>1 DEF Answer
<1> HIDE DEF call
<1>6. call.done <= call.fails + 1
  BY <1>0, <1>3, <1>4, AttemptOf DEF Repeats
<1>7. Left(c)' <= Left(c)
  BY <1>0, <1>4, <1>5, NothingToSend
<1>8. UNCHANGED <<now, until, told, shortened, during>>
  BY DEF Arrive
<1> QED
  BY <1>2, <1>4, <1>5, <1>6, <1>7, <1>8, CallGoesOn

LEMMA NetworkFailsInv == ASSUME IInv, NEW c \in Callers, NEW ran \in BOOLEAN,
                                NetworkFails(c, ran)
                         PROVE  IInv'
<1>0. TypeOK /\ Repeats /\ calls \in [Callers -> Call] /\ calls[c].at = "sent"
  BY TypeOfCalls DEF IInv, NetworkFails, Busy
<1>1. /\ calls' = [calls EXCEPT ![c] = Again(c, ran)]
      /\ UNCHANGED <<now, until, banned, told, shortened, during>>
      /\ banned' \in Nat
  BY <1>0 DEF NetworkFails, TypeOK
<1>2. CASE Signed(c) /\ calls[c].attempt < Retries
  <2> DEFINE call == [calls[c] EXCEPT !.at = "ready", !.attempt = @ + 1,
                        !.fails = @ + 1, !.done = IF ran THEN @ + 1 ELSE @]
  <2>1. /\ call \in Call /\ call.at = "ready" /\ call.kind = calls[c].kind
        /\ call.attempt = calls[c].attempt + 1
        /\ call.fails = calls[c].fails + 1
        /\ call.done \in {calls[c].done, calls[c].done + 1}
    <3>1. calls[c] \in Call /\ calls[c].attempt < Retries
      BY <1>0, <1>2
    <3> QED
      BY <3>1, RepeatedCall
  <2>2. calls' = [calls EXCEPT ![c] = call]
    BY <1>1, <1>2 DEF Again
  <2> HIDE DEF call
  <2>3. call.done <= call.fails
    BY <1>0, <2>1, AttemptOf DEF Repeats
  <2>4. Left(c)' <= Left(c)
    BY <1>0, <1>2, <2>1, <2>2, AttemptOf DEF Left, Signed, Busy
  <2>5. call.done <= call.fails + 1
    BY <1>0, <2>1, <2>3, AttemptOf
  <2> QED
    BY <1>1, <2>1, <2>2, <2>3, <2>4, <2>5, CallGoesOn
<1>3. CASE ~(Signed(c) /\ calls[c].attempt < Retries)
  <2>1. calls' = [calls EXCEPT ![c] = NoCall]
    BY <1>1, <1>3 DEF Again
  <2>2. Left(c)' <= Left(c)
    BY <1>0, <2>1, NoCallIsIdle, NothingToSend
  <2> QED
    BY <1>1, <2>1, <2>2, NoCallIsACall, NoCallIsIdle, CallGoesOn
<1> QED
  BY <1>2, <1>3

LEMMA ReceiveInv == ASSUME IInv, NEW c \in Callers, Receive(c)
                    PROVE  IInv'
<1> DEFINE reply == calls[c].reply
           asked == IF reply[1] \in {"ban", "limit"} THEN Deadline(reply) ELSE 0
<1>0. /\ TypeOK /\ Informed /\ Stragglers /\ Repeats
      /\ calls \in [Callers -> Call] /\ reply \in Replies
  BY TypeOfCalls DEF IInv, Call
<1>1. calls' = [calls EXCEPT ![c] = NoCall] /\ now' = now /\ banned' = banned
  BY DEF Receive, Ended
<1>3. Left(c)' <= Left(c)
  BY <1>0, <1>1, NoCallIsIdle, NothingToSend
<1>4. CASE ~Signed(c) \/ asked = 0
  <2>1. UNCHANGED <<until, told, shortened, during>>
    BY <1>4 DEF Receive
  <2>2. banned' \in Nat
    BY <1>0, <1>1 DEF TypeOK
  <2> QED
    BY <1>1, <1>3, <2>1, <2>2, NoCallIsACall, NoCallIsIdle, CallGoesOn
<1>5. CASE Signed(c) /\ asked # 0
  <2>1. asked \in Nat /\ Store(reply) = asked
    <3>1. reply[1] \in {"ban", "limit"}
      BY <1>5
    <3>2. now \in Nat
      BY <1>0 DEF TypeOK
    <3> QED
      BY <1>0, <3>1, <3>2, DeadlineIsAnInstant DEF Store
  <2> HIDE DEF asked, reply
  <2>2. /\ until' = asked
        /\ told' = IF asked > told THEN asked ELSE told
        /\ during' = IF asked > told THEN [b \in Callers |-> 0] ELSE during
    BY <1>5, <2>1 DEF Receive, asked, reply
  <2>3. shortened' = \/ asked < told /\ now < told
                     \/ asked <= told /\ shortened
    BY <1>5 DEF Receive, asked, reply
  <2>4. now \in Nat /\ told \in Nat /\ until \in Nat /\ banned \in Nat
        /\ during \in [Callers -> Nat] /\ shortened \in BOOLEAN
    BY <1>0 DEF TypeOK
  <2>5. TypeOK'
    <3>1. shortened' \in BOOLEAN
      BY <2>3, Zenon
    <3>2. calls' \in [Callers -> Call]
      BY <1>0, <1>1, NoCallIsACall
    <3>3. {now, until, banned, told}' \subseteq Nat
      BY <1>1, <2>1, <2>2, <2>4
    <3>4. during' \in [Callers -> Nat]
      BY <2>2, <2>4
    <3> QED
      BY <3>1, <3>2, <3>3, <3>4 DEF TypeOK, Call, Replies
  <2>6. Informed'
    BY <1>1, <2>1, <2>2, <2>3, <2>4 DEF Informed
  <2>7. Stragglers'
    <3> SUFFICES ASSUME NEW b \in Callers
                 PROVE  /\ during'[b] \in 0 .. Retries + 2
                        /\ ~shortened' => during'[b] <= Retries + 1
                        /\ ~shortened' /\ now' < told'
                             => during'[b] + Left(b)' <= Retries + 1
      BY DEF Stragglers
    <3>1. Left(b)' \in 0 .. Retries + 1
      BY <2>5, LeftBoundsNext
    <3>2. CASE asked > told
      BY <2>2, <3>1, <3>2
    <3>3. CASE ~(asked > told)
      <4>1. Left(b)' <= Left(b) /\ Left(b) \in 0 .. Retries + 1
        <5>1. b # c => Left(b)' = Left(b)
          BY <1>0, <1>1, OthersKeepLeft
        <5> QED
          BY <1>0, <1>3, <5>1, LeftBounds
      <4>2. ~shortened' => ~shortened
        BY <2>1, <2>3, <2>4, <3>3
      <4>3. /\ during[b] \in 0 .. Retries + 2
            /\ ~shortened => during[b] <= Retries + 1
            /\ ~shortened /\ now < told => during[b] + Left(b) <= Retries + 1
        BY <1>0 DEF Stragglers
      <4>4. during' = during /\ told' = told /\ now' = now
        BY <1>1, <2>2, <3>3
      <4> QED
        BY <3>1, <4>1, <4>2, <4>3, <4>4
    <3> QED
      BY <3>2, <3>3
  <2>8. Repeats'
    BY <1>0, <1>1, NoCallIsIdle DEF Repeats
  <2> QED
    BY <2>5, <2>6, <2>7, <2>8 DEF IInv
<1> QED
  BY <1>4, <1>5

LEMMA TickInv == ASSUME IInv, Tick PROVE IInv'
<1>0. TypeOK /\ Informed /\ Stragglers /\ Repeats
  BY DEF IInv
<1>1. UNCHANGED <<until, banned, calls, told, shortened, during>> /\ now' = now + 1
  BY DEF Tick
<1>2. TypeOK'
  BY <1>0, <1>1 DEF TypeOK
<1>3. Informed'
  BY <1>0, <1>1 DEF Informed, TypeOK
<1>4. Stragglers'
  <2>1. now < told \/ ~(now' < told)
    BY <1>0, <1>1 DEF TypeOK
  <2>2. \A c \in Callers : Left(c)' = Left(c)
    BY <1>1 DEF Left, Signed, Busy
  <2> QED
    BY <1>0, <1>1, <2>1, <2>2 DEF Stragglers
<1>5. Repeats'
  BY <1>0, <1>1 DEF Repeats
<1> QED
  BY <1>2, <1>3, <1>4, <1>5 DEF IInv

LEMMA StepInv == IInv /\ [Next]_vars => IInv'
<1> SUFFICES ASSUME IInv, [Next]_vars PROVE IInv'
  OBVIOUS
<1>1. CASE \E c \in Callers, kind \in {"order", "read", "klines"} : Begin(c, kind)
  BY <1>1, BeginInv
<1>2. CASE \E c \in Callers : Send(c)
  BY <1>2, SendInv
<1>3. CASE \E c \in Callers : Arrive(c)
  BY <1>3, ArriveInv
<1>4. CASE \E c \in Callers : Receive(c)
  BY <1>4, ReceiveInv
<1>5. CASE \E c \in Callers : Failure(c)
  BY <1>5, NetworkFailsInv DEF Failure
<1>6. CASE Tick
  BY <1>6, TickInv
<1>7. CASE UNCHANGED vars
  BY <1>7 DEF vars, IInv, TypeOK, Informed, Stragglers, Repeats, Left, Signed, Busy
<1> QED
  BY <1>1, <1>2, <1>3, <1>4, <1>5, <1>6, <1>7 DEF Next

LEMMA Invariant == Spec => []IInv
  BY InitInv, StepInv, PTL DEF Spec

-----------------------------------------------------------------------------
(* The results.                                                            *)

\* Types of the client, the exchange and the history.
THEOREM RateTypes == Spec => []TypeOK
  BY Invariant, PTL DEF IInv

\* For any number of tasks: when the exchange has asked for a pause, each sends
\* at most the attempts of the call it had begun, unless a shorter pause was
\* stored over it.
THEOREM OnlyStragglersSend == Spec => []OnlyStragglers
<1>1. IInv => OnlyStragglers
  BY DEF IInv, Stragglers, OnlyStragglers
<1> QED
  BY <1>1, Invariant, PTL

\* For any number of retries: an order is ran at most once more than the
\* network failed.
THEOREM OrdersRepeatForFailures == Spec => []RepeatedForFailuresOnly
<1>1. IInv => RepeatedForFailuresOnly
  <2> SUFFICES ASSUME IInv, NEW c \in Callers
               PROVE  calls[c].done <= 1 + calls[c].fails
    BY DEF RepeatedForFailuresOnly
  <2>1. TypeOK /\ calls[c].done <= calls[c].fails + 1
    BY DEF IInv, Repeats
  <2> QED
    BY <2>1, AttemptOf
<1> QED
  BY <1>1, Invariant, PTL


-----------------------------------------------------------------------------
(* What one entry may buy.                                                 *)

\* Units that are bought by limit orders or may still be, in all and apart from
\* the order that the client knows.
Taken == InOrders \cup StillOpen
TakenElsewhere == {u \in Taken : u[1] # id}

Exposure == Cardinality(Taken) + market
Elsewhere == Cardinality(TakenElsewhere) + market

\* An order ends full, or is live or ended before that.
Shaped ==
    \A i \in DOMAIN orders :
        orders[i].status = "filled" <=> orders[i].filled = Quantity

\* From the placement on the client knows an order, and at last part of its fills.
Known ==
    /\ pc \in {"poll", "cancel", "confirm", "market"} => id \in DOMAIN orders
    /\ pc = "market" => executed < Quantity /\ executed <= orders[id].filled

\* There is a ban, or another task was told of one.
Warned == limited \/ banShared

\* Before each call the room for what the calls from there on may buy.
Room ==
    /\ pc \in {"place", "fallback"} => Exposure <= Excess
    /\ pc = "place" /\ banShared => Exposure + Quantity <= Excess
    /\ pc \in {"poll", "cancel", "confirm"} =>
         /\ Elsewhere <= Excess
         /\ Warned \/ (pc = "confirm" /\ Live(id)) => Elsewhere + Quantity <= Excess
    /\ pc = "market" => Exposure <= Excess + executed /\ (banShared => Exposure <= Excess)
    /\ pc \in {"done", "failed"} => Exposure <= Excess + Quantity

\* A pause, the fallback and a failure have a call that went wrong before them, or
\* another task was told of a ban; a repeated call has one that went wrong.  In the
\* entry's own pause nothing is counted as bought and no call is being repeated.
Faulted ==
    /\ faults = 0 => attempt = 0
    /\ faults = 0 /\ ~banShared => ~limited /\ pc \notin {"fallback", "failed"}
    /\ limited => banShared \/ (attempt = 0 /\ (pc = "market" => executed = 0))

\* What is reported has been bought.
Told == pc = "done" => reported = Quantity /\ Quantity <= TotalBought

EntryInv == EntryTypes /\ Shaped /\ Known /\ Room /\ Faulted /\ Told

HIDE RateAssumption
USE EntryAssumption

Order == [filled : 0 .. Quantity, status : {"live", "filled", "ended"}]

-----------------------------------------------------------------------------
(* Units and their numbers.                                                *)

LEMMA OrderTypes ==
  ASSUME EntryTypes
  PROVE  /\ orders \in Seq(Order)
         /\ DOMAIN orders = 1 .. Len(orders)
         /\ Len(orders) \in Nat
         /\ \A i \in DOMAIN orders :
              /\ orders[i] \in Order
              /\ orders[i].filled \in 0 .. Quantity
              /\ orders[i].status \in {"live", "filled", "ended"}
<1>1. orders \in Seq(Order)
  BY Zenon DEF EntryTypes, Order
<1>2. /\ DOMAIN orders = 1 .. Len(orders) /\ Len(orders) \in Nat
      /\ \A i \in DOMAIN orders : orders[i] \in Order
  BY <1>1
<1> QED BY <1>1, <1>2 DEF Order

LEMMA DisjointCount ==
  ASSUME NEW S, NEW T, IsFiniteSet(S), IsFiniteSet(T), S \cap T = {}
  PROVE  Cardinality(S \cup T) = Cardinality(S) + Cardinality(T)
<1>1. Cardinality(S \cup T) = Cardinality(S) + Cardinality(T) - Cardinality(S \cap T)
  BY FS_Union, Zenon
<1>2. Cardinality(S \cap T) = 0
  BY FS_EmptySet, Zenon
<1>3. Cardinality(S) \in Nat /\ Cardinality(T) \in Nat
  BY FS_CardinalityType
<1> QED BY <1>1, <1>2, <1>3

LEMMA UnitsFinite ==
  ASSUME EntryTypes
  PROVE  /\ IsFiniteSet(Units)
         /\ IsFiniteSet(InOrders) /\ Cardinality(InOrders) \in Nat
         /\ IsFiniteSet(StillOpen) /\ Cardinality(StillOpen) \in Nat
         /\ IsFiniteSet(Taken) /\ Cardinality(Taken) \in Nat
         /\ IsFiniteSet(TakenElsewhere) /\ Cardinality(TakenElsewhere) \in Nat
<1>1. IsFiniteSet(DOMAIN orders) /\ IsFiniteSet(1 .. Quantity)
  BY OrderTypes, FS_Interval
<1>2. IsFiniteSet(Units)
  BY <1>1, FS_Product DEF Units
<1>3. /\ InOrders \subseteq Units /\ StillOpen \subseteq Units
      /\ Taken \subseteq Units /\ TakenElsewhere \subseteq Units
  BY DEF InOrders, StillOpen, Taken, TakenElsewhere
<1>4. \A U \in SUBSET Units : IsFiniteSet(U) /\ Cardinality(U) \in Nat
  BY <1>2, FS_Subset, FS_CardinalityType
<1> QED BY <1>2, <1>3, <1>4

\* A unit is bought or open, not both.
LEMMA TakenSplit ==
  ASSUME EntryTypes
  PROVE  Cardinality(Taken) = Cardinality(InOrders) + Cardinality(StillOpen)
<1>1. InOrders \cap StillOpen = {}
  BY OrderTypes DEF InOrders, StillOpen, Units
<1> QED BY <1>1, UnitsFinite, DisjointCount, Zenon DEF Taken

\* The units of one order, up to a number.
FirstUnits(i, n) == {i} \X (1 .. n)

LEMMA FirstUnitsCount ==
  ASSUME NEW i, NEW n \in Nat
  PROVE  IsFiniteSet(FirstUnits(i, n)) /\ Cardinality(FirstUnits(i, n)) = n
<1>1. IsFiniteSet({i}) /\ Cardinality({i}) = 1
  BY FS_Singleton
<1>2. IsFiniteSet(1 .. n) /\ Cardinality(1 .. n) = n
  <2>1. /\ IsFiniteSet(1 .. n)
        /\ Cardinality(1 .. n) = IF 1 > n THEN 0 ELSE n - 1 + 1
    <3>1. 1 \in Int /\ n \in Int
      OBVIOUS
    <3> QED BY <3>1, FS_Interval, Zenon
  <2> QED BY <2>1
<1> QED BY <1>1, <1>2, FS_Product DEF FirstUnits

\* The order that the client knows has at most one quantity of what is taken, and
\* its fills once it is over.
LEMMA OwnUnits ==
  ASSUME EntryTypes, Shaped, id \in DOMAIN orders
  PROVE  /\ Exposure <= Elsewhere + Quantity
         /\ ~Live(id) => Exposure = Elsewhere + orders[id].filled
         /\ orders[id].filled <= Cardinality(InOrders)
<1> DEFINE n == IF Live(id) THEN Quantity ELSE orders[id].filled
<1>1. n \in 0 .. Quantity /\ orders[id].filled \in Nat
  BY OrderTypes
<1>2. Taken = TakenElsewhere \cup FirstUnits(id, n)
  BY OrderTypes DEF Taken, TakenElsewhere, FirstUnits, InOrders, StillOpen, Units, Live
<1>3. TakenElsewhere \cap FirstUnits(id, n) = {}
  BY DEF TakenElsewhere, FirstUnits
<1>4. IsFiniteSet(FirstUnits(id, n)) /\ Cardinality(FirstUnits(id, n)) = n
  BY <1>1, FirstUnitsCount
<1>5. Cardinality(Taken) = Cardinality(TakenElsewhere) + n
  <2>1. Cardinality(Taken) = Cardinality(TakenElsewhere) + Cardinality(FirstUnits(id, n))
    BY <1>2, <1>3, <1>4, UnitsFinite, DisjointCount, Zenon
  <2> QED BY <1>4, <2>1
<1>6. orders[id].filled <= Cardinality(InOrders)
  <2>1. FirstUnits(id, orders[id].filled) \subseteq InOrders
    BY OrderTypes DEF FirstUnits, InOrders, Units
  <2>2. Cardinality(FirstUnits(id, orders[id].filled)) = orders[id].filled
    BY <1>1, FirstUnitsCount
  <2> QED BY <2>1, <2>2, UnitsFinite, FS_Subset
<1>7. market \in Nat
  BY DEF EntryTypes
<1> QED BY <1>1, <1>5, <1>6, <1>7, UnitsFinite DEF Exposure, Elsewhere, Live

-----------------------------------------------------------------------------
(* What a step does to the orders.                                         *)

\* Live orders get fills or end; nothing else changes.
Settles ==
    /\ orders' \in Seq(Order) /\ Len(orders') = Len(orders)
    /\ \A i \in DOMAIN orders :
         /\ orders[i].filled <= orders'[i].filled
         /\ ~Live(i) => orders'[i] = orders[i]
         /\ ~Live(i) => ~Live(i)'
    /\ Shaped'

\* The numbers that follow.
Settled ==
    /\ Cardinality(Taken') \in Nat /\ Cardinality(InOrders') \in Nat
    /\ Cardinality(TakenElsewhere') \in Nat
    /\ Cardinality(Taken') <= Cardinality(Taken)
    /\ id' = id => Cardinality(TakenElsewhere') <= Cardinality(TakenElsewhere)
    /\ Cardinality(InOrders) <= Cardinality(InOrders')

LEMMA SettlesCount ==
  ASSUME EntryTypes, Settles
  PROVE  Settled
<1>1. DOMAIN orders' = DOMAIN orders
  BY OrderTypes DEF Settles
<1>2. \A i \in DOMAIN orders : orders[i].filled \in Nat /\ orders'[i].filled \in Nat
  <2>1. \A i \in DOMAIN orders : orders'[i] \in Order
    BY <1>1 DEF Settles
  <2> QED BY <2>1, OrderTypes DEF Order
<1>3. Units' = Units
  BY <1>1 DEF Units
<1>4. InOrders \subseteq InOrders'
  BY <1>2, <1>3 DEF InOrders, Settles, Units
<1>5. Taken' \subseteq Taken
  <2> SUFFICES ASSUME NEW u \in Taken' PROVE u \in Taken
    OBVIOUS
  <2>1. u \in Units /\ u[1] \in DOMAIN orders /\ u[2] \in 1 .. Quantity
    BY <1>3 DEF Taken, InOrders, StillOpen, Units
  <2>2. CASE Live(u[1])
    BY <1>2, <2>1, <2>2 DEF Taken, InOrders, StillOpen
  <2>3. CASE ~Live(u[1])
    <3>1. u[2] <= orders[u[1]].filled
      BY <1>3, <2>1, <2>3 DEF Taken, InOrders, StillOpen, Settles
    <3> QED BY <2>1, <3>1 DEF Taken, InOrders
  <2> QED BY <2>2, <2>3
<1>6. id' = id => TakenElsewhere' \subseteq TakenElsewhere
  BY <1>5 DEF TakenElsewhere
<1>7. \A U \in SUBSET Taken : /\ IsFiniteSet(U) /\ Cardinality(U) \in Nat
                              /\ Cardinality(U) <= Cardinality(Taken)
  BY UnitsFinite, FS_Subset, FS_CardinalityType
<1>8. \A U \in SUBSET TakenElsewhere : Cardinality(U) <= Cardinality(TakenElsewhere)
  BY UnitsFinite, FS_Subset
<1>9. TakenElsewhere' \subseteq Taken' /\ InOrders' \subseteq Taken'
  BY DEF TakenElsewhere, Taken
<1>10. Cardinality(InOrders) <= Cardinality(InOrders')
  <2>1. IsFiniteSet(InOrders')
    BY <1>5, <1>7, <1>9
  <2> QED BY <1>4, <2>1, FS_Subset
<1> QED BY <1>5, <1>6, <1>7, <1>8, <1>9, <1>10 DEF Settled

LEMMA SameSettles ==
  ASSUME EntryTypes, Shaped, UNCHANGED orders
  PROVE  Settles
  BY OrderTypes DEF Settles, Shaped, Live

LEMMA ExceptSettles ==
  ASSUME EntryTypes, Shaped, NEW i \in DOMAIN orders, Live(i),
         NEW o \in Order, orders[i].filled <= o.filled,
         o.status = "filled" <=> o.filled = Quantity,
         orders' = [orders EXCEPT ![i] = o]
  PROVE  Settles
<1>1. /\ orders' \in Seq(Order) /\ Len(orders') = Len(orders)
      /\ DOMAIN orders' = DOMAIN orders
  BY OrderTypes
<1>2. \A k \in DOMAIN orders : orders'[k] = IF k = i THEN o ELSE orders[k]
  BY OrderTypes
<1>3. \A k \in DOMAIN orders : orders[k].filled <= orders[k].filled
  BY OrderTypes
<1> QED BY <1>1, <1>2, <1>3 DEF Settles, Shaped, Live

LEMMA EndSettles ==
  ASSUME EntryTypes, Shaped, NEW i \in DOMAIN orders, Live(i),
         orders' = [orders EXCEPT ![i].status = "ended"]
  PROVE  Settles /\ ~Live(i)'
<1> DEFINE o == [orders[i] EXCEPT !.status = "ended"]
<1>1. orders[i] \in Order /\ orders[i].filled \in Nat
  BY OrderTypes
<1>2. o \in Order /\ o.filled = orders[i].filled /\ o.status = "ended"
  BY <1>1 DEF Order
<1>3. orders[i].filled # Quantity
  BY DEF Shaped, Live
<1>4. orders' = [orders EXCEPT ![i] = o]
  BY OrderTypes
<1>5. Settles
  <2>1. orders[i].filled <= o.filled /\ (o.status = "filled" <=> o.filled = Quantity)
    BY <1>1, <1>2, <1>3
  <2>2. o \in Order
    BY <1>2
  <2> HIDE DEF o
  <2> QED BY <1>4, <2>1, <2>2, ExceptSettles, Zenon
<1>6. ~Live(i)'
  BY <1>2, <1>4, OrderTypes DEF Live
<1> QED BY <1>5, <1>6

LEMMA FillSettles ==
  ASSUME EntryTypes, Shaped, NEW i \in DOMAIN orders, Live(i),
         orders' = [orders EXCEPT ![i] = Filling(@)]
  PROVE  Settles
<1> DEFINE o == Filling(orders[i])
<1>1. orders[i].filled \in 0 .. Quantity /\ orders[i].filled # Quantity
  BY OrderTypes DEF Shaped, Live
<1>2. /\ o \in Order
      /\ orders[i].filled <= o.filled
      /\ o.status = "filled" <=> o.filled = Quantity
  BY <1>1 DEF Order, Filling
<1>3. orders' = [orders EXCEPT ![i] = o]
  BY OrderTypes
<1> HIDE DEF o
<1> QED BY <1>2, <1>3, ExceptSettles

\* A new order takes one quantity.
LEMMA AcceptedAdds ==
  ASSUME EntryTypes, Shaped, Accepted
  PROVE  /\ orders' \in Seq(Order) /\ Len(orders') = Len(orders) + 1
         /\ Shaped'
         /\ Len(orders') \in DOMAIN orders'
         /\ market' = market
         /\ Cardinality(Taken') = Cardinality(Taken) + Quantity
         /\ id' = Len(orders') => Cardinality(TakenElsewhere') = Cardinality(Taken)
         /\ Cardinality(InOrders') \in Nat
         /\ Cardinality(InOrders) <= Cardinality(InOrders')
         /\ orders'[Len(orders')].status \in {"live", "filled"}
         /\ orders'[Len(orders')].status = "filled"
              => Quantity <= Cardinality(InOrders')
<1> DEFINE n == Len(orders) + 1
<1>1. PICK o \in Order : /\ orders' = Append(orders, o)
                         /\ o \in {[filled |-> 0, status |-> "live"],
                                   [filled |-> Quantity, status |-> "filled"]}
  BY DEF Accepted, Order
<1>2. n \in Nat /\ n \notin DOMAIN orders
  BY OrderTypes
<1>3. /\ orders' \in Seq(Order) /\ Len(orders') = n /\ DOMAIN orders' = 1 .. n
      /\ orders'[n] = o
      /\ \A i \in DOMAIN orders : orders'[i] = orders[i]
  BY <1>1, OrderTypes
<1>4. DOMAIN orders' = DOMAIN orders \cup {n}
  BY <1>2, <1>3, OrderTypes
<1>5. o.status = "live" \/ (o.status = "filled" /\ o.filled = Quantity)
  BY <1>1
<1>6. Shaped'
  BY <1>1, <1>3, <1>4 DEF Shaped
<1>7. /\ Taken' = Taken \cup FirstUnits(n, Quantity)
      /\ Taken \cap FirstUnits(n, Quantity) = {}
  <2>1. \A i \in DOMAIN orders, k \in 1 .. Quantity :
           (<<i, k>> \in Taken') <=> (<<i, k>> \in Taken)
    BY <1>3, <1>4 DEF Taken, InOrders, StillOpen, Units, Live
  <2>2. \A k \in 1 .. Quantity : <<n, k>> \in Taken'
    <3>1. \A k \in 1 .. Quantity : <<n, k>> \in Units'
      BY <1>4 DEF Units
    <3>2. o.filled \in 0 .. Quantity
      BY DEF Order
    <3> QED BY <1>3, <1>5, <3>1, <3>2 DEF Taken, InOrders, StillOpen, Live
  <2>3. Taken' \subseteq (DOMAIN orders \cup {n}) \X (1 .. Quantity)
    BY <1>4 DEF Taken, InOrders, StillOpen, Units
  <2>4. Taken \subseteq (DOMAIN orders) \X (1 .. Quantity)
    BY DEF Taken, InOrders, StillOpen, Units
  <2> HIDE DEF n
  <2> QED BY <1>2, <2>1, <2>2, <2>3, <2>4 DEF FirstUnits
<1>8. Cardinality(Taken') = Cardinality(Taken) + Quantity
  <2>1. /\ IsFiniteSet(FirstUnits(n, Quantity))
        /\ Cardinality(FirstUnits(n, Quantity)) = Quantity
    BY FirstUnitsCount
  <2>2. Cardinality(Taken \cup FirstUnits(n, Quantity))
          = Cardinality(Taken) + Cardinality(FirstUnits(n, Quantity))
    BY <1>7, <2>1, UnitsFinite, DisjointCount, Zenon
  <2> QED BY <1>7, <2>1, <2>2
<1>9. id' = n => TakenElsewhere' = Taken
  <2>1. \A u \in Taken : u[1] # n
    BY <1>2 DEF Taken, InOrders, StillOpen, Units
  <2>2. \A u \in FirstUnits(n, Quantity) : u[1] = n
    BY DEF FirstUnits
  <2> HIDE DEF n
  <2> QED BY <1>7, <2>1, <2>2 DEF TakenElsewhere
<1>10. /\ Cardinality(InOrders') \in Nat
       /\ Cardinality(InOrders) <= Cardinality(InOrders')
       /\ o.status = "filled" => Quantity <= Cardinality(InOrders')
  <2>1. InOrders \subseteq InOrders'
    BY <1>3, <1>4 DEF InOrders, Units
  <2>2. IsFiniteSet(FirstUnits(n, Quantity))
    BY FirstUnitsCount
  <2>3. IsFiniteSet(Taken')
    BY <1>7, <2>2, UnitsFinite, FS_Union, Zenon
  <2>4. InOrders' \subseteq Taken'
    BY DEF Taken
  <2>5. IsFiniteSet(InOrders')
    BY <2>3, <2>4, FS_Subset
  <2>6. o.status = "filled" => Quantity <= Cardinality(InOrders')
    <3> SUFFICES ASSUME o.status = "filled" PROVE Quantity <= Cardinality(InOrders')
      OBVIOUS
    <3>1. FirstUnits(n, Quantity) \subseteq InOrders'
      <4>1. o.filled = Quantity
        BY <1>5
      <4> QED BY <1>3, <1>4, <4>1 DEF FirstUnits, InOrders, Units
    <3>2. Cardinality(FirstUnits(n, Quantity)) = Quantity
      BY FirstUnitsCount
    <3> QED BY <2>5, <3>1, <3>2, FS_Subset
  <2> QED BY <2>1, <2>5, <2>6, FS_Subset, FS_CardinalityType
<1>11. n \in DOMAIN orders' /\ market' = market
  BY <1>2, <1>3 DEF Accepted
<1> QED BY <1>3, <1>5, <1>6, <1>8, <1>9, <1>10, <1>11

-----------------------------------------------------------------------------
(* The invariant.                                                          *)

LEMMA Numbers ==
  ASSUME EntryTypes
  PROVE  /\ Exposure \in Nat /\ Elsewhere \in Nat /\ TotalBought \in Nat
         /\ Excess \in Nat /\ Quantity \in Nat \ {0}
<1>1. Excess \in Nat
  <2>1. faults \in Nat /\ Quantity \in Nat
    BY DEF EntryTypes
  <2> QED BY <2>1 DEF Excess
<1>2. market \in Nat
  BY DEF EntryTypes
<1> QED BY <1>1, <1>2, UnitsFinite DEF Exposure, Elsewhere, TotalBought

LEMMA ExcessNext ==
  ASSUME EntryTypes
  PROVE  /\ faults' = faults /\ banShared' = banShared => Excess' = Excess
         /\ faults' = faults + 1 /\ banShared' = banShared => Excess' = Excess + Quantity
         /\ faults' = faults /\ banShared' /\ ~banShared => Excess' = Excess + Quantity
<1> DEFINE others == IF banShared THEN 1 ELSE 0
<1>1. faults \in Nat /\ Quantity \in Nat /\ others \in Nat
  BY DEF EntryTypes
<1>2. (faults + others + 1) * Quantity = (faults + others) * Quantity + Quantity
  <2> HIDE DEF others
  <2> QED BY <1>1
<1>3. Excess = (faults + others) * Quantity
  BY DEF Excess
<1>4. /\ banShared' = banShared => Excess' = (faults' + others) * Quantity
      /\ banShared' /\ ~banShared => others = 0 /\ Excess' = (faults' + 1) * Quantity
  BY DEF Excess
<1>5. ASSUME faults' = faults + 1 PROVE faults' + others = faults + others + 1
  <2> HIDE DEF others
  <2> QED BY <1>1, <1>5
<1> QED BY <1>1, <1>2, <1>3, <1>4, <1>5

LEMMA LessStillFits ==
  ASSUME NEW a \in Nat, NEW b \in Nat, NEW q \in Nat, NEW n \in Nat,
         b <= a, a + q <= n
  PROVE  b + q <= n
  OBVIOUS

LEMMA RoomForOneMore ==
  ASSUME NEW a \in Nat, NEW b \in Nat, NEW q \in Nat, NEW n \in Nat, NEW m,
         b <= a, a <= n, m = n + q
  PROVE  b + q <= m /\ b <= m
  OBVIOUS

LEMMA RoomForBoth ==
  ASSUME NEW a \in Nat, NEW b \in Nat, NEW q \in Nat, NEW n \in Nat, NEW m,
         b <= a + q, a + q <= n, m = n + q
  PROVE  b + q <= m
  OBVIOUS

LEMMA RoomKept ==
  ASSUME NEW a \in Nat, NEW b \in Nat, NEW c \in Nat, NEW d \in Nat, NEW q \in Nat,
         NEW n \in Nat, NEW m \in Nat,
         c <= a, d <= b, b <= n, a <= b + q, n <= m
  PROVE  d <= m /\ c <= m + q /\ c <= b + q
  OBVIOUS

LEMMA FillsCounted ==
  ASSUME NEW a \in Nat, NEW b \in Nat, NEW c \in Nat, NEW q \in Nat, NEW k \in Nat,
         NEW n \in Nat, NEW m \in Nat,
         c <= a, c <= b + q, b <= n,
         \/ m = n + q
         \/ m = n /\ b + q <= n
         \/ m = n /\ a = b + k
  PROVE  c <= m + k
  OBVIOUS

LEMMA RoomForRest ==
  ASSUME NEW a \in Nat, NEW b \in Nat, NEW c \in Nat, NEW q \in Nat, NEW n \in Nat,
         NEW k \in Nat, k <= q, c <= q - k, b <= a + c, a <= n + k
  PROVE  b <= n + q
  OBVIOUS

LEMMA OwnBought ==
  ASSUME EntryTypes, Shaped, id \in DOMAIN orders
  PROVE  orders[id].filled \in Nat /\ orders[id].filled <= TotalBought
<1>1. /\ orders[id].filled \in Nat /\ market \in Nat /\ Cardinality(InOrders) \in Nat
  BY OrderTypes, UnitsFinite DEF EntryTypes
<1>2. orders[id].filled <= Cardinality(InOrders)
  BY OwnUnits
<1> QED BY <1>1, <1>2 DEF TotalBought

\* While orders only settle, what is bought and taken is as before.
LEMMA Settling ==
  ASSUME EntryInv, Settles, market' \in Nat, NEW bought \in Nat,
         market' = market + bought
  PROVE  /\ Exposure' \in Nat /\ Elsewhere' \in Nat /\ TotalBought' \in Nat
         /\ Exposure' <= Exposure + bought
         /\ id' = id => Elsewhere' <= Elsewhere + bought
         /\ TotalBought + bought <= TotalBought'
         /\ orders' \in Seq(Order) /\ Len(orders') = Len(orders)
         /\ DOMAIN orders' = DOMAIN orders
         /\ \A i \in DOMAIN orders :
              /\ orders[i].filled \in Nat /\ orders'[i].filled \in Nat
              /\ orders[i].filled <= orders'[i].filled
              /\ Live(i)' => Live(i)
         /\ Shaped'
<1>1. EntryTypes /\ market \in Nat
  BY DEF EntryInv, EntryTypes
<1>2. Settled
  BY <1>1, SettlesCount
<1>3. DOMAIN orders' = DOMAIN orders
  BY <1>1, OrderTypes DEF Settles
<1>4. \A i \in DOMAIN orders : orders[i].filled \in Nat /\ orders'[i].filled \in Nat
  <2>1. \A i \in DOMAIN orders : orders'[i] \in Order
    BY <1>3 DEF Settles
  <2> QED BY <1>1, <2>1, OrderTypes DEF Order
<1>5. /\ Exposure' \in Nat /\ Elsewhere' \in Nat /\ TotalBought' \in Nat
      /\ Exposure' <= Exposure + bought
      /\ id' = id => Elsewhere' <= Elsewhere + bought
      /\ TotalBought + bought <= TotalBought'
  <2>1. /\ Cardinality(Taken) \in Nat /\ Cardinality(TakenElsewhere) \in Nat
        /\ Cardinality(InOrders) \in Nat
    BY <1>1, UnitsFinite
  <2> QED BY <1>1, <1>2, <2>1 DEF Settled, Exposure, Elsewhere, TotalBought
<1>6. \A i \in DOMAIN orders :
        /\ orders[i].filled <= orders'[i].filled
        /\ Live(i)' => Live(i)
  BY DEF Settles
<1>7. Shaped' /\ orders' \in Seq(Order) /\ Len(orders') = Len(orders)
  BY DEF Settles
<1> QED BY <1>3, <1>4, <1>5, <1>6, <1>7

LEMMA EntryInitInv == EntryInit => EntryInv
<1> SUFFICES ASSUME EntryInit PROVE EntryInv
  OBVIOUS
<1>1. EntryTypes
  <2>1. orders \in Seq([filled : 0 .. Quantity, status : {"live", "filled", "ended"}])
        /\ Len(orders) = 0
    BY DEF EntryInit
  <2>2. /\ market \in Nat /\ attempt \in 0 .. MaxRetries /\ polls \in 0 .. MaxPolls
        /\ id \in 0 .. Len(orders) /\ executed \in 0 .. Quantity
        /\ reported \in 0 .. Quantity /\ faults \in 0 .. MaxFaults
    BY <2>1 DEF EntryInit
  <2>3. /\ pc \in Calls \cup {"done", "failed"} /\ limited \in BOOLEAN
        /\ banShared \in BOOLEAN
    BY DEF EntryInit, Calls
  <2> QED BY <2>1, <2>2, <2>3, Zenon DEF EntryTypes
<1>2. Exposure = 0 /\ Excess = 0
  <2>1. Taken = {}
    BY DEF EntryInit, Taken, InOrders, StillOpen, Units
  <2>2. Cardinality(Taken) = 0
    BY <2>1, FS_EmptySet, Zenon
  <2> QED BY <2>2 DEF EntryInit, Exposure, Excess
<1> QED BY <1>1, <1>2 DEF EntryInit, EntryInv, Shaped, Known, Room, Faulted, Told

\* The exchange on its own, and the end of a pause.
LEMMA ExchangeInv ==
  ASSUME EntryInv, Settles, UNCHANGED <<market, client, faults, banShared>>,
         limited' \in {limited, FALSE}
  PROVE  EntryInv'
<1>1. EntryTypes /\ market \in Nat
  BY DEF EntryInv, EntryTypes
<1>2. /\ Exposure' <= Exposure /\ Elsewhere' <= Elsewhere /\ TotalBought <= TotalBought'
      /\ Exposure' \in Nat /\ Elsewhere' \in Nat /\ TotalBought' \in Nat
      /\ orders' \in Seq(Order) /\ Len(orders') = Len(orders)
      /\ DOMAIN orders' = DOMAIN orders
      /\ \A i \in DOMAIN orders :
           /\ orders[i].filled \in Nat /\ orders'[i].filled \in Nat
           /\ orders[i].filled <= orders'[i].filled
           /\ Live(i)' => Live(i)
      /\ Shaped'
  <2>1. 0 \in Nat /\ market' = market + 0 /\ market' \in Nat /\ id' = id
    BY <1>1 DEF client
  <2>2. Exposure \in Nat /\ Elsewhere \in Nat /\ TotalBought \in Nat
    BY <1>1, Numbers
  <2>3. /\ Exposure' <= Exposure + 0 /\ Elsewhere' <= Elsewhere + 0
        /\ TotalBought + 0 <= TotalBought'
        /\ Exposure' \in Nat /\ Elsewhere' \in Nat /\ TotalBought' \in Nat
    BY <2>1, Settling
  <2>4. /\ orders' \in Seq(Order) /\ Len(orders') = Len(orders)
        /\ DOMAIN orders' = DOMAIN orders
        /\ \A i \in DOMAIN orders :
             /\ orders[i].filled \in Nat /\ orders'[i].filled \in Nat
             /\ orders[i].filled <= orders'[i].filled
             /\ Live(i)' => Live(i)
        /\ Shaped'
    BY <2>1, Settling
  <2> QED BY <2>2, <2>3, <2>4
<1>3. EntryTypes'
  <2>1. orders' \in Seq([filled : 0 .. Quantity, status : {"live", "filled", "ended"}])
    BY <1>2, Zenon DEF Order
  <2> QED BY <1>1, <1>2, <2>1 DEF EntryTypes, client
<1>4. Known'
  <2>1. executed \in Nat /\ Known
    BY <1>1 DEF EntryTypes, EntryInv
  <2> QED BY <1>2, <2>1 DEF Known, client
<1>5. Room'
  <2>1. Excess' = Excess /\ Excess \in Nat /\ Exposure \in Nat /\ Elsewhere \in Nat
    BY <1>1, ExcessNext, Numbers
  <2>2. Room /\ Known /\ executed \in Nat /\ Quantity \in Nat
    BY <1>1 DEF EntryInv, EntryTypes
  <2>3a. pc' = pc /\ id' = id /\ executed' = executed
    BY DEF client
  <2>3b. limited' => limited
    OBVIOUS
  <2>3. pc' = pc /\ id' = id /\ executed' = executed /\ (limited' => limited)
    BY <2>3a, <2>3b
  <2>4. pc = "confirm" => (Live(id)' => Live(id))
    BY <1>2, <2>2, <2>3a DEF Known, Live
  <2>6. pc \in {"place", "fallback"} => Exposure' <= Excess
    BY <1>2, <2>1, <2>2 DEF Room
  <2>7. pc \in {"poll", "cancel", "confirm"} =>
          /\ Elsewhere' <= Excess
          /\ Warned' \/ (pc = "confirm" /\ Live(id)') => Elsewhere' + Quantity <= Excess
    <3> SUFFICES ASSUME pc \in {"poll", "cancel", "confirm"}
                 PROVE  /\ Elsewhere' <= Excess
                        /\ Warned' \/ (pc = "confirm" /\ Live(id)')
                             => Elsewhere' + Quantity <= Excess
      OBVIOUS
    <3>1. /\ Elsewhere <= Excess
          /\ Warned \/ (pc = "confirm" /\ Live(id)) => Elsewhere + Quantity <= Excess
      BY <2>2 DEF Room
    <3>2. Warned' \/ (pc = "confirm" /\ Live(id)')
            => Warned \/ (pc = "confirm" /\ Live(id))
      BY <2>3, <2>4 DEF Warned
    <3>3. Elsewhere + Quantity <= Excess => Elsewhere' + Quantity <= Excess
      <4>1. /\ Elsewhere' \in Nat /\ Elsewhere' <= Elsewhere
            /\ Elsewhere \in Nat /\ Quantity \in Nat /\ Excess \in Nat
        BY <1>2, <2>1, <2>2, Zenon
      <4> QED BY <4>1, LessStillFits
    <3>4. Elsewhere' <= Excess
      BY <1>2, <2>1, <3>1
    <3> QED BY <3>1, <3>2, <3>3, <3>4, Zenon
  <2>8. pc = "market" => Exposure' <= Excess + executed /\ (banShared' => Exposure' <= Excess)
    BY <1>2, <2>1, <2>2 DEF Room
  <2>10. pc = "place" /\ banShared' => Exposure' + Quantity <= Excess
    <3>1. pc = "place" /\ banShared' => Exposure + Quantity <= Excess
      BY <2>2 DEF Room
    <3> QED BY <1>2, <2>1, <2>2, <3>1, LessStillFits
  <2>9. pc \in {"done", "failed"} => Exposure' <= Excess + Quantity
    BY <1>2, <2>1, <2>2 DEF Room
  <2> QED BY <2>1, <2>3, <2>6, <2>7, <2>8, <2>9, <2>10 DEF Room
<1>6. Faulted' /\ Told'
  <2>1. Faulted /\ Told /\ TotalBought \in Nat /\ Quantity \in Nat
    BY <1>1, Numbers DEF EntryInv
  <2>2. limited' => limited
    OBVIOUS
  <2>3. Faulted'
    BY <2>1, <2>2 DEF Faulted, client
  <2>4. Told'
    BY <1>2, <2>1 DEF Told, client
  <2> QED BY <2>3, <2>4
<1> QED BY <1>2, <1>3, <1>4, <1>5, <1>6 DEF EntryInv

-----------------------------------------------------------------------------
(* The calls.                                                              *)

\* A call that is answered or refused in a pause, and one that goes wrong.
Quiet == faults' = faults /\ limited' = limited /\ banShared' = banShared
Wrong ==
    /\ faults' = faults + 1 /\ faults < MaxFaults
    /\ limited' \in BOOLEAN /\ banShared' = banShared

\* The client goes on with call s, or makes the same call again.
OnTo(s) == pc' = s /\ attempt' = 0
Repeated ==
    /\ pc' = pc /\ attempt < MaxRetries /\ attempt' = attempt + 1
    /\ limited' => banShared'

LEMMA CountsNext ==
  ASSUME EntryInv, Quiet \/ Wrong,
         attempt' = 0 \/ Repeated
  PROVE  /\ attempt' \in 0 .. MaxRetries /\ faults' \in 0 .. MaxFaults
         /\ limited' \in BOOLEAN
         /\ limited' => banShared' \/ attempt' = 0
         /\ banShared' = banShared
         /\ Quiet => Excess' = Excess
         /\ Wrong => Excess' = Excess + Quantity /\ faults' # 0
<1>1. EntryTypes /\ limited \in BOOLEAN /\ faults \in 0 .. MaxFaults
  BY DEF EntryInv, EntryTypes
<1>2. attempt \in 0 .. MaxRetries
  BY <1>1 DEF EntryTypes
<1>3. attempt' \in 0 .. MaxRetries /\ faults' \in 0 .. MaxFaults
  BY <1>1, <1>2 DEF Quiet, Wrong, Repeated
<1>4. limited' \in BOOLEAN
  BY <1>1 DEF Quiet, Wrong
<1>5. (limited' => banShared' \/ attempt' = 0) /\ banShared' = banShared
  BY DEF Repeated, Quiet, Wrong
<1>6. Quiet => Excess' = Excess
  BY <1>1, ExcessNext DEF Quiet
<1>7. Wrong => Excess' = Excess + Quantity /\ faults' # 0
  BY <1>1, ExcessNext DEF Wrong
<1> QED BY <1>3, <1>4, <1>5, <1>6, <1>7

\* What holds after any call that leaves the orders to settle.
Changed(bought) ==
    /\ Settles /\ market' = market + bought /\ id' = id
    /\ Quiet \/ Wrong
    /\ attempt' = 0 \/ Repeated
    /\ pc' \in Calls \cup {"done", "failed"}
    /\ polls' \in 0 .. MaxPolls
    /\ executed' \in 0 .. Quantity
    /\ reported' \in 0 .. Quantity

LEMMA ChangedTypes ==
  ASSUME EntryInv, NEW bought \in Nat, Changed(bought)
  PROVE  EntryTypes' /\ Shaped' /\ DOMAIN orders' = DOMAIN orders
<1>1. market \in Nat /\ market' \in Nat
  BY DEF EntryInv, EntryTypes, Changed
<1>2. /\ orders' \in Seq(Order) /\ Len(orders') = Len(orders)
      /\ DOMAIN orders' = DOMAIN orders /\ Shaped'
  BY <1>1, Settling DEF Changed
<1>3. orders' \in Seq([filled : 0 .. Quantity, status : {"live", "filled", "ended"}])
  BY <1>2, Zenon DEF Order
<1>4. id' \in 0 .. Len(orders')
  BY <1>2 DEF Changed, EntryInv, EntryTypes
<1>5. attempt' \in 0 .. MaxRetries /\ faults' \in 0 .. MaxFaults /\ limited' \in BOOLEAN
      /\ banShared' \in BOOLEAN
  BY CountsNext DEF Changed, EntryInv, EntryTypes
<1>6. EntryTypes'
  BY <1>1, <1>3, <1>4, <1>5 DEF EntryTypes, Changed
<1> QED BY <1>2, <1>6

LEMMA ChangedNumbers ==
  ASSUME EntryInv, NEW bought \in Nat, Changed(bought)
  PROVE  /\ Exposure \in Nat /\ Elsewhere \in Nat /\ TotalBought \in Nat
         /\ Exposure' \in Nat /\ Elsewhere' \in Nat /\ TotalBought' \in Nat
         /\ Exposure' <= Exposure + bought
         /\ Elsewhere' <= Elsewhere + bought
         /\ TotalBought + bought <= TotalBought'
         /\ Excess \in Nat /\ Quantity \in Nat
         /\ Quiet => Excess' = Excess
         /\ Wrong => Excess' = Excess + Quantity
<1>1. market \in Nat /\ market' \in Nat /\ EntryTypes
  BY DEF EntryInv, EntryTypes, Changed
<1>2. /\ Exposure' \in Nat /\ Elsewhere' \in Nat /\ TotalBought' \in Nat
      /\ Exposure' <= Exposure + bought
      /\ Elsewhere' <= Elsewhere + bought
      /\ TotalBought + bought <= TotalBought'
  BY <1>1, Settling DEF Changed
<1>3. (Quiet => Excess' = Excess) /\ (Wrong => Excess' = Excess + Quantity)
  BY CountsNext DEF Changed
<1> QED BY <1>1, <1>2, <1>3, Numbers

\* A call goes on or goes wrong; the fallback without a fault follows a ban.
LEMMA FaultedNext ==
  ASSUME EntryInv,
         \/ (Quiet \/ Wrong) /\ attempt' = 0
         \/ Wrong /\ Repeated,
         Quiet /\ faults = 0 /\ ~limited /\ ~banShared => pc' \notin {"fallback", "failed"},
         pc' = "market" /\ limited' => banShared' \/ executed' = 0
  PROVE  Faulted'
<1>1. faults \in 0 .. MaxFaults /\ Faulted
  BY DEF EntryInv, EntryTypes
<1>2. faults' = 0 => Quiet /\ faults = 0 /\ attempt' = 0
  BY <1>1 DEF Quiet, Wrong
<1>3. faults' = 0 /\ ~banShared' => ~limited' /\ pc' \notin {"fallback", "failed"}
  BY <1>1, <1>2 DEF Quiet, Faulted
<1>4. limited' => banShared' \/ (attempt' = 0 /\ (pc' = "market" => executed' = 0))
  BY DEF Repeated
<1> QED BY <1>2, <1>3, <1>4 DEF Faulted

LEMMA PollInv == ASSUME EntryInv, Poll, UNCHANGED banShared PROVE EntryInv'
<1>1. EntryTypes /\ Known /\ Room /\ Faulted /\ Told /\ Shaped
  BY DEF EntryInv
<1>2. /\ pc = "poll" /\ id \in DOMAIN orders /\ polls < MaxPolls
      /\ UNCHANGED <<orders, market, id, executed>>
  BY <1>1 DEF Poll, Waiting, Known, Fails, Banned, SendFails, ResponseFails, Asked,
              NextRound, exchange, Goto
<1>3. \/ Quiet /\ OnTo("done") /\ orders[id].status = "filled"
         /\ reported' = Quantity /\ polls' = polls
      \/ Quiet /\ OnTo("cancel") /\ reported' = reported /\ polls' = polls
      \/ (Quiet \/ Wrong) /\ OnTo("poll") /\ reported' = reported /\ polls' = polls + 1
      \/ Wrong /\ Repeated /\ reported' = reported /\ polls' = polls
  <2>1. CASE /\ Answers
             /\ CASE orders[id].status = "filled" ->
                       /\ Goto("done")
                       /\ reported' = Quantity
                       /\ UNCHANGED <<polls, id, executed>>
                  [] orders[id].status = "ended" ->
                       /\ Goto("cancel")
                       /\ UNCHANGED <<polls, id, executed, reported>>
                  [] OTHER -> NextRound
    <3>1. Quiet
      BY <2>1 DEF Answers, Quiet
    <3> QED BY <2>1, <3>1 DEF NextRound, Goto, OnTo
  <2>2. CASE attempt = 0 /\ Banned(NextRound)
    BY <2>2 DEF Banned, NextRound, Goto, OnTo, Quiet
  <2>3. CASE SendFails(Asked, NextRound)
    <3>1. Wrong
      BY <1>1, <2>3 DEF SendFails, Fault, Wrong, EntryTypes
    <3>2. attempt < MaxRetries => Repeated /\ UNCHANGED <<polls, reported>>
      BY <1>1, <2>3 DEF SendFails, Repeated, Faulted
    <3>3. ~(attempt < MaxRetries) => NextRound
      BY <2>3 DEF SendFails
    <3> QED BY <3>1, <3>2, <3>3 DEF NextRound, Goto, OnTo
  <2>4. CASE ResponseFails(Asked, NextRound)
    <3>1. Wrong
      BY <1>1, <2>4 DEF ResponseFails, Fault, Wrong, EntryTypes
    <3> QED BY <2>4, <3>1 DEF ResponseFails, NextRound, Goto, OnTo
  <2> QED BY <2>1, <2>2, <2>3, <2>4 DEF Poll, Fails
<1>4. Changed(0) /\ market \in Nat
  <2>1. Settles
    BY <1>1, <1>2, SameSettles
  <2>2. pc' \in Calls \cup {"done", "failed"}
    BY <1>2, <1>3 DEF OnTo, Repeated, Calls
  <2>3. /\ polls' \in 0 .. MaxPolls /\ executed' \in 0 .. Quantity
        /\ reported' \in 0 .. Quantity
    BY <1>1, <1>2, <1>3 DEF EntryTypes
  <2>4. (Quiet \/ Wrong) /\ (attempt' = 0 \/ Repeated)
    BY <1>3 DEF OnTo
  <2>5. market' = market + 0 /\ market \in Nat
    BY <1>1, <1>2 DEF EntryTypes
  <2> QED BY <1>2, <2>1, <2>2, <2>3, <2>4, <2>5 DEF Changed
<1>5. EntryTypes' /\ Shaped' /\ DOMAIN orders' = DOMAIN orders
  BY <1>4, ChangedTypes
<1>6. Known'
  BY <1>2, <1>3 DEF Known, OnTo, Repeated
<1>7. Room'
  <2>1. /\ Exposure \in Nat /\ Elsewhere \in Nat /\ Exposure' \in Nat /\ Elsewhere' \in Nat
        /\ Exposure' <= Exposure /\ Elsewhere' <= Elsewhere
        /\ Excess \in Nat /\ Quantity \in Nat
        /\ Quiet => Excess' = Excess
        /\ Wrong => Excess' = Excess + Quantity
    BY <1>4, ChangedNumbers
  <2>2. Elsewhere <= Excess /\ (Warned => Elsewhere + Quantity <= Excess)
    BY <1>1, <1>2 DEF Room
  <2>3. CASE OnTo("done") /\ Quiet
    <3>1. Exposure <= Elsewhere + Quantity
      BY <1>1, <1>2, OwnUnits
    <3>2. Exposure' <= Excess' + Quantity
      BY <2>1, <2>2, <2>3, <3>1
    <3> QED BY <2>3, <3>2 DEF Room, OnTo
  <2>4. CASE (OnTo("cancel") \/ OnTo("poll")) /\ Quiet
    <3>1. Excess' = Excess /\ (Warned' <=> Warned)
      BY <2>1, <2>4 DEF Quiet, Warned
    <3>2. Warned' => Elsewhere' + Quantity <= Excess'
      BY <2>1, <2>2, <3>1, LessStillFits
    <3>3. Elsewhere' <= Excess'
      BY <2>1, <2>2, <3>1
    <3> QED BY <2>4, <3>2, <3>3 DEF Room, OnTo
  <2>5. CASE pc' = "poll" /\ Wrong
    <3>1. Elsewhere' + Quantity <= Excess' /\ Elsewhere' <= Excess'
      BY <2>1, <2>2, <2>5, RoomForOneMore
    <3> QED BY <2>5, <3>1 DEF Room
  <2> QED BY <1>2, <1>3, <2>3, <2>4, <2>5 DEF OnTo, Repeated
<1>8. Faulted'
  BY <1>1, <1>2, <1>3, FaultedNext DEF OnTo, Repeated
<1>9. Told'
  <2>1. CASE pc' = "done"
    <3>1. reported' = Quantity /\ orders[id].filled = Quantity
      BY <1>1, <1>2, <1>3, <2>1 DEF OnTo, Repeated, Shaped
    <3>2. Quantity <= TotalBought
      BY <1>1, <1>2, <3>1, OwnUnits, UnitsFinite DEF TotalBought, EntryTypes
    <3>3. TotalBought <= TotalBought' /\ TotalBought \in Nat /\ TotalBought' \in Nat
      BY <1>4, ChangedNumbers
    <3> QED BY <3>1, <3>2, <3>3 DEF Told
  <2>2. CASE pc' # "done"
    BY <2>2 DEF Told
  <2> QED BY <2>1, <2>2
<1> QED BY <1>5, <1>6, <1>7, <1>8, <1>9 DEF EntryInv

\* The room that is left while an order is known, whatever the call did.
LEMMA KnownRoom ==
  ASSUME EntryInv, pc \in {"poll", "cancel", "confirm"}, Changed(0)
  PROVE  /\ Elsewhere' <= Excess'
         /\ Exposure' <= Excess' + Quantity
         /\ Quiet => (Warned => Elsewhere' + Quantity <= Excess')
         /\ Wrong => Elsewhere' + Quantity <= Excess'
         /\ Exposure' <= Elsewhere + Quantity
<1>1. /\ Exposure \in Nat /\ Elsewhere \in Nat /\ Exposure' \in Nat /\ Elsewhere' \in Nat
      /\ Exposure' <= Exposure /\ Elsewhere' <= Elsewhere
      /\ Excess \in Nat /\ Quantity \in Nat
      /\ Quiet => Excess' = Excess
      /\ Wrong => Excess' = Excess + Quantity
  BY ChangedNumbers
<1>2. Elsewhere <= Excess /\ (Warned => Elsewhere + Quantity <= Excess)
  BY DEF EntryInv, Room
<1>3. Exposure <= Elsewhere + Quantity
  BY OwnUnits DEF EntryInv, Known
<1>4. Quiet \/ Wrong
  BY DEF Changed
<1>5. Excess <= Excess' /\ Excess' \in Nat
  BY <1>1, <1>4
<1>6. Elsewhere' <= Excess' /\ Exposure' <= Excess' + Quantity
      /\ Exposure' <= Elsewhere + Quantity
  <2>1. /\ Exposure \in Nat /\ Elsewhere \in Nat /\ Exposure' \in Nat /\ Elsewhere' \in Nat
        /\ Quantity \in Nat /\ Excess \in Nat /\ Excess' \in Nat
        /\ Exposure' <= Exposure /\ Elsewhere' <= Elsewhere
        /\ Elsewhere <= Excess /\ Exposure <= Elsewhere + Quantity /\ Excess <= Excess'
    BY <1>1, <1>2, <1>3, <1>5, Zenon
  <2> QED BY <2>1, RoomKept, Zenon
<1>7. Quiet => (Warned => Elsewhere' + Quantity <= Excess')
  <2> SUFFICES ASSUME Quiet, Warned PROVE Elsewhere' + Quantity <= Excess'
    OBVIOUS
  <2>1. Elsewhere + Quantity <= Excess /\ Excess' = Excess
    BY <1>1, <1>2
  <2> QED BY <1>1, <2>1, LessStillFits
<1>8. Wrong => Elsewhere' + Quantity <= Excess'
  BY <1>1, <1>2, RoomForOneMore
<1> QED BY <1>6, <1>7, <1>8

LEMMA WaitOverInv == ASSUME EntryInv, WaitOver, UNCHANGED banShared PROVE EntryInv'
<1>1. EntryTypes /\ Known /\ Room /\ Faulted /\ Told /\ Shaped
  BY DEF EntryInv
<1>2. /\ pc = "poll" /\ OnTo("cancel") /\ Quiet
      /\ UNCHANGED <<orders, market, polls, id, executed, reported>>
  BY DEF WaitOver, Goto, OnTo, Quiet, exchange
<1>3. Changed(0)
  <2>1. Settles
    BY <1>1, <1>2, SameSettles
  <2> QED BY <1>1, <1>2, <2>1 DEF Changed, OnTo, EntryTypes, Calls
<1>4. EntryTypes' /\ Shaped' /\ DOMAIN orders' = DOMAIN orders
  BY <1>3, ChangedTypes
<1>5. (Warned' <=> Warned) /\ pc' = "cancel" /\ attempt' = 0
  BY <1>2 DEF Quiet, OnTo, Warned
<1>6. Room'
  BY <1>2, <1>3, <1>5, KnownRoom DEF Room
<1>7. Known' /\ Told'
  BY <1>1, <1>2, <1>5 DEF Known, Told
<1>8. Faulted'
  BY <1>2, <1>5, FaultedNext
<1> QED BY <1>4, <1>6, <1>7, <1>8 DEF EntryInv

LEMMA CancelInv == ASSUME EntryInv, Cancel, UNCHANGED banShared PROVE EntryInv'
<1>1. EntryTypes /\ Known /\ Room /\ Faulted /\ Told /\ Shaped
  BY DEF EntryInv
<1>2. pc = "cancel" /\ id \in DOMAIN orders
  BY <1>1 DEF Cancel, Known
<1>3. Cancelled => Settles /\ orders'[id].status # "live" /\ market' = market
  <2> SUFFICES ASSUME Cancelled
               PROVE  Settles /\ orders'[id].status # "live" /\ market' = market
    OBVIOUS
  <2>1. PICK i : i = id
    OBVIOUS
  <2>2. i \in DOMAIN orders /\ Live(i) /\ orders' = [orders EXCEPT ![i].status = "ended"]
    BY <1>2, <2>1 DEF Cancelled
  <2>3. Settles /\ ~Live(i)'
    BY <1>1, <2>2, EndSettles
  <2> QED BY <2>1, <2>3 DEF Cancelled, Live
<1>4. UNCHANGED exchange => Settles /\ market' = market /\ UNCHANGED orders
  BY <1>1, SameSettles DEF exchange
<1>5. /\ UNCHANGED <<polls, id, executed, reported>>
      /\ market' = market /\ Settles
      /\ \/ Quiet /\ OnTo("confirm") /\ ~Live(id)'
         \/ Quiet /\ OnTo("confirm") /\ Warned
         \/ Wrong /\ (OnTo("confirm") \/ Repeated)
  <2>1. CASE Answers /\ Cancelled /\ ToConfirm
    <3>1. Quiet
      BY <2>1 DEF Answers, Quiet
    <3> QED BY <1>3, <2>1, <3>1 DEF ToConfirm, Goto, OnTo, Live
  <2>2. CASE Answers /\ ~Live(id) /\ UNCHANGED exchange /\ ToConfirm
    <3>1. Quiet
      BY <2>2 DEF Answers, Quiet
    <3>2. UNCHANGED <<polls, id, executed, reported>> /\ OnTo("confirm")
      BY <2>2 DEF ToConfirm, Goto, OnTo
    <3>3. ~Live(id)'
      BY <1>4, <2>2, <3>2 DEF Live
    <3> QED BY <1>4, <2>2, <3>1, <3>2, <3>3
  <2>3. CASE attempt = 0 /\ Banned(ToConfirm)
    BY <1>4, <2>3 DEF Banned, ToConfirm, Goto, OnTo, Quiet, Warned
  <2>4. CASE SendFails(Cancelled, ToConfirm)
    <3>1. Wrong
      BY <1>1, <2>4 DEF SendFails, Fault, Wrong, EntryTypes
    <3>2. Settles /\ market' = market
      BY <1>3, <1>4, <2>4 DEF SendFails
    <3>3. attempt < MaxRetries => Repeated /\ UNCHANGED <<polls, id, executed, reported>>
      BY <1>1, <2>4 DEF SendFails, Repeated, Faulted
    <3>4. ~(attempt < MaxRetries) => ToConfirm
      BY <2>4 DEF SendFails
    <3> QED BY <3>1, <3>2, <3>3, <3>4 DEF ToConfirm, Goto, OnTo
  <2>5. CASE ResponseFails(Cancelled, ToConfirm)
    <3>1. Wrong
      BY <1>1, <2>5 DEF ResponseFails, Fault, Wrong, EntryTypes
    <3>2. Settles /\ market' = market
      BY <1>3, <1>4, <2>5 DEF ResponseFails
    <3> QED BY <2>5, <3>1, <3>2 DEF ResponseFails, ToConfirm, Goto, OnTo
  <2> QED BY <2>1, <2>2, <2>3, <2>4, <2>5 DEF Cancel, Fails
<1>6. Changed(0)
  BY <1>1, <1>2, <1>5 DEF Changed, OnTo, Repeated, EntryTypes, Calls
<1>7. EntryTypes' /\ Shaped' /\ DOMAIN orders' = DOMAIN orders
  BY <1>6, ChangedTypes
<1>8. pc' \in {"cancel", "confirm"}
  BY <1>2, <1>5 DEF OnTo, Repeated
<1>9. Known' /\ Told'
  BY <1>2, <1>5, <1>7, <1>8 DEF Known, Told
<1>10. Room'
  <2>1. CASE Quiet /\ OnTo("confirm") /\ ~Live(id)' /\ ~Warned
    <3>1. pc' = "confirm" /\ ~Warned'
      BY <2>1 DEF OnTo, Quiet, Warned
    <3> QED BY <1>2, <1>6, <2>1, <3>1, KnownRoom DEF Room
  <2>2. CASE (Quiet /\ Warned) \/ Wrong
    BY <1>2, <1>6, <1>8, <2>2, KnownRoom DEF Room
  <2> QED BY <1>5, <2>1, <2>2
<1>11. Faulted'
  BY <1>5, <1>8, FaultedNext DEF OnTo
<1> QED BY <1>7, <1>9, <1>10, <1>11 DEF EntryInv

LEMMA ConfirmInv == ASSUME EntryInv, Confirm, UNCHANGED banShared PROVE EntryInv'
<1>1. EntryTypes /\ Known /\ Room /\ Faulted /\ Told /\ Shaped
  BY DEF EntryInv
<1>2. pc = "confirm" /\ id \in DOMAIN orders
  BY <1>1 DEF Confirm, Known
<1>3. /\ orders[id].filled \in 0 .. Quantity /\ executed \in 0 .. Quantity
      /\ polls \in 0 .. MaxPolls /\ reported \in 0 .. Quantity /\ Quantity \in Nat \ {0}
  BY <1>1, <1>2, OrderTypes DEF EntryTypes
<1>4. UNCHANGED <<orders, market>>
  BY DEF Confirm, Fails, Banned, SendFails, ResponseFails, Asked, exchange
<1>5. \A n \in 0 .. Quantity : Count(n) =>
        /\ executed' = n /\ polls' = polls /\ id' = id /\ attempt' = 0
        /\ \/ n < Quantity /\ pc' = "market" /\ reported' = reported
           \/ n = Quantity /\ pc' = "done" /\ reported' = Quantity
  BY DEF Count, Goto
<1>6. \/ Quiet /\ (limited => banShared) /\ Count(orders[id].filled)
      \/ Quiet /\ limited /\ Count(0)
      \/ Wrong /\ Count(0)
      \/ Wrong /\ Repeated /\ UNCHANGED <<polls, id, executed, reported>>
  <2>1. CASE Answers /\ Asked /\ Count(orders[id].filled)
    <3>1. Quiet /\ (limited => banShared)
      BY <1>1, <2>1 DEF Answers, Quiet, Faulted
    <3> QED BY <2>1, <3>1
  <2>2. CASE attempt = 0 /\ Banned(Count(0))
    BY <2>2 DEF Banned, Quiet
  <2>3. CASE SendFails(Asked, Count(0))
    <3>1. Wrong
      BY <1>1, <2>3 DEF SendFails, Fault, Wrong, EntryTypes
    <3>2. attempt < MaxRetries => Repeated /\ UNCHANGED <<polls, id, executed, reported>>
      BY <1>1, <2>3 DEF SendFails, Repeated, Faulted
    <3>3. ~(attempt < MaxRetries) => Count(0)
      BY <2>3 DEF SendFails
    <3> QED BY <3>1, <3>2, <3>3
  <2>4. CASE ResponseFails(Asked, Count(0))
    <3>1. Wrong
      BY <1>1, <2>4 DEF ResponseFails, Fault, Wrong, EntryTypes
    <3> QED BY <2>4, <3>1 DEF ResponseFails
  <2> QED BY <2>1, <2>2, <2>3, <2>4 DEF Confirm, Fails
<1>7. /\ id' = id /\ polls' = polls
      /\ executed' \in 0 .. Quantity /\ reported' \in 0 .. Quantity
      /\ \/ attempt' = 0 /\ pc' \in {"market", "done"}
         \/ Repeated
      /\ Quiet \/ Wrong
      /\ executed' <= orders[id].filled \/ Repeated
      /\ pc' = "done" => executed' = Quantity /\ reported' = Quantity /\ attempt' = 0
      /\ pc' = "market" => executed' < Quantity /\ attempt' = 0
  <2>1. CASE Wrong /\ Repeated /\ UNCHANGED <<polls, id, executed, reported>>
    BY <1>2, <1>3, <2>1 DEF Repeated
  <2>2. CASE (Quiet \/ Wrong) /\ \E n \in 0 .. Quantity : Count(n) /\ n <= orders[id].filled
    <3>1. PICK n \in 0 .. Quantity : Count(n) /\ n <= orders[id].filled
      BY <2>2
    <3>2. /\ executed' = n /\ polls' = polls /\ id' = id /\ attempt' = 0
          /\ \/ n < Quantity /\ pc' = "market" /\ reported' = reported
             \/ n = Quantity /\ pc' = "done" /\ reported' = Quantity
      BY <1>5, <3>1
    <3>3. /\ executed' \in 0 .. Quantity /\ reported' \in 0 .. Quantity
          /\ executed' <= orders[id].filled
      BY <1>3, <3>1, <3>2
    <3>4. /\ pc' \in {"market", "done"}
          /\ pc' = "done" => executed' = Quantity /\ reported' = Quantity
          /\ pc' = "market" => executed' < Quantity
      BY <3>2
    <3>5. Quiet \/ Wrong
      BY <2>2
    <3>6. attempt' = 0 /\ id' = id /\ polls' = polls
      BY <3>2
    <3> HIDE <2>2, <3>1
    <3> QED BY <3>3, <3>4, <3>5, <3>6
  <2>3. 0 \in 0 .. Quantity /\ 0 <= orders[id].filled
        /\ orders[id].filled <= orders[id].filled
    BY <1>3
  <2> QED BY <1>3, <1>6, <2>1, <2>2, <2>3
<1>8. Changed(0)
  <2>1. Settles
    BY <1>1, <1>4, SameSettles
  <2>2. pc' \in Calls \cup {"done", "failed"}
    BY <1>2, <1>7 DEF Repeated, Calls
  <2>3. market' = market + 0
    BY <1>1, <1>4 DEF EntryTypes
  <2>4. attempt' = 0 \/ Repeated
    BY <1>7
  <2>5. polls' \in 0 .. MaxPolls
    BY <1>3, <1>7
  <2> QED BY <1>7, <2>1, <2>2, <2>3, <2>4, <2>5 DEF Changed
<1>9. EntryTypes' /\ Shaped' /\ DOMAIN orders' = DOMAIN orders
  BY <1>8, ChangedTypes
<1>10. pc' \in {"confirm", "market", "done"} /\ (pc' = "confirm" => Repeated)
  BY <1>2, <1>7 DEF Repeated
<1>11. Known'
  <2>1. pc' = "market" => executed' <= orders'[id].filled
    BY <1>2, <1>4, <1>7 DEF Repeated
  <2> QED BY <1>2, <1>4, <1>7, <2>1 DEF Known
<1>12. Told'
  <2>1. CASE pc' = "done"
    <3>1. executed' = Quantity /\ reported' = Quantity /\ Quantity <= orders[id].filled
      BY <1>2, <1>3, <1>7, <2>1 DEF Repeated
    <3>2. Quantity <= TotalBought
      <4>1. orders[id].filled \in Nat /\ orders[id].filled <= TotalBought
        BY <1>1, <1>2, OwnBought
      <4>2. TotalBought \in Nat /\ Quantity \in Nat
        BY <1>1, Numbers
      <4> QED BY <3>1, <4>1, <4>2
    <3>3. TotalBought <= TotalBought' /\ TotalBought \in Nat /\ TotalBought' \in Nat
      BY <1>8, ChangedNumbers
    <3> QED BY <1>3, <3>1, <3>2, <3>3 DEF Told
  <2>2. CASE pc' # "done"
    BY <2>2 DEF Told
  <2> QED BY <2>1, <2>2
<1>13. Room'
  <2>1. /\ Elsewhere' <= Excess'
        /\ Exposure' <= Excess' + Quantity
        /\ Wrong => Elsewhere' + Quantity <= Excess'
        /\ Exposure' <= Elsewhere + Quantity
    BY <1>2, <1>8, KnownRoom
  <2>2. /\ Exposure \in Nat /\ Elsewhere \in Nat /\ Exposure' \in Nat /\ Elsewhere' \in Nat
        /\ Exposure' <= Exposure
        /\ Excess \in Nat
        /\ Quiet => Excess' = Excess
        /\ Wrong => Excess' = Excess + Quantity
    BY <1>8, ChangedNumbers
  <2>3. Elsewhere <= Excess
        /\ (Warned \/ Live(id) => Elsewhere + Quantity <= Excess)
    BY <1>1, <1>2 DEF Room
  <2>4. CASE pc' = "confirm"
    <3>1. Wrong
      BY <1>2, <1>5, <1>6, <1>3, <2>4
    <3> QED BY <2>1, <2>4, <3>1 DEF Room
  <2>5. CASE pc' = "done"
    BY <2>1, <2>5 DEF Room
  <2>6. CASE pc' = "market"
    <3>1. executed' \in Nat /\ Excess' \in Nat
      <4>1. executed' \in Nat /\ Quantity \in Nat
        BY <1>3, <1>7
      <4>2. Excess' = Excess \/ Excess' = Excess + Quantity
        BY <1>7, <2>2
      <4>3. Excess \in Nat
        BY <2>2
      <4> QED BY <4>1, <4>2, <4>3
    <3>2. \/ Excess' = Excess + Quantity
          \/ Excess' = Excess /\ Elsewhere + Quantity <= Excess
          \/ Excess' = Excess /\ Exposure = Elsewhere + executed'
      <4>1. CASE Wrong
        BY <2>2, <4>1
      <4>2. CASE Quiet /\ (Warned \/ Live(id))
        BY <2>2, <2>3, <4>2, Zenon
      <4>3. CASE Quiet /\ ~Warned /\ ~Live(id)
        <5>1. faults' = faults /\ faults \in Nat
          BY <1>1, <4>3 DEF Quiet, EntryTypes
        <5>2. ~Wrong
          BY <5>1 DEF Wrong
        <5>3. executed' = orders[id].filled
          BY <1>3, <1>5, <1>6, <4>3, <5>2 DEF Warned
        <5>4. Exposure = Elsewhere + orders[id].filled
          BY <1>1, <1>2, <4>3, OwnUnits
        <5> QED BY <2>2, <4>3, <5>3, <5>4, Zenon
      <4> QED BY <1>7, <4>1, <4>2, <4>3
    <3>3. /\ Exposure \in Nat /\ Elsewhere \in Nat /\ Exposure' \in Nat /\ Quantity \in Nat
          /\ Excess \in Nat /\ Exposure' <= Exposure
          /\ Exposure' <= Elsewhere + Quantity /\ Elsewhere <= Excess
      <4>1. Quantity \in Nat
        BY <1>3
      <4> QED BY <2>1, <2>2, <2>3, <4>1, Zenon
    <3>4. Exposure' <= Excess' + executed'
      BY <3>1, <3>2, <3>3, FillsCounted, Zenon
    <3>5. banShared' => Exposure' <= Excess'
      <4> SUFFICES ASSUME banShared' PROVE Exposure' <= Excess'
        OBVIOUS
      <4>1. Warned
        BY DEF Warned
      <4>2. Elsewhere + Quantity <= Excess
        BY <2>3, <4>1
      <4>3. Excess <= Excess'
        BY <1>7, <2>2, <3>3
      <4> QED BY <3>1, <3>3, <4>2, <4>3
    <3> QED BY <2>6, <3>4, <3>5 DEF Room
  <2> QED BY <1>10, <2>4, <2>5, <2>6
<1>14. Faulted'
  <2>1. pc' = "market" => (limited' => banShared' \/ executed' = 0)
    <3>1. CASE Quiet /\ (limited => banShared)
      BY <3>1 DEF Quiet
    <3>2. CASE Count(0)
      BY <1>3, <1>5, <3>2
    <3>3. CASE Repeated
      BY <1>2, <3>3 DEF Repeated
    <3> QED BY <1>6, <3>1, <3>2, <3>3
  <2>2. \/ (Quiet \/ Wrong) /\ attempt' = 0
        \/ Wrong /\ Repeated
    <3>1. \A n \in 0 .. Quantity : Count(n) => attempt' = 0
      BY <1>5
    <3> QED BY <1>3, <1>6, <3>1
  <2>3. pc' \notin {"fallback", "failed"}
    BY <1>10
  <2> QED BY <2>1, <2>2, <2>3, FaultedNext
<1> QED BY <1>9, <1>11, <1>12, <1>13, <1>14 DEF EntryInv

LEMMA MarketInv == ASSUME EntryInv, Market, UNCHANGED banShared PROVE EntryInv'
<1>1. EntryTypes /\ Known /\ Room /\ Faulted /\ Told /\ Shaped
  BY DEF EntryInv
<1>2. /\ pc = "market" /\ id \in DOMAIN orders
      /\ executed < Quantity /\ executed <= orders[id].filled
      /\ limited => banShared \/ executed = 0
  BY <1>1 DEF Market, Known, Faulted
<1>3. /\ executed \in 0 .. Quantity /\ polls \in 0 .. MaxPolls
      /\ reported \in 0 .. Quantity /\ Quantity \in Nat \ {0} /\ market \in Nat
      /\ Remaining \in Nat /\ executed + Remaining = Quantity
  BY <1>1, <1>2 DEF EntryTypes, Remaining
<1>4. UNCHANGED exchange => UNCHANGED orders /\ market' = market
  BY DEF exchange
<1>5. Bought(Remaining) => UNCHANGED orders /\ market' = market + Remaining
  BY DEF Bought
<1>6. /\ UNCHANGED <<orders, polls, id, executed>>
      /\ \/ /\ Quiet /\ market' = market + Remaining
            /\ OnTo("done") /\ reported' = Quantity
         \/ /\ Quiet /\ limited /\ market' = market
            /\ OnTo("fallback") /\ reported' = reported
         \/ /\ Wrong /\ market' \in {market, market + Remaining}
            /\ OnTo("fallback") \/ Repeated
            /\ reported' = reported
  <2>1. CASE Answers /\ Bought(Remaining) /\ Report(executed + Remaining)
    BY <1>3, <1>5, <2>1 DEF Answers, Report, Goto, OnTo, Quiet
  <2>2. CASE attempt = 0 /\ Banned(ToFallback)
    BY <1>4, <2>2 DEF Banned, ToFallback, Goto, OnTo, Quiet
  <2>3. CASE SendFails(Bought(Remaining), ToFallback)
    <3>1. Wrong
      BY <1>1, <2>3 DEF SendFails, Fault, Wrong, EntryTypes
    <3>2. UNCHANGED orders /\ market' \in {market, market + Remaining}
      BY <1>4, <1>5, <2>3 DEF SendFails
    <3>3. attempt < MaxRetries => Repeated /\ UNCHANGED <<polls, id, executed, reported>>
      BY <1>1, <2>3 DEF SendFails, Repeated, Faulted
    <3>4. ~(attempt < MaxRetries) => ToFallback
      BY <2>3 DEF SendFails
    <3> QED BY <3>1, <3>2, <3>3, <3>4 DEF ToFallback, Goto, OnTo
  <2>4. CASE ResponseFails(Bought(Remaining), ToFallback)
    <3>1. Wrong
      BY <1>1, <2>4 DEF ResponseFails, Fault, Wrong, EntryTypes
    <3>2. UNCHANGED orders /\ market' \in {market, market + Remaining}
      BY <1>4, <1>5, <2>4 DEF ResponseFails
    <3> QED BY <2>4, <3>1, <3>2 DEF ResponseFails, ToFallback, Goto, OnTo
  <2> QED BY <2>1, <2>2, <2>3, <2>4 DEF Market, Fails
<1>7. PICK bought \in {0, Remaining} : market' = market + bought
  BY <1>3, <1>6
<1>8. bought \in Nat /\ bought <= Quantity - executed
  BY <1>3, <1>7
<1>9. Changed(bought)
  <2>1. Settles
    BY <1>1, <1>6, SameSettles
  <2>2. pc' \in Calls \cup {"done", "failed"}
    BY <1>2, <1>6 DEF OnTo, Repeated, Calls
  <2>3. /\ polls' \in 0 .. MaxPolls /\ executed' \in 0 .. Quantity
        /\ reported' \in 0 .. Quantity
    BY <1>3, <1>6
  <2>4. (Quiet \/ Wrong) /\ (attempt' = 0 \/ Repeated)
    BY <1>6 DEF OnTo
  <2> QED BY <1>6, <1>7, <2>1, <2>2, <2>3, <2>4 DEF Changed
<1>10. EntryTypes' /\ Shaped' /\ DOMAIN orders' = DOMAIN orders
  BY <1>8, <1>9, ChangedTypes
<1>11. /\ Exposure \in Nat /\ Exposure' \in Nat /\ TotalBought \in Nat /\ TotalBought' \in Nat
       /\ Exposure' <= Exposure + bought
       /\ TotalBought + bought <= TotalBought'
       /\ Excess \in Nat /\ Quantity \in Nat
       /\ Quiet => Excess' = Excess
       /\ Wrong => Excess' = Excess + Quantity
  BY <1>8, <1>9, ChangedNumbers
<1>12. Known'
  BY <1>2, <1>6 DEF Known, OnTo, Repeated
<1>13. Told'
  <2>1. CASE pc' = "done"
    <3>1. Quiet /\ market' = market + Remaining /\ reported' = Quantity
      BY <1>2, <1>6, <2>1 DEF OnTo, Repeated
    <3>2. bought = Remaining
      BY <1>3, <1>7, <3>1
    <3>3. orders[id].filled \in Nat /\ orders[id].filled <= TotalBought
      BY <1>1, <1>2, OwnBought
    <3>4. executed <= TotalBought /\ executed \in Nat
      BY <1>2, <1>3, <1>11, <3>3
    <3>5. executed + Remaining <= TotalBought'
      BY <1>3, <1>11, <3>2, <3>4
    <3> QED BY <1>3, <3>1, <3>5 DEF Told
  <2>2. CASE pc' # "done"
    BY <2>2 DEF Told
  <2> QED BY <2>1, <2>2
<1>14. Room'
  <2>1. Exposure <= Excess + executed
    BY <1>1, <1>2 DEF Room
  <2>8. banShared => Exposure <= Excess
    BY <1>1, <1>2 DEF Room
  <2>2. executed \in Nat /\ executed <= Quantity
    BY <1>3
  <2>3. Exposure' <= Excess + Quantity
    BY <1>8, <1>11, <2>1, <2>2, RoomForRest
  <2>4. CASE Quiet /\ OnTo("done")
    BY <1>11, <2>3, <2>4 DEF Room, OnTo
  <2>5. CASE Quiet /\ limited /\ market' = market /\ OnTo("fallback")
    <3>1. bought = 0 /\ (banShared \/ executed = 0)
      BY <1>2, <1>3, <1>7, <1>8, <2>5
    <3>2. Exposure' <= Excess
      BY <1>11, <2>1, <2>8, <3>1
    <3> QED BY <1>11, <2>5, <3>2 DEF Room, OnTo
  <2>6. CASE Wrong /\ OnTo("fallback")
    BY <1>11, <2>3, <2>6 DEF Room, OnTo
  <2>7. CASE Wrong /\ Repeated
    <3>1. Excess' \in Nat /\ Exposure' <= Excess'
      BY <1>11, <2>3, <2>7
    <3>2. Exposure' <= Excess' + executed' /\ pc' = "market"
      BY <1>2, <1>6, <1>11, <2>2, <2>7, <3>1 DEF Repeated
    <3> QED BY <3>1, <3>2 DEF Room
  <2> QED BY <1>6, <2>4, <2>5, <2>6, <2>7
<1>15. Faulted'
  <2>1. \/ (Quiet \/ Wrong) /\ attempt' = 0
        \/ Wrong /\ Repeated
    BY <1>6 DEF OnTo
  <2>2. Quiet /\ faults = 0 /\ ~limited => pc' \notin {"fallback", "failed"}
    <3>1. faults = 0 /\ Quiet => ~Wrong
      BY <1>1 DEF Quiet, Wrong, EntryTypes
    <3> QED BY <1>6, <3>1 DEF OnTo
  <2>3. pc' = "market" /\ limited' => banShared' \/ executed' = 0
    BY <1>2, <1>6 DEF OnTo, Repeated
  <2> QED BY <2>1, <2>2, <2>3, FaultedNext
<1> QED BY <1>10, <1>12, <1>13, <1>14, <1>15 DEF EntryInv

LEMMA FallbackInv == ASSUME EntryInv, Fallback, UNCHANGED banShared PROVE EntryInv'
<1> DEFINE Failed == Goto("failed") /\ UNCHANGED <<polls, id, executed, reported>>
<1>1. EntryTypes /\ Known /\ Room /\ Faulted /\ Told /\ Shaped
  BY DEF EntryInv
<1>2. pc = "fallback"
  BY DEF Fallback
<1>3. /\ executed \in 0 .. Quantity /\ polls \in 0 .. MaxPolls
      /\ reported \in 0 .. Quantity /\ Quantity \in Nat \ {0} /\ market \in Nat
  BY <1>1 DEF EntryTypes
<1>4. UNCHANGED exchange => UNCHANGED orders /\ market' = market
  BY DEF exchange
<1>5. Bought(Quantity) => UNCHANGED orders /\ market' = market + Quantity
  BY DEF Bought
<1>6. /\ UNCHANGED <<orders, polls, id, executed>>
      /\ \/ /\ Quiet /\ market' = market + Quantity
            /\ OnTo("done") /\ reported' = Quantity
         \/ /\ Quiet /\ limited /\ market' = market
            /\ OnTo("failed") /\ reported' = reported
         \/ /\ Wrong /\ market' \in {market, market + Quantity}
            /\ OnTo("failed") \/ Repeated
            /\ reported' = reported
  <2>1. CASE Answers /\ Bought(Quantity) /\ Report(Quantity)
    BY <1>3, <1>5, <2>1 DEF Answers, Report, Goto, OnTo, Quiet
  <2>2. CASE attempt = 0 /\ Banned(Failed)
    BY <1>4, <2>2 DEF Banned, Goto, OnTo, Quiet
  <2>3. CASE SendFails(Bought(Quantity), Failed)
    <3>1. Wrong
      BY <1>1, <2>3 DEF SendFails, Fault, Wrong, EntryTypes
    <3>2. UNCHANGED orders /\ market' \in {market, market + Quantity}
      BY <1>4, <1>5, <2>3 DEF SendFails
    <3>3. attempt < MaxRetries => Repeated /\ UNCHANGED <<polls, id, executed, reported>>
      BY <1>1, <2>3 DEF SendFails, Repeated, Faulted
    <3>4. ~(attempt < MaxRetries) => Failed
      BY <2>3 DEF SendFails
    <3> QED BY <3>1, <3>2, <3>3, <3>4 DEF Goto, OnTo
  <2>4. CASE ResponseFails(Bought(Quantity), Failed)
    <3>1. Wrong
      BY <1>1, <2>4 DEF ResponseFails, Fault, Wrong, EntryTypes
    <3>2. UNCHANGED orders /\ market' \in {market, market + Quantity}
      BY <1>4, <1>5, <2>4 DEF ResponseFails
    <3> QED BY <2>4, <3>1, <3>2 DEF ResponseFails, Goto, OnTo
  <2> QED BY <2>1, <2>2, <2>3, <2>4 DEF Fallback, Fails
<1>7. PICK bought \in {0, Quantity} : market' = market + bought
  BY <1>3, <1>6
<1>8. bought \in Nat /\ bought <= Quantity
  BY <1>3, <1>7
<1>9. Changed(bought)
  <2>1. Settles
    BY <1>1, <1>6, SameSettles
  <2>2. pc' \in Calls \cup {"done", "failed"}
    BY <1>2, <1>6 DEF OnTo, Repeated, Calls
  <2>3. /\ polls' \in 0 .. MaxPolls /\ executed' \in 0 .. Quantity
        /\ reported' \in 0 .. Quantity
    BY <1>3, <1>6
  <2>4. (Quiet \/ Wrong) /\ (attempt' = 0 \/ Repeated)
    BY <1>6 DEF OnTo
  <2> QED BY <1>6, <1>7, <2>1, <2>2, <2>3, <2>4 DEF Changed
<1>10. EntryTypes' /\ Shaped' /\ DOMAIN orders' = DOMAIN orders
  BY <1>8, <1>9, ChangedTypes
<1>11. /\ Exposure \in Nat /\ Exposure' \in Nat /\ TotalBought \in Nat /\ TotalBought' \in Nat
       /\ Exposure' <= Exposure + bought
       /\ TotalBought + bought <= TotalBought'
       /\ Excess \in Nat /\ Quantity \in Nat
       /\ Quiet => Excess' = Excess
       /\ Wrong => Excess' = Excess + Quantity
  BY <1>8, <1>9, ChangedNumbers
<1>12. pc' \in {"fallback", "done", "failed"}
  BY <1>2, <1>6 DEF OnTo, Repeated
<1>13. Known'
  BY <1>12 DEF Known
<1>14. Told'
  <2>1. CASE pc' = "done"
    <3>1. Quiet /\ market' = market + Quantity /\ reported' = Quantity
      BY <1>2, <1>6, <2>1 DEF OnTo, Repeated
    <3>2. bought = Quantity
      BY <1>3, <1>7, <3>1
    <3>3. Quantity <= TotalBought'
      BY <1>11, <3>2
    <3> QED BY <3>1, <3>3 DEF Told
  <2>2. CASE pc' # "done"
    BY <2>2 DEF Told
  <2> QED BY <2>1, <2>2
<1>15. Room'
  <2>1. Exposure <= Excess
    BY <1>1, <1>2 DEF Room
  <2>2. Exposure' <= Excess + Quantity
    BY <1>8, <1>11, <2>1
  <2>3. CASE Quiet /\ (OnTo("done") \/ OnTo("failed"))
    BY <1>11, <2>2, <2>3 DEF Room, OnTo
  <2>4. CASE Wrong
    <3>1. Excess' \in Nat /\ Exposure' <= Excess' /\ Exposure' <= Excess' + Quantity
      BY <1>11, <2>2, <2>4
    <3> QED BY <1>12, <3>1 DEF Room
  <2> QED BY <1>6, <2>3, <2>4
<1>16. Faulted'
  <2>1. \/ (Quiet \/ Wrong) /\ attempt' = 0
        \/ Wrong /\ Repeated
    BY <1>6 DEF OnTo
  <2>2. ~(faults = 0 /\ ~banShared)
    BY <1>1, <1>2 DEF Faulted
  <2> QED BY <1>12, <2>1, <2>2, FaultedNext
<1> QED BY <1>10, <1>13, <1>14, <1>15, <1>16 DEF EntryInv

LEMMA PlaceInv == ASSUME EntryInv, Place, UNCHANGED banShared PROVE EntryInv'
<1>1. EntryTypes /\ Known /\ Room /\ Faulted /\ Told /\ Shaped
  BY DEF EntryInv
<1>2. /\ pc = "place" /\ Exposure <= Excess
      /\ banShared => Exposure + Quantity <= Excess
      /\ executed \in 0 .. Quantity /\ polls \in 0 .. MaxPolls
      /\ reported \in 0 .. Quantity /\ Quantity \in Nat \ {0} /\ market \in Nat
      /\ id \in 0 .. Len(orders) /\ Len(orders) \in Nat
  BY <1>1, OrderTypes DEF EntryTypes, Room, Place
<1>3. UNCHANGED exchange => UNCHANGED orders /\ market' = market
  BY DEF exchange
<1>4. Accepted => market' = market
  BY DEF Accepted
<1>5. \/ /\ Quiet /\ (limited => banShared) /\ Accepted
         /\ id' = Len(orders') /\ UNCHANGED <<polls, executed>> /\ attempt' = 0
         /\ \/ orders'[id'].status = "filled" /\ pc' = "done" /\ reported' = Quantity
            \/ orders'[id'].status # "filled" /\ pc' = "poll" /\ reported' = reported
      \/ /\ UNCHANGED <<polls, id, executed, reported>>
         /\ \/ Quiet /\ OnTo("fallback") /\ limited /\ UNCHANGED <<orders, market>>
            \/ /\ Wrong
               /\ Accepted \/ UNCHANGED <<orders, market>>
               /\ OnTo("fallback") \/ Repeated
  <2>1. CASE /\ Answers
             /\ Accepted
             /\ id' = Len(orders')
             /\ IF orders'[id'].status = "filled"
                THEN Goto("done") /\ reported' = Quantity
                ELSE Goto("poll") /\ UNCHANGED reported
             /\ UNCHANGED <<polls, executed>>
    <3>1. Quiet /\ (limited => banShared)
      BY <1>1, <2>1 DEF Answers, Quiet, Faulted
    <3>2. /\ attempt' = 0
          /\ \/ orders'[id'].status = "filled" /\ pc' = "done" /\ reported' = Quantity
             \/ orders'[id'].status # "filled" /\ pc' = "poll" /\ reported' = reported
      BY <2>1 DEF Goto
    <3> QED BY <2>1, <3>1, <3>2, Zenon
  <2>2. CASE attempt = 0 /\ Banned(ToFallback)
    BY <1>3, <2>2 DEF Banned, ToFallback, Goto, OnTo, Quiet
  <2>3. CASE SendFails(Accepted, ToFallback)
    <3>1. Wrong
      BY <1>1, <2>3 DEF SendFails, Fault, Wrong, EntryTypes
    <3>2. Accepted \/ UNCHANGED <<orders, market>>
      BY <1>3, <2>3 DEF SendFails
    <3>3. attempt < MaxRetries => Repeated /\ UNCHANGED <<polls, id, executed, reported>>
      BY <1>1, <2>3 DEF SendFails, Repeated, Faulted
    <3>4. ~(attempt < MaxRetries) => ToFallback
      BY <2>3 DEF SendFails
    <3> QED BY <3>1, <3>2, <3>3, <3>4 DEF ToFallback, Goto, OnTo
  <2>4. CASE ResponseFails(Accepted, ToFallback)
    <3>1. Wrong
      BY <1>1, <2>4 DEF ResponseFails, Fault, Wrong, EntryTypes
    <3>2. Accepted \/ UNCHANGED <<orders, market>>
      BY <1>3, <2>4 DEF ResponseFails
    <3> QED BY <2>4, <3>1, <3>2 DEF ResponseFails, ToFallback, Goto, OnTo
  <2> QED BY <2>1, <2>2, <2>3, <2>4 DEF Place, Fails
<1>6. /\ orders' \in Seq(Order) /\ Shaped' /\ market' = market
      /\ Len(orders') \in Nat /\ Len(orders) <= Len(orders')
  <2>1. CASE Accepted
    BY <1>1, <1>2, <2>1, AcceptedAdds
  <2>2. CASE UNCHANGED <<orders, market>>
    <3>1. Settles
      BY <1>1, <2>2, SameSettles
    <3> QED BY <1>1, <1>2, <2>2, <3>1 DEF Settles
  <2> QED BY <1>5, <2>1, <2>2
<1>7. /\ pc' \in Calls \cup {"done", "failed"}
      /\ polls' \in 0 .. MaxPolls /\ executed' \in 0 .. Quantity
      /\ reported' \in 0 .. Quantity
      /\ id' \in 0 .. Len(orders')
  BY <1>2, <1>5, <1>6 DEF OnTo, Repeated, Calls
<1>8. /\ attempt' \in 0 .. MaxRetries /\ faults' \in 0 .. MaxFaults
      /\ limited' \in BOOLEAN
      /\ limited' => banShared' \/ attempt' = 0
      /\ banShared' = banShared
      /\ Quiet => Excess' = Excess
      /\ Wrong => Excess' = Excess + Quantity /\ faults' # 0
  <2>1. (Quiet \/ Wrong) /\ (attempt' = 0 \/ Repeated)
    BY <1>5 DEF OnTo
  <2> QED BY <2>1, CountsNext
<1>9. EntryTypes'
  <2>1. orders' \in Seq([filled : 0 .. Quantity, status : {"live", "filled", "ended"}])
    BY <1>6, Zenon DEF Order
  <2>2. banShared' \in BOOLEAN
    BY <1>1 DEF EntryTypes
  <2> QED BY <1>2, <1>6, <1>7, <1>8, <2>1, <2>2 DEF EntryTypes
<1>10. Cardinality(Taken) \in Nat /\ Exposure \in Nat /\ Excess \in Nat
       /\ Exposure = Cardinality(Taken) + market
  BY <1>1, UnitsFinite, Numbers DEF Exposure
<1>11. CASE Quiet /\ (limited => banShared) /\ Accepted /\ id' = Len(orders') /\ attempt' = 0
            /\ (\/ orders'[id'].status = "filled" /\ pc' = "done" /\ reported' = Quantity
                \/ orders'[id'].status # "filled" /\ pc' = "poll" /\ reported' = reported)
  <2>1. /\ id' \in DOMAIN orders' /\ market' = market
        /\ Cardinality(Taken') = Cardinality(Taken) + Quantity
        /\ Cardinality(TakenElsewhere') = Cardinality(Taken)
        /\ Cardinality(InOrders') \in Nat
        /\ orders'[id'].status = "filled" => Quantity <= Cardinality(InOrders')
    BY <1>1, <1>11, AcceptedAdds
  <2>2. Exposure' = Exposure + Quantity /\ Elsewhere' = Exposure /\ Excess' = Excess
    BY <1>2, <1>8, <1>10, <1>11, <2>1 DEF Exposure, Elsewhere
  <2>3. Warned' => banShared
    BY <1>11 DEF Quiet, Warned
  <2>4. pc' = "done" => Quantity <= TotalBought' /\ reported' = Quantity
    BY <1>2, <1>11, <2>1 DEF TotalBought
  <2>5. pc' \in {"done", "poll"} /\ attempt' = 0
    BY <1>11
  <2>6. Known' /\ Told'
    BY <2>1, <2>4, <2>5 DEF Known, Told
  <2>7. Room'
    <3>1. /\ Exposure' <= Excess' + Quantity /\ Elsewhere' <= Excess'
          /\ banShared => Elsewhere' + Quantity <= Excess'
      BY <1>2, <1>10, <2>2
    <3> QED BY <2>3, <2>5, <3>1 DEF Room
  <2>8. Faulted'
    BY <1>11, <2>5, FaultedNext
  <2> QED BY <1>6, <1>9, <2>6, <2>7, <2>8 DEF EntryInv
<1>12. CASE Quiet /\ OnTo("fallback") /\ limited /\ UNCHANGED <<orders, market>>
            /\ UNCHANGED <<polls, id, executed, reported>>
  <2>1. Exposure' = Exposure /\ Excess' = Excess
    BY <1>8, <1>12 DEF Exposure, Taken, InOrders, StillOpen, Units, Live
  <2>2. pc' = "fallback" /\ attempt' = 0
    BY <1>12 DEF OnTo
  <2>3. Room'
    BY <1>2, <2>1, <2>2 DEF Room
  <2>4. Known' /\ Told'
    BY <2>2 DEF Known, Told
  <2>5. Faulted'
    BY <1>12, <2>2, FaultedNext
  <2> QED BY <1>6, <1>9, <2>3, <2>4, <2>5 DEF EntryInv
<1>13. CASE Wrong /\ (Accepted \/ UNCHANGED <<orders, market>>)
            /\ (OnTo("fallback") \/ Repeated) /\ UNCHANGED <<polls, id, executed, reported>>
  <2>1. /\ Exposure' \in Nat /\ Exposure' <= Exposure + Quantity
        /\ Excess' = Excess + Quantity
    <3>1. CASE Accepted
      <4>1. Cardinality(Taken') = Cardinality(Taken) + Quantity /\ market' = market
        BY <1>1, <3>1, AcceptedAdds
      <4>2. Exposure' = Exposure + Quantity
        BY <1>2, <1>10, <4>1 DEF Exposure
      <4>3. Excess' = Excess + Quantity
        BY <1>8, <1>13
      <4> QED BY <1>2, <1>10, <4>2, <4>3
    <3>2. CASE UNCHANGED <<orders, market>>
      <4>1. Exposure' = Exposure
        BY <3>2 DEF Exposure, Taken, InOrders, StillOpen, Units, Live
      <4> QED BY <1>2, <1>8, <1>10, <1>13, <4>1
    <3> QED BY <1>13, <3>1, <3>2
  <2>2. pc' \in {"fallback", "place"}
    BY <1>2, <1>13 DEF OnTo, Repeated
  <2>3. Room'
    <3>1. Exposure' <= Excess'
      BY <1>2, <1>10, <2>1
    <3>2. banShared' => Exposure' + Quantity <= Excess'
      <4> SUFFICES ASSUME banShared' PROVE Exposure' + Quantity <= Excess'
        OBVIOUS
      <4>1. Exposure + Quantity <= Excess
        BY <1>2
      <4>2. Quantity \in Nat /\ Exposure \in Nat /\ Excess \in Nat
        BY <1>2, <1>10
      <4> QED BY <2>1, <4>1, <4>2, RoomForBoth
    <3> QED BY <2>2, <3>1, <3>2 DEF Room
  <2>4. Known' /\ Told'
    BY <2>2 DEF Known, Told
  <2>5. Faulted'
    BY <1>13, <2>2, FaultedNext DEF OnTo, Wrong, Quiet
  <2> QED BY <1>6, <1>9, <2>3, <2>4, <2>5 DEF EntryInv
<1> QED BY <1>5, <1>11, <1>12, <1>13

\* The first ban that another task is told of makes room for one quantity more; the
\* room is there when the next comes.
LEMMA OthersBanInv == ASSUME EntryInv, OthersBan PROVE EntryInv'
<1>1. EntryTypes /\ Known /\ Room /\ Faulted /\ Told /\ Shaped
  BY DEF EntryInv
<1>2. /\ UNCHANGED <<orders, market, pc, attempt, polls, id, executed, reported, faults>>
      /\ limited' = TRUE /\ banShared' = TRUE
  BY DEF OthersBan, exchange, client
<1>3. EntryTypes'
  BY <1>1, <1>2 DEF EntryTypes
<1>4. Shaped' /\ Known' /\ Faulted'
  BY <1>1, <1>2 DEF Shaped, Known, Faulted
<1>5. /\ Exposure' = Exposure /\ Elsewhere' = Elsewhere /\ TotalBought' = TotalBought
      /\ Live(id)' <=> Live(id)
  BY <1>2 DEF Exposure, Elsewhere, TotalBought, Taken, TakenElsewhere, InOrders,
              StillOpen, Units, Live
<1>6. Told'
  BY <1>1, <1>2, <1>5 DEF Told
<1>7. /\ Exposure \in Nat /\ Elsewhere \in Nat /\ Excess \in Nat /\ Quantity \in Nat
      /\ executed \in Nat /\ executed <= Quantity
  BY <1>1, Numbers DEF EntryTypes
<1>8. IF banShared THEN Excess' = Excess ELSE Excess' = Excess + Quantity
  BY <1>1, <1>2, ExcessNext
<1>9. Room'
  <2>1. pc \in {"place", "fallback"} => Exposure <= Excess'
    BY <1>1, <1>7, <1>8 DEF Room
  <2>2. pc = "place" => Exposure + Quantity <= Excess'
    BY <1>1, <1>7, <1>8 DEF Room
  <2>3. pc \in {"poll", "cancel", "confirm"} =>
          Elsewhere <= Excess' /\ Elsewhere + Quantity <= Excess'
    <3>1. pc \in {"poll", "cancel", "confirm"} =>
            Elsewhere <= Excess /\ (banShared => Elsewhere + Quantity <= Excess)
      BY <1>1 DEF Room, Warned
    <3> QED BY <1>7, <1>8, <3>1
  <2>4. pc = "market" => Exposure <= Excess' + executed /\ Exposure <= Excess'
    BY <1>1, <1>7, <1>8 DEF Room
  <2>5. pc \in {"done", "failed"} => Exposure <= Excess' + Quantity
    BY <1>1, <1>7, <1>8 DEF Room
  <2> QED BY <1>2, <1>5, <2>1, <2>2, <2>3, <2>4, <2>5 DEF Room
<1> QED BY <1>3, <1>4, <1>6, <1>9 DEF EntryInv

LEMMA EntryStepInv == EntryInv /\ [EntryNext]_entryVars => EntryInv'
<1> SUFFICES ASSUME EntryInv, [EntryNext]_entryVars PROVE EntryInv'
  OBVIOUS
<1>1. EntryTypes /\ Shaped
  BY DEF EntryInv
<1>2. CASE Fill
  <2>1. PICK i \in DOMAIN orders : Live(i) /\ orders' = [orders EXCEPT ![i] = Filling(@)]
    BY <1>2 DEF Fill
  <2>2. Settles
    BY <1>1, <2>1, FillSettles
  <2>3. UNCHANGED <<market, client, faults, banShared>> /\ limited' \in {limited, FALSE}
    BY <1>2 DEF Fill
  <2> QED BY <2>2, <2>3, ExchangeInv
<1>3. CASE Expire
  <2>1. PICK i \in DOMAIN orders :
           Live(i) /\ orders' = [orders EXCEPT ![i].status = "ended"]
    BY <1>3 DEF Expire
  <2>2. Settles
    BY <1>1, <2>1, EndSettles
  <2>3. UNCHANGED <<market, client, faults, banShared>> /\ limited' \in {limited, FALSE}
    BY <1>3 DEF Expire
  <2> QED BY <2>2, <2>3, ExchangeInv
<1>4. CASE CoolDown
  <2>1. UNCHANGED <<orders, market, client, faults, banShared>> /\ limited' \in {limited, FALSE}
    BY <1>4 DEF CoolDown, exchange
  <2>2. Settles
    BY <1>1, <2>1, SameSettles
  <2> QED BY <2>1, <2>2, ExchangeInv
<1>5. CASE UNCHANGED entryVars
  <2>1. UNCHANGED <<orders, market, client, faults, banShared>> /\ limited' \in {limited, FALSE}
    BY <1>5 DEF entryVars, exchange
  <2>2. Settles
    BY <1>1, <2>1, SameSettles
  <2> QED BY <2>1, <2>2, ExchangeInv
<1>6. CASE Client
  BY <1>6, PlaceInv, PollInv, WaitOverInv, CancelInv, ConfirmInv, MarketInv, FallbackInv
     DEF Client
<1>7. CASE OthersBan
  BY <1>7, OthersBanInv
<1> QED BY <1>2, <1>3, <1>4, <1>5, <1>6, <1>7 DEF EntryNext

\* The inductive invariant of an entry.
THEOREM EntryInvariant == EntrySpec => []EntryInv
<1>1. EntryInit => EntryInv
  BY EntryInitInv
<1>2. EntryInv /\ [EntryNext]_entryVars => EntryInv'
  BY EntryStepInv
<1> QED BY <1>1, <1>2, PTL DEF EntrySpec

\* Type correctness of an entry, its orders and its calls.
THEOREM EntryTypeCorrect == EntrySpec => []EntryTypes
<1>1. EntryInv => EntryTypes
  BY DEF EntryInv
<1> QED BY <1>1, EntryInvariant, PTL

LEMMA ExposureBound == ASSUME EntryInv PROVE Exposure <= Excess + Quantity
<1>1. EntryTypes /\ Shaped /\ Known /\ Room
  BY DEF EntryInv
<1>2. /\ Exposure \in Nat /\ Elsewhere \in Nat /\ Excess \in Nat
      /\ Quantity \in Nat /\ executed \in 0 .. Quantity
      /\ pc \in Calls \cup {"done", "failed"}
  BY <1>1, Numbers DEF EntryTypes
<1>3. CASE pc \in {"poll", "cancel", "confirm"}
  <2>1. Exposure <= Elsewhere + Quantity
    BY <1>1, <1>3, OwnUnits DEF Known
  <2>2. Elsewhere <= Excess
    BY <1>1, <1>3 DEF Room
  <2> QED BY <1>2, <2>1, <2>2
<1>4. CASE pc = "market"
  BY <1>1, <1>2, <1>4 DEF Room
<1>5. CASE pc \in {"place", "fallback"}
  BY <1>1, <1>2, <1>5 DEF Room
<1>6. CASE pc \in {"done", "failed"}
  BY <1>1, <1>6 DEF Room
<1> QED BY <1>2, <1>3, <1>4, <1>5, <1>6 DEF Calls

\* The excess over the quantity is explained by the calls that went wrong and by the
\* first ban of another task, for every quantity, every number of polls, retries,
\* faults and bans; without them the entry buys what it was told to and leaves nothing
\* on the book.
THEOREM ExcessIsExplained == EntrySpec => []ExcessExplained
<1>1. EntryInv => ExcessExplained
  <2> SUFFICES ASSUME EntryInv PROVE ExcessExplained
    OBVIOUS
  <2>1. EntryTypes /\ Shaped /\ Faulted /\ Told
    BY DEF EntryInv
  <2>2. /\ Cardinality(StillOpen) \in Nat /\ TotalBought \in Nat /\ Quantity \in Nat
        /\ Excess \in Nat /\ faults \in Nat
    BY <2>1, UnitsFinite, Numbers DEF EntryTypes
  <2>3. TotalBought + Cardinality(StillOpen) = Exposure
    <3>1. /\ Cardinality(InOrders) \in Nat /\ market \in Nat
          /\ Cardinality(Taken) = Cardinality(InOrders) + Cardinality(StillOpen)
      BY <2>1, UnitsFinite, TakenSplit DEF EntryTypes
    <3> QED BY <2>2, <3>1 DEF TotalBought, Exposure
  <2>4. TotalBought + Cardinality(StillOpen) <= Excess + Quantity
    BY <2>3, ExposureBound
  <2>6. ASSUME Over, faults = 0, ~banShared
        PROVE  /\ pc = "done" /\ TotalBought = Quantity /\ reported = Quantity
               /\ LiveOrders = {}
    <3>1. pc = "done" /\ reported = Quantity /\ Quantity <= TotalBought
      BY <2>1, <2>6 DEF Over, Faulted, Told
    <3>2. Excess = 0
      BY <2>2, <2>6 DEF Excess
    <3>3. TotalBought = Quantity /\ Cardinality(StillOpen) = 0
      BY <2>2, <2>4, <3>1, <3>2
    <3>4. StillOpen = {}
      BY <2>1, <3>3, UnitsFinite, FS_EmptySet, Zenon
    <3>5. \A i \in DOMAIN orders : Live(i) => <<i, Quantity>> \in StillOpen
      <4> SUFFICES ASSUME NEW i \in DOMAIN orders, Live(i)
                   PROVE  <<i, Quantity>> \in StillOpen
        OBVIOUS
      <4>1. orders[i].filled \in 0 .. Quantity /\ orders[i].filled # Quantity
        BY <2>1, OrderTypes DEF Shaped, Live
      <4>2. <<i, Quantity>> \in Units
        BY DEF Units
      <4> QED BY <4>1, <4>2 DEF StillOpen
    <3>6. LiveOrders = {}
      BY <3>4, <3>5 DEF LiveOrders
    <3> QED BY <3>1, <3>3, <3>6
  <2>7. TotalBought + Cardinality(StillOpen) <= Quantity + Excess
    BY <2>2, <2>4
  <2> QED BY <2>6, <2>7 DEF ExcessExplained
<1> QED BY <1>1, EntryInvariant, PTL

\* What the strategy is told of was bought, whatever failed on the way.
THEOREM NothingOverstated == EntrySpec => []NeverOverstated
<1>1. EntryInv => NeverOverstated
  BY DEF EntryInv, Told, NeverOverstated
<1> QED BY <1>1, EntryInvariant, PTL

=============================================================================
