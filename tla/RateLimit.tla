------------------------------ MODULE RateLimit -----------------------------
(***************************************************************************)
(* The pause of BinanceClient: one deadline, rate_limited_until_ms, that   *)
(* all clones of the client share.  The exchange's error -1003 sets it;    *)
(* get, post and delete look at it once, before their first attempt, and   *)
(* repeat an attempt only when it fails on the network; get_klines (and    *)
(* test_place_order) neither look at it, nor set it, nor repeat.           *)
(***************************************************************************)
EXTENDS Integers

CONSTANTS
    Callers,   \* tasks that use a clone of the client
    Retries,   \* max_retries
    Pause,     \* after a rate limit: 120 s
    Default,   \* after a ban whose end the message does not tell: 300 s
    MaxTime,   \* bound: the clock
    MaxBan     \* bound: the end of a ban

ASSUME RateAssumption ==
    /\ {Retries, MaxTime, MaxBan} \subseteq Nat
    /\ {Pause, Default} \subseteq Nat \ {0}

VARIABLES
    now,        \* the clock
    until,      \* rate_limited_until_ms
    banned,     \* the exchange: when its ban of this address ends
    calls,      \* calls[c]: the call that c makes
    told,       \* history: the latest pause that a call was told of (but for bars)
    shortened,  \* history: was a pause in force replaced by a shorter one?
    during      \* during[c]: history: signed requests that c has sent in it

vars == <<now, until, banned, calls, told, shortened, during>>

(* A call: attempt counts from 0; done is how often the exchange executed   *)
(* it, fails how often the network failed.                                  *)
NewCall(at, kind) == [at |-> at, kind |-> kind, attempt |-> 0,
                      reply |-> <<"none">>, done |-> 0, fails |-> 0]

NoCall == NewCall("idle", "read")

Init ==
    /\ now = 0 /\ until = 0 /\ banned = 0
    /\ calls = [c \in Callers |-> NoCall]
    /\ told = 0
    /\ shortened = FALSE
    /\ during = [c \in Callers |-> 0]

Signed(c) == calls[c].kind # "klines"

Busy(c, at) == calls[c].at = at

-----------------------------------------------------------------------------
(* The client.                                                             *)

IsRateLimited == now < until

\* get, post, delete and get_klines up to the first send; a call that is
\* refused sends nothing.
Begin(c, kind) ==
    /\ Busy(c, "idle")
    /\ kind # "klines" => ~IsRateLimited
    /\ calls' = [calls EXCEPT ![c] = NewCall("ready", kind)]
    /\ UNCHANGED <<now, until, banned, told, shortened, during>>

\* An attempt, the first or (after its sleep) another; nothing is checked again.
Send(c) ==
    /\ Busy(c, "ready")
    /\ calls' = [calls EXCEPT ![c].at = "sent"]
    /\ during' = IF Signed(c) /\ now < told /\ during[c] <= Retries + 1
                 THEN [during EXCEPT ![c] = @ + 1] ELSE during
    /\ UNCHANGED <<now, until, banned, told, shortened>>

\* The deadline that an error -1003 asks for.
Deadline(reply) ==
    CASE reply[1] = "limit" -> now + Pause
      [] reply[1] = "ban"   -> IF reply[2] = 0 THEN now + Default ELSE reply[2]

\* Mutation of Store: a plain rate limit is an error like any other.
StoreBansOnly(reply) == IF reply[1] = "ban" THEN Deadline(reply) ELSE until

\* The store of handle_api_error, whatever the deadline is.
Store(reply) == IF reply[1] \in {"ban", "limit"} THEN Deadline(reply) ELSE until

\* Mutation of Ended: an answer whose body cannot be read is asked for again.
EndedRetried(c) ==
    IF calls[c].reply = <<"unreadable">> /\ calls[c].attempt < Retries
    THEN [calls[c] EXCEPT !.at = "ready", !.attempt = @ + 1, !.reply = <<"none">>]
    ELSE NoCall

\* Any answer ends the call, also one whose body cannot be read.
Ended(c) == NoCall

\* handle_response, and the end of get_klines, which reads no error code.
Receive(c) ==
    /\ Busy(c, "answered")
    /\ calls' = [calls EXCEPT ![c] = Ended(c)]
    /\ LET reply == calls[c].reply
           asked == IF reply[1] \in {"ban", "limit"} THEN Deadline(reply) ELSE 0
       IN
       IF ~Signed(c) \/ asked = 0 THEN UNCHANGED <<until, told, shortened, during>>
       ELSE /\ until' = Store(reply)
            /\ told' = IF asked > told THEN asked ELSE told
            /\ shortened' = \/ asked < told /\ now < told
                            \/ asked <= told /\ shortened
            /\ during' = IF asked > told THEN [b \in Callers |-> 0] ELSE during
    /\ UNCHANGED <<now, banned>>

\* The next attempt, after a sleep, or the end of the call.
Again(c, executed) ==
    IF Signed(c) /\ calls[c].attempt < Retries
    THEN [calls[c] EXCEPT !.at = "ready", !.attempt = @ + 1, !.fails = @ + 1,
                          !.done = IF executed THEN @ + 1 ELSE @]
    ELSE NoCall

\* No connection, or no answer within 30 s: the exchange may have executed the
\* request all the same.
NetworkFails(c, executed) ==
    /\ Busy(c, "sent")
    /\ executed => calls[c].kind = "order" /\ banned <= now
    /\ calls' = [calls EXCEPT ![c] = Again(c, executed)]
    /\ UNCHANGED <<now, until, banned, told, shortened, during>>

-----------------------------------------------------------------------------
(* The exchange and the clock.                                             *)

Answered(c, reply, done) ==
    [calls[c] EXCEPT !.at = "answered", !.reply = reply, !.done = @ + done]

Answer(c, reply, done) == calls' = [calls EXCEPT ![c] = Answered(c, reply, done)]

\* A request arrives: it is served, refused, or is the one too many; the message
\* of a ban tells when it ends, or says it in a way that is not understood (0).
Arrive(c) ==
    /\ Busy(c, "sent")
    /\ \/ /\ now < banned
          /\ \E end \in {0, banned} : Answer(c, <<"ban", end>>, 0)
          /\ UNCHANGED banned
       \/ /\ now >= banned
          /\ \/ \E reply \in {<<"ok">>, <<"unreadable">>} :
                   Answer(c, reply, IF calls[c].kind = "order" THEN 1 ELSE 0)
             \/ \E reply \in {<<"error">>, <<"limit">>} : Answer(c, reply, 0)
          /\ UNCHANGED banned
       \/ /\ now >= banned
          /\ \E end \in now + 1 .. MaxBan :
               /\ banned' = end
               /\ Answer(c, <<"ban", end>>, 0)
    /\ UNCHANGED <<now, until, told, shortened, during>>

Tick ==
    /\ now < MaxTime
    /\ now' = now + 1
    /\ UNCHANGED <<until, banned, calls, told, shortened, during>>

Failure(c) == \E executed \in BOOLEAN : NetworkFails(c, executed)

Next ==
    \/ \E c \in Callers :
         \/ \E kind \in {"order", "read", "klines"} : Begin(c, kind)
         \/ Send(c) \/ Arrive(c) \/ Receive(c) \/ Failure(c)
    \/ Tick

Spec == Init /\ [][Next]_vars

-----------------------------------------------------------------------------
\* Types.
TypeOK ==
    /\ {now, until, banned, told} \subseteq Nat
    /\ calls \in [Callers ->
         [at : {"idle", "ready", "sent", "answered"},
          kind : {"order", "read", "klines"}, attempt : 0 .. Retries,
          reply : {<<"none">>, <<"ok">>, <<"unreadable">>, <<"error">>, <<"limit">>}
                    \cup {"ban"} \X Nat,
          done : Nat, fails : Nat]]
    /\ shortened \in BOOLEAN
    /\ during \in [Callers -> Nat]

\* Once the exchange has asked for a pause, what a task sends in it (but for bars)
\* are the attempts of the one call that it had begun before, unless a shorter
\* pause was stored over it.
OnlyStragglers == ~shortened => \A c \in Callers : during[c] <= Retries + 1

\* An order is executed again only for each time that the network failed: neither
\* an error nor an answer that cannot be read makes the client repeat it.
RepeatedForFailuresOnly == \A c \in Callers : calls[c].done <= 1 + calls[c].fails
=============================================================================
