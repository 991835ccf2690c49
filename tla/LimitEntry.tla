----------------------------- MODULE LimitEntry -----------------------------
(***************************************************************************)
(* One BUY entry: OrderExecutionService::place_limit_then_market and the   *)
(* fallback of execute_signal, over the REST client that retries.          *)
(*                                                                         *)
(* Place a limit order, poll it, cancel it when the wait is over, ask what *)
(* it filled, buy the rest at market; if anything fails on the way, buy    *)
(* the whole quantity at market.  The exchange fills the limit order at    *)
(* any time; a call can be lost on the way there or back, be refused, or   *)
(* be answered unreadably; a refusal may ban the client for a while, and   *)
(* so may a refusal of another task's call: the deadline is shared.        *)
(***************************************************************************)
EXTENDS Integers, Sequences, FiniteSets

CONSTANTS
    Quantity,     \* units to buy, after rounding to the step size
    MaxPolls,     \* limit_entry_wait_seconds / 3
    MaxRetries,   \* BinanceClient::max_retries
    MaxFaults     \* bound: calls that go wrong

ASSUME EntryAssumption ==
    /\ Quantity \in Nat \ {0}
    /\ {MaxPolls, MaxRetries, MaxFaults} \subseteq Nat

VARIABLES
    orders,       \* limit orders the exchange has accepted
    market,       \* units bought by market orders
    pc,           \* the call that comes next, or "done" / "failed"
    attempt,      \* retries of the current call so far
    polls,        \* rounds of the wait loop
    id,           \* placed.order_id: which of orders the client knows
    executed,     \* limit_filled_qty
    reported,     \* executed_qty of the response handed to execute_signal
    limited,      \* is_rate_limited()
    faults,       \* history: calls that went wrong
    banShared     \* history: another task was told of a ban

exchange == <<orders, market>>
client == <<pc, attempt, polls, id, executed, reported>>
entryVars == <<exchange, client, limited, faults, banShared>>

EntryInit ==
    /\ orders = <<>>
    /\ market = 0
    /\ pc = "place"
    /\ attempt = 0
    /\ polls = 0
    /\ id = 0
    /\ executed = 0
    /\ reported = 0
    /\ limited = FALSE
    /\ faults = 0
    /\ banShared = FALSE

Live(i) == orders[i].status = "live"

-----------------------------------------------------------------------------
\* The exchange on its own: fills, and orders that it ends itself.
Filling(o) ==
    [filled |-> o.filled + 1,
     status |-> IF o.filled + 1 = Quantity THEN "filled" ELSE "live"]

Fill ==
    /\ \E i \in DOMAIN orders :
         /\ Live(i)
         /\ orders' = [orders EXCEPT ![i] = Filling(@)]
    /\ UNCHANGED <<market, client, limited, faults, banShared>>

Expire ==
    /\ \E i \in DOMAIN orders :
         /\ Live(i)
         /\ orders' = [orders EXCEPT ![i].status = "ended"]
    /\ UNCHANGED <<market, client, limited, faults, banShared>>

\* The ban runs out.
CoolDown ==
    /\ limited
    /\ limited' = FALSE
    /\ UNCHANGED <<exchange, client, faults, banShared>>

\* A call of another task, such as the one that fetches the balances, is refused
\* with -1003.  All clones of the client share the deadline, so the entry is
\* banned as well, between any two of its steps and in the middle of its retries.
OthersBan ==
    /\ limited' = TRUE
    /\ banShared' = TRUE
    /\ UNCHANGED <<exchange, client, faults>>

-----------------------------------------------------------------------------
\* What a call does to the exchange.
Accepted == orders' \in {Append(orders, [filled |-> 0, status |-> "live"]),
                         Append(orders, [filled |-> Quantity,
                                         status |-> "filled"])}
            /\ UNCHANGED market

Bought(q) == market' = market + q /\ UNCHANGED orders

Cancelled == /\ Live(id)
             /\ orders' = [orders EXCEPT ![id].status = "ended"]
             /\ UNCHANGED market

Asked == UNCHANGED exchange

\* The client goes on with step next; the retry count belongs to one call.
Goto(next) == pc' = next /\ attempt' = 0

Fault == faults < MaxFaults /\ faults' = faults + 1

\* BinanceClient::post, get and delete.  Err is what the caller does about an
\* error.  A ban fails the call before anything is sent.
Banned(Err) ==
    /\ limited
    /\ Err
    /\ UNCHANGED <<exchange, limited, faults>>

\* send() fails: the request was lost, or the exchange acted on it and the
\* reply was lost.  The same request is sent again, under no id of its own.
SendFails(Effect, Err) ==
    /\ ~limited \/ attempt > 0
    /\ Fault
    /\ UNCHANGED exchange \/ Effect
    /\ IF attempt < MaxRetries
       THEN attempt' = attempt + 1 /\ UNCHANGED <<pc, polls, id, executed, reported>>
       ELSE Err
    /\ UNCHANGED limited

\* handle_response fails: a refusal, perhaps with a ban (-1003), or a reply
\* that cannot be read.  There is no retry.
ResponseFails(Effect, Err) ==
    /\ ~limited \/ attempt > 0
    /\ Fault
    /\ Err
    /\ \/ UNCHANGED exchange /\ limited' \in {limited, TRUE}
       \/ Effect /\ UNCHANGED limited

Fails(Effect, Err) ==
    \/ attempt = 0 /\ Banned(Err)
    \/ SendFails(Effect, Err)
    \/ ResponseFails(Effect, Err)

Answers == (~limited \/ attempt > 0) /\ UNCHANGED <<limited, faults>>

-----------------------------------------------------------------------------
ToFallback == Goto("fallback") /\ UNCHANGED <<polls, id, executed, reported>>

Place ==
    /\ pc = "place"
    /\ \/ /\ Answers
          /\ Accepted
          /\ id' = Len(orders')
          /\ IF orders'[id'].status = "filled"
             THEN Goto("done") /\ reported' = Quantity
             ELSE Goto("poll") /\ UNCHANGED reported
          /\ UNCHANGED <<polls, executed>>
       \/ Fails(Accepted, ToFallback)

\* Mutation of Waiting: `while waited <= wait_secs`.
WaitingInclusive == polls <= MaxPolls

\* `while waited < wait_secs`.
Waiting == polls < MaxPolls

\* Mutation of NextRound: a round that finds nothing is not counted.
NextRoundUncounted == Goto("poll") /\ UNCHANGED <<polls, id, executed, reported>>

\* One round of the loop.  An error only costs the round.
NextRound ==
    /\ polls' = polls + 1
    /\ Goto("poll")
    /\ UNCHANGED <<id, executed, reported>>

Poll ==
    /\ pc = "poll"
    /\ Waiting
    /\ \/ /\ Answers
          /\ Asked
          /\ CASE orders[id].status = "filled" ->
                    /\ Goto("done")
                    /\ reported' = Quantity
                    /\ UNCHANGED <<polls, id, executed>>
               [] orders[id].status = "ended" ->
                    /\ Goto("cancel")
                    /\ UNCHANGED <<polls, id, executed, reported>>
               [] OTHER -> NextRound
       \/ Fails(Asked, NextRound)

WaitOver ==
    /\ pc = "poll"
    /\ ~Waiting
    /\ Goto("cancel")
    /\ UNCHANGED <<exchange, polls, id, executed, reported, limited, faults>>

\* The outcome of the cancel call is only logged.
ToConfirm == Goto("confirm") /\ UNCHANGED <<polls, id, executed, reported>>

Cancel ==
    /\ pc = "cancel"
    /\ \/ Answers /\ Cancelled /\ ToConfirm
       \/ Answers /\ ~Live(id) /\ UNCHANGED exchange /\ ToConfirm
       \/ Fails(Cancelled, ToConfirm)

\* What the limit order filled; 0 when the query fails.
Count(n) ==
    /\ executed' = n
    /\ IF n < Quantity THEN Goto("market") /\ UNCHANGED reported
       ELSE Goto("done") /\ reported' = n
    /\ UNCHANGED <<polls, id>>

\* Mutation of Confirm: a query that fails counts as a full fill.
ConfirmOptimistic ==
    /\ pc = "confirm"
    /\ \/ Answers /\ Asked /\ Count(orders[id].filled)
       \/ Fails(Asked, Count(Quantity))

Confirm ==
    /\ pc = "confirm"
    /\ \/ Answers /\ Asked /\ Count(orders[id].filled)
       \/ Fails(Asked, Count(0))

\* Mutation of Remaining: the filled part is not subtracted.
RemainingAll == Quantity

Remaining == Quantity - executed

Report(n) == reported' = n /\ Goto("done") /\ UNCHANGED <<polls, id, executed>>

Market ==
    /\ pc = "market"
    /\ \/ Answers /\ Bought(Remaining) /\ Report(executed + Remaining)
       \/ Fails(Bought(Remaining), ToFallback)

\* execute_signal: any error of the above, then the whole quantity at market.
Fallback ==
    /\ pc = "fallback"
    /\ \/ Answers /\ Bought(Quantity) /\ Report(Quantity)
       \/ Fails(Bought(Quantity),
                Goto("failed") /\ UNCHANGED <<polls, id, executed, reported>>)

Client ==
    /\ Place \/ Poll \/ WaitOver \/ Cancel \/ Confirm \/ Market \/ Fallback
    /\ UNCHANGED banShared

Over == pc \in {"done", "failed"}

EntryNext == Fill \/ Expire \/ CoolDown \/ OthersBan \/ Client

EntrySpec == EntryInit /\ [][EntryNext]_entryVars

\* Every await of the client has a timeout.
FairEntrySpec == EntrySpec /\ WF_entryVars(Client)

-----------------------------------------------------------------------------
Calls == {"place", "poll", "cancel", "confirm", "market", "fallback"}

EntryTypes ==
    /\ orders \in Seq([filled : 0 .. Quantity,
                       status : {"live", "filled", "ended"}])
    /\ market \in Nat
    /\ pc \in Calls \cup {"done", "failed"}
    /\ attempt \in 0 .. MaxRetries
    /\ polls \in 0 .. MaxPolls
    /\ id \in 0 .. Len(orders)
    /\ executed \in 0 .. Quantity
    /\ reported \in 0 .. Quantity
    /\ limited \in BOOLEAN
    /\ faults \in 0 .. MaxFaults
    /\ banShared \in BOOLEAN

\* The units of the orders, by order and number: those that are bought, and those
\* that may still be.
Units == (DOMAIN orders) \X (1 .. Quantity)
InOrders == {u \in Units : u[2] <= orders[u[1]].filled}
StillOpen == {u \in Units : Live(u[1]) /\ u[2] > orders[u[1]].filled}
LiveOrders == {i \in DOMAIN orders : Live(i)}
TotalBought == Cardinality(InOrders) + market

\* What may be bought beside the quantity: once more for each call that goes
\* wrong, and once in all when other tasks were told of bans, however many.
Excess == (faults + (IF banShared THEN 1 ELSE 0)) * Quantity

\* Each call that goes wrong can cost one more quantity, and no more: neither
\* the retries nor the two fallbacks multiply.  A ban that another task brings on
\* the client makes cancel and confirm fail unsent with no call of the entry gone
\* wrong, and costs a quantity too, but only the first.  When every call succeeds
\* and no one else is banned, the entry buys exactly its quantity, says so, and
\* leaves nothing on the book, however the fills race the polls and the cancel.
ExcessExplained ==
    /\ TotalBought + Cardinality(StillOpen) <= Quantity + Excess
    /\ Over /\ faults = 0 /\ ~banShared =>
         /\ pc = "done"
         /\ TotalBought = Quantity
         /\ reported = Quantity
         /\ LiveOrders = {}

\* The strategy is never told of a purchase that was not made.
NeverOverstated == pc = "done" => reported <= TotalBought

\* The entry ends, so the dispatcher that waits for it goes on.
EntryEnds == <>Over
=============================================================================
