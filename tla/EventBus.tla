------------------------------ MODULE EventBus ------------------------------
(***************************************************************************)
(* src/event_bus.rs: TokioEventBus (a tokio broadcast ring plus a map of   *)
(* subscribed handlers) and EventDispatcher (one task that receives one    *)
(* event at a time, runs every interested handler and waits for all of     *)
(* them before it receives the next).                                      *)
(*                                                                         *)
(* Events are numbered by publication.  A handler is named by its          *)
(* subscription id.  Handlers publish on the same bus while they run; that *)
(* is Publish, which nothing ever blocks.                                  *)
(***************************************************************************)
EXTENDS Naturals, Sequences, FiniteSets

CONSTANTS
    EventTypes,   \* the EventType values that events carry
    All,          \* EventType::All, the wildcard a handler may ask for
    Capacity,     \* slots of the broadcast ring
    MaxSubs,      \* bound: subscriptions made in a behaviour
    MaxEvents,    \* bound: events published in a behaviour
    Interest      \* Interest[s]: event_types() of the handler behind id s

Subs == 1 .. MaxSubs

ASSUME BusAssumption ==
    /\ Capacity \in Nat \ {0}
    /\ MaxSubs \in Nat
    /\ MaxEvents \in Nat
    /\ All \notin EventTypes
    /\ Interest \in [Subs -> SUBSET (EventTypes \cup {All})]

VARIABLES
    published,    \* types of all events ever sent; the ring is its tail
    handlers,     \* ids in TokioEventBus::handlers
    nextId,       \* TokioEventBus::next_subscription_id
    dispatcher,   \* "idle" before run(), "running", "stopped" after run()
    next,         \* the dispatcher's receive position: next event to take
    busy,         \* handlers still inside handle() for event next - 1
    handled,      \* history: handled[s], the events s has finished handling
    since,        \* history: first event dispatched after s subscribed
    until         \* history: first event dispatched after s unsubscribed

vars == <<published, handlers, nextId, dispatcher, next, busy,
          handled, since, until>>

\* The filter of EventDispatcher::run.
Wants(s, t) == All \in Interest[s] \/ t \in Interest[s]

Init ==
    /\ published = <<>>
    /\ handlers = {}
    /\ nextId = 1
    /\ dispatcher = "idle"
    /\ next = 1
    /\ busy = {}
    /\ handled = [s \in Subs |-> {}]
    /\ since = [s \in Subs |-> 1]
    /\ until = [s \in Subs |-> 1]

\* publish: the bus keeps a receiver of its own, so send() always succeeds,
\* whatever the dispatcher does; the oldest slot is overwritten silently.
Publish(t) ==
    /\ Len(published) < MaxEvents
    /\ published' = Append(published, t)
    /\ UNCHANGED <<handlers, nextId, dispatcher, next, busy,
                   handled, since, until>>

Subscribe ==
    /\ nextId \in Subs
    /\ nextId' = nextId + 1
    /\ handlers' = handlers \cup {nextId}
    /\ since' = [since EXCEPT ![nextId] = next]
    /\ UNCHANGED <<published, dispatcher, next, busy, handled, until>>

Unsubscribe(s) ==
    /\ s \in handlers
    /\ handlers' = handlers \ {s}
    /\ until' = [until EXCEPT ![s] = next]
    /\ UNCHANGED <<published, nextId, dispatcher, next, busy, handled, since>>

\* Mutation of Start: the receiver begins with what the ring still holds.
StartFromOldest ==
    /\ dispatcher = "idle"
    /\ dispatcher' = "running"
    /\ next' = 1
    /\ since' = [s \in Subs |-> IF s \in handlers THEN next' ELSE since[s]]
    /\ UNCHANGED <<published, handlers, nextId, busy, handled, until>>

\* run() starts: its receiver sees only what is sent from now on.
Start ==
    /\ dispatcher = "idle"
    /\ dispatcher' = "running"
    /\ next' = Len(published) + 1
    /\ since' = [s \in Subs |-> IF s \in handlers THEN next' ELSE since[s]]
    /\ UNCHANGED <<published, handlers, nextId, busy, handled, until>>

\* The slot of event number next has been overwritten.
Lagged == Len(published) >= next + Capacity

\* Mutation of Dispatch: handlers are started and not waited for.
DispatchUnjoined ==
    /\ dispatcher = "running"
    /\ next <= Len(published)
    /\ ~Lagged
    /\ busy' = {s \in handlers : Wants(s, published[next])}
    /\ next' = next + 1
    /\ UNCHANGED <<published, handlers, nextId, dispatcher,
                   handled, since, until>>

\* recv() yields an event; the handlers that want it are looked up and all
\* started.  With no such handler, `continue`: busy stays empty.
Dispatch ==
    /\ dispatcher = "running"
    /\ busy = {}
    /\ next <= Len(published)
    /\ ~Lagged
    /\ busy' = {s \in handlers : Wants(s, published[next])}
    /\ next' = next + 1
    /\ UNCHANGED <<published, handlers, nextId, dispatcher,
                   handled, since, until>>

\* handle() of s returns (Ok or Err: an error is only logged).
Finish(s) ==
    /\ s \in busy
    /\ busy' = busy \ {s}
    /\ handled' = [handled EXCEPT ![s] = @ \cup {next - 1}]
    /\ UNCHANGED <<published, handlers, nextId, dispatcher, next, since, until>>

\* Mutation of Stop: the error is ignored and recv() is called again, for the
\* same position.
StopIgnored ==
    /\ dispatcher = "running"
    /\ busy = {}
    /\ Lagged
    /\ UNCHANGED vars

\* recv() yields RecvError::Lagged, which ends `while let Ok(event)`: run()
\* returns and nothing starts it again.
Stop ==
    /\ dispatcher = "running"
    /\ busy = {}
    /\ Lagged
    /\ dispatcher' = "stopped"
    /\ UNCHANGED <<published, handlers, nextId, next, busy,
                   handled, since, until>>

Next ==
    \/ \E t \in EventTypes : Publish(t)
    \/ Subscribe
    \/ \E s \in Subs : Unsubscribe(s) \/ Finish(s)
    \/ Start
    \/ Dispatch
    \/ Stop

\* The dispatcher task is polled whenever it can go on, and every handle()
\* returns: each await in a handler has a timeout.
Fairness ==
    /\ WF_vars(Start)
    /\ WF_vars(Dispatch \/ Stop)
    /\ \A s \in Subs : WF_vars(Finish(s))

Spec == Init /\ [][Next]_vars
FairSpec == Spec /\ Fairness

-----------------------------------------------------------------------------
\* Types, and the shape of the dispatcher's state.
TypeOK ==
    /\ published \in Seq(EventTypes)
    /\ handlers \subseteq Subs
    /\ nextId \in 1 .. MaxSubs + 1
    /\ dispatcher \in {"idle", "running", "stopped"}
    /\ next \in Nat \ {0}
    /\ busy \subseteq Subs
    /\ handled \in [Subs -> SUBSET Nat]
    /\ since \in [Subs -> Nat \ {0}]
    /\ until \in [Subs -> Nat \ {0}]

\* The events that s must have been given so far: those it wants among the
\* ones dispatched while it was subscribed.
Due(s) ==
    {n \in since[s] .. (IF s \in handlers THEN next ELSE until[s]) - 1 :
        Wants(s, published[n])}

\* No event is skipped, given twice or given to a handler that did not ask:
\* each subscription has handled exactly its due events, save the one it is
\* working on.  (join_all before the next recv; filter by event_types.)
DeliveredExactly ==
    \A s \in Subs :
        s < nextId =>
            handled[s] = Due(s) \ (IF s \in busy THEN {next - 1} ELSE {})

\* The dispatcher gives up only when the ring really has overwritten an event
\* it had not received, never with a backlog that still fits.
StopsOnlyOnLag ==
    dispatcher = "stopped" =>
        /\ Len(published) - (next - 1) > Capacity
        /\ busy = {}

\* While the dispatcher lives, every published event is eventually taken from
\* the ring; a slow handler can only delay it or make the dispatcher stop.
EventuallyDispatched ==
    \A n \in 1 .. MaxEvents :
        (dispatcher = "running" /\ Len(published) >= n)
            ~> (next > n \/ dispatcher = "stopped")

-----------------------------------------------------------------------------
\* The bus implements a bus of mailboxes.  A mailbox holds the event its owner
\* is working on and, while the dispatcher runs, the wanted part of the ring.
Box(s) ==
    {n \in 1 .. Len(published) :
        \/ n = next - 1 /\ s \in busy
        \/ /\ dispatcher = "running"
           /\ s \in handlers
           /\ n >= next
           /\ Wants(s, published[n])}

BusState == IF dispatcher = "idle" THEN "closed"
            ELSE IF dispatcher = "running" THEN "open" ELSE "shut"

M == INSTANCE Mailboxes WITH
        Cares <- Wants, bus <- BusState, open <- handlers,
        box <- [s \in Subs |-> Box(s)]

\* Every behaviour of the ring and its dispatcher is one of per-subscriber
\* mailboxes that are read in order and that may be shut once, for good.
ImplementsMailboxes == M!Spec
=============================================================================
