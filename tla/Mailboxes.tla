----------------------------- MODULE Mailboxes ------------------------------
(***************************************************************************)
(* What the event bus promises to its subscribers, without the ring buffer *)
(* or the dispatcher: every subscription owns a mailbox.  While the bus is *)
(* open, an event is posted to the mailbox of every open subscription that *)
(* cares for its type, and a subscription handles its mail one event at a  *)
(* time, oldest first.  The bus may shut for good; unread mail is lost     *)
(* then.  Events are named by their publication number.                    *)
(***************************************************************************)
EXTENDS Naturals, Sequences

CONSTANTS
    EventTypes,   \* event types (without the wildcard)
    Subs,         \* subscription ids
    Cares(_, _)   \* Cares(s, t): subscription s wants events of type t

VARIABLES
    published,    \* every event ever sent, as the sequence of their types
    bus,          \* "closed" before the start, "open", or "shut" for good
    open,         \* the subscriptions in force
    box,          \* box[s]: the events s has still to handle
    handled       \* handled[s]: the events s has handled

mvars == <<published, bus, open, box, handled>>

Init ==
    /\ published = <<>>
    /\ bus = "closed"
    /\ open = {}
    /\ box = [s \in Subs |-> {}]
    /\ handled = [s \in Subs |-> {}]

\* Post an event of type t: it is mail for every open subscription that cares.
Post(t) ==
    /\ published' = Append(published, t)
    /\ box' = [s \in Subs |->
                 IF bus = "open" /\ s \in open /\ Cares(s, t)
                 THEN box[s] \cup {Len(published) + 1} ELSE box[s]]
    /\ UNCHANGED <<bus, open, handled>>

\* Only what is published after the opening is ever delivered.
Open ==
    /\ bus = "closed"
    /\ bus' = "open"
    /\ UNCHANGED <<published, open, box, handled>>

\* A subscription made while events are waiting gets those it cares for that
\* nobody has looked at yet: the mail may include any suffix of the backlog.
Join(s) ==
    /\ open' = open \cup {s}
    /\ \E from \in 1 .. Len(published) + 1 :
         box' = [box EXCEPT ![s] =
                   {n \in from .. Len(published) : Cares(s, published[n])}]
    /\ UNCHANGED <<published, bus, handled>>

\* Mail already being read stays; the rest is gone with the subscription.
Leave(s) ==
    /\ open' = open \ {s}
    /\ \E kept \in SUBSET box[s] :
         /\ \A n \in kept, m \in box[s] : n <= m
         /\ box' = [box EXCEPT ![s] = kept]
    /\ UNCHANGED <<published, bus, handled>>

\* s handles the oldest event in its mailbox.
Handle(s) ==
    \E n \in box[s] :
        /\ \A m \in box[s] : n <= m
        /\ box' = [box EXCEPT ![s] = @ \ {n}]
        /\ handled' = [handled EXCEPT ![s] = @ \cup {n}]
        /\ UNCHANGED <<published, bus, open>>

\* The bus shuts: no mailbox holds anything afterwards.
Shut ==
    /\ bus = "open"
    /\ bus' = "shut"
    /\ box' = [s \in Subs |-> {}]
    /\ UNCHANGED <<published, open, handled>>

Next ==
    \/ \E t \in EventTypes : Post(t)
    \/ Open
    \/ \E s \in Subs : Join(s) \/ Leave(s) \/ Handle(s)
    \/ Shut

Spec == Init /\ [][Next]_mvars
=============================================================================
