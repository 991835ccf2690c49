--------------------------- MODULE EventBusProofs ---------------------------
(***************************************************************************)
(* For every number of subscriptions and events, every ring size and every *)
(* set of interests: the bus delivers exactly the due events and stops     *)
(* only on a real lag.  The ring and its dispatcher implement mailboxes:   *)
(* initial states map to initial states and every step to a step of        *)
(* Mailboxes or to none.                                                   *)
(***************************************************************************)
EXTENDS EventBus, TLAPS

\* The strengthening that makes delivery inductive: where the receive position
\* can be, which ids exist, and that a handler at work owes event next - 1.
Positions ==
    /\ next <= Len(published) + 1
    /\ \A s \in Subs : since[s] <= next /\ until[s] <= next
    /\ dispatcher = "idle" =>
         /\ next = 1
         /\ busy = {}
         /\ \A s \in Subs : handled[s] = {}

Known ==
    /\ \A s \in handlers \cup busy : s < nextId
    /\ \A s \in Subs : s >= nextId => handled[s] = {}

AtWork == \A s \in busy : next - 1 \in Due(s)

IInv ==
    /\ TypeOK
    /\ Positions
    /\ Known
    /\ AtWork
    /\ DeliveredExactly
    /\ StopsOnlyOnLag

-----------------------------------------------------------------------------
\* Types are kept by every step.
LEMMA TypeStep == TypeOK /\ [Next]_vars => TypeOK'
<1> SUFFICES ASSUME TypeOK, [Next]_vars PROVE TypeOK'
  OBVIOUS
<1> USE BusAssumption DEF TypeOK, Subs
<1>1. ASSUME NEW t \in EventTypes, Publish(t) PROVE TypeOK'
  BY <1>1 DEF Publish
<1>2. CASE Subscribe
  BY <1>2 DEF Subscribe
<1>3. ASSUME NEW s \in Subs, Unsubscribe(s) PROVE TypeOK'
  BY <1>3 DEF Unsubscribe
<1>4. ASSUME NEW s \in Subs, Finish(s) PROVE TypeOK'
  BY <1>4 DEF Finish
<1>5. CASE Start
  BY <1>5 DEF Start
<1>6. CASE Dispatch
  <2>1. busy' \subseteq handlers
    BY <1>6 DEF Dispatch
  <2>2. next' \in Nat \ {0}
    BY <1>6 DEF Dispatch
  <2>3. UNCHANGED <<published, handlers, nextId, dispatcher,
                    handled, since, until>>
    BY <1>6 DEF Dispatch
  <2>4. QED
    BY <2>1, <2>2, <2>3
<1>7. CASE Stop
  BY <1>7 DEF Stop
<1>8. CASE UNCHANGED vars
  BY <1>8 DEF vars
<1>9. QED
  BY <1>1, <1>2, <1>3, <1>4, <1>5, <1>6, <1>7, <1>8 DEF Next

\* The invariant holds initially: nothing has been sent or handled.
LEMMA InvInit == Init => IInv
<1> SUFFICES ASSUME Init PROVE IInv
  OBVIOUS
<1> USE BusAssumption DEF Init, Subs
<1>1. TypeOK
  BY DEF TypeOK
<1>2. Positions /\ Known /\ AtWork /\ StopsOnlyOnLag
  BY DEF Positions, Known, AtWork, StopsOnlyOnLag
<1>3. DeliveredExactly
  BY DEF DeliveredExactly, Due
<1>4. QED
  BY <1>1, <1>2, <1>3 DEF IInv

\* Where positions and ids may be is kept by every step.
LEMMA PositionsStep == IInv /\ [Next]_vars => Positions' /\ Known'
<1> SUFFICES ASSUME IInv, [Next]_vars PROVE Positions' /\ Known'
  OBVIOUS
<1> USE BusAssumption DEF IInv, TypeOK, Positions, Known, Subs
<1>1. ASSUME NEW t \in EventTypes, Publish(t) PROVE Positions' /\ Known'
  BY <1>1 DEF Publish
<1>2. CASE Subscribe
  BY <1>2 DEF Subscribe
<1>3. ASSUME NEW s \in Subs, Unsubscribe(s) PROVE Positions' /\ Known'
  BY <1>3 DEF Unsubscribe
<1>4. ASSUME NEW s \in Subs, Finish(s) PROVE Positions' /\ Known'
  BY <1>4 DEF Finish
<1>5. CASE Start
  BY <1>5 DEF Start
<1>6. CASE Dispatch
  BY <1>6 DEF Dispatch
<1>7. CASE Stop
  BY <1>7 DEF Stop
<1>8. CASE UNCHANGED vars
  BY <1>8 DEF vars
<1>9. QED
  BY <1>1, <1>2, <1>3, <1>4, <1>5, <1>6, <1>7, <1>8 DEF Next

\* The dispatcher stops only in a state that has lagged, and a backlog never
\* shrinks once nobody receives.
LEMMA StopStep == IInv /\ [Next]_vars => StopsOnlyOnLag'
<1> SUFFICES ASSUME IInv, [Next]_vars PROVE StopsOnlyOnLag'
  OBVIOUS
<1> USE BusAssumption DEF IInv, TypeOK, StopsOnlyOnLag, Subs
<1>1. ASSUME NEW t \in EventTypes, Publish(t) PROVE StopsOnlyOnLag'
  BY <1>1 DEF Publish
<1>2. CASE Subscribe
  BY <1>2 DEF Subscribe
<1>3. ASSUME NEW s \in Subs, Unsubscribe(s) PROVE StopsOnlyOnLag'
  BY <1>3 DEF Unsubscribe
<1>4. ASSUME NEW s \in Subs, Finish(s) PROVE StopsOnlyOnLag'
  BY <1>4 DEF Finish
<1>5. CASE Start
  BY <1>5 DEF Start
<1>6. CASE Dispatch
  BY <1>6 DEF Dispatch
<1>7. CASE Stop
  BY <1>7 DEF Stop, Lagged
<1>8. CASE UNCHANGED vars
  BY <1>8 DEF vars
<1>9. QED
  BY <1>1, <1>2, <1>3, <1>4, <1>5, <1>6, <1>7, <1>8 DEF Next

\* What an event's number means never changes: later publications leave the
\* types of earlier events alone.
LEMMA PublishKeeps ==
    ASSUME NEW t, published \in Seq(EventTypes), t \in EventTypes,
           published' = Append(published, t)
    PROVE  /\ Len(published') = Len(published) + 1
           /\ \A n \in 1 .. Len(published) : published'[n] = published[n]
  OBVIOUS

\* Steps that move neither the receive position nor a subscription and leave
\* the dispatched events' types alone leave what is due alone.
LEMMA DueUnchanged ==
    ASSUME IInv, NEW s \in Subs,
           UNCHANGED <<next, handlers, since, until>>,
           \A n \in 1 .. Len(published) : published'[n] = published[n]
    PROVE  Due(s)' = Due(s)
<1>1. \A n \in since[s] .. (IF s \in handlers THEN next ELSE until[s]) - 1 :
        n \in 1 .. Len(published)
  BY DEF IInv, TypeOK, Positions
<1>2. QED
  BY <1>1 DEF Due, Wants

\* Delivery is exact after every step.
LEMMA DeliveryStep == IInv /\ [Next]_vars => AtWork' /\ DeliveredExactly'
<1> SUFFICES ASSUME IInv, [Next]_vars PROVE AtWork' /\ DeliveredExactly'
  OBVIOUS
<1> USE BusAssumption
<1>1. ASSUME UNCHANGED <<next, handlers, since, until, busy, handled, nextId>>,
             \A n \in 1 .. Len(published) : published'[n] = published[n]
      PROVE  AtWork' /\ DeliveredExactly'
  <2>1. \A s \in Subs : Due(s)' = Due(s)
    BY <1>1, DueUnchanged
  <2>2. busy \subseteq Subs
    BY DEF IInv, TypeOK
  <2>3. QED
    BY <1>1, <2>1, <2>2 DEF AtWork, DeliveredExactly, IInv
<1>2. ASSUME NEW t \in EventTypes, Publish(t)
      PROVE AtWork' /\ DeliveredExactly'
  BY <1>1, <1>2, PublishKeeps DEF Publish, IInv, TypeOK
<1>3. CASE Subscribe
  <2>1. \A s \in Subs \ {nextId} : Due(s)' = Due(s)
    BY <1>3 DEF Subscribe, Due, IInv, TypeOK, Subs
  <2>2. \A s \in Subs : s = nextId => Due(s)' = {}
    <3> SUFFICES ASSUME NEW s \in Subs, s = nextId PROVE Due(s)' = {}
      OBVIOUS
    <3>1. s \in handlers' /\ since'[s] = next /\ next' = next
      BY <1>3 DEF Subscribe, IInv, TypeOK
    <3>2. Due(s)' = {n \in next .. next - 1 : Wants(s, published[n])}
      BY <1>3, <3>1 DEF Subscribe, Due, Wants
    <3>3. QED
      BY <3>2 DEF IInv, TypeOK
  <2>3. nextId \notin busy /\ (nextId \in Subs => handled[nextId] = {})
    BY DEF IInv, Known, TypeOK, Subs
  <2>4. nextId' = nextId + 1 /\ UNCHANGED <<next, busy, handled>>
    BY <1>3 DEF Subscribe
  <2>5. AtWork'
    BY <1>3, <2>1, <2>3 DEF Subscribe, AtWork, IInv, TypeOK
  <2>6. DeliveredExactly'
    <3> SUFFICES ASSUME NEW s \in Subs, s < nextId'
                 PROVE handled'[s] = Due(s)' \ (IF s \in busy' THEN {next' - 1} ELSE {})
      BY DEF DeliveredExactly
    <3>1. CASE s = nextId
      BY <2>2, <2>3, <2>4, <3>1
    <3>2. CASE s # nextId
      <4>1. s < nextId
        BY <2>4, <3>2 DEF IInv, TypeOK, Subs
      <4>2. handled[s] = Due(s) \ (IF s \in busy THEN {next - 1} ELSE {})
        BY <4>1 DEF IInv, DeliveredExactly
      <4>3. QED
        BY <2>1, <2>4, <3>2, <4>2
    <3>3. QED
      BY <3>1, <3>2
  <2>7. QED
    BY <2>5, <2>6
<1>4. ASSUME NEW u \in Subs, Unsubscribe(u)
      PROVE AtWork' /\ DeliveredExactly'
  <2>1. \A s \in Subs : Due(s)' = Due(s)
    BY <1>4 DEF Unsubscribe, Due, IInv, TypeOK, Subs, Wants
  <2>2. QED
    BY <1>4, <2>1 DEF Unsubscribe, AtWork, DeliveredExactly, IInv, TypeOK
<1>5. ASSUME NEW u \in Subs, Finish(u)
      PROVE AtWork' /\ DeliveredExactly'
  <2>1. \A s \in Subs : Due(s)' = Due(s)
    BY <1>5 DEF Finish, Due, IInv, TypeOK, Subs, Wants
  <2>2. AtWork'
    BY <1>5, <2>1 DEF Finish, AtWork, IInv, TypeOK
  <2>3. \A s \in Subs : s # u => handled'[s] = handled[s]
    BY <1>5 DEF Finish, IInv, TypeOK
  <2>4. handled'[u] = handled[u] \cup {next - 1} /\ u \in busy
    BY <1>5 DEF Finish, IInv, TypeOK
  <2>5. next - 1 \in Due(u)
    BY <2>4 DEF IInv, AtWork
  <2>6. DeliveredExactly'
    <3> SUFFICES ASSUME NEW s \in Subs, s < nextId'
                 PROVE handled'[s] = Due(s)' \ (IF s \in busy' THEN {next' - 1} ELSE {})
      BY DEF DeliveredExactly
    <3>1. handled[s] = Due(s) \ (IF s \in busy THEN {next - 1} ELSE {})
      BY <1>5 DEF Finish, IInv, DeliveredExactly
    <3>2. CASE s = u
      BY <1>5, <2>1, <2>4, <2>5, <3>1, <3>2 DEF Finish
    <3>3. CASE s # u
      BY <1>5, <2>1, <2>3, <3>1, <3>3 DEF Finish
    <3>4. QED
      BY <3>2, <3>3
  <2>7. QED
    BY <2>2, <2>6
<1>6. CASE Start
  <2>1. \A s \in Subs : Due(s)' = {}
    BY <1>6 DEF Start, Due, IInv, TypeOK, Positions, Subs
  <2>2. QED
    BY <1>6, <2>1 DEF Start, AtWork, DeliveredExactly, IInv, Positions
<1>7. CASE Dispatch
  <2>1. next \in Nat \ {0} /\ next' = next + 1 /\ busy = {} /\ handled' = handled
    BY <1>7 DEF Dispatch, IInv, TypeOK
  <2>2. \A s \in Subs : s \in busy' <=> s \in handlers /\ Wants(s, published[next])
    BY <1>7 DEF Dispatch
  <2>3. \A s \in Subs : Due(s)' = Due(s) \cup (IF s \in busy' THEN {next} ELSE {})
    <3> SUFFICES ASSUME NEW s \in Subs
                 PROVE Due(s)' = Due(s) \cup (IF s \in busy' THEN {next} ELSE {})
      OBVIOUS
    <3>1. since[s] \in Nat \ {0} /\ since[s] <= next
      BY DEF IInv, TypeOK, Positions
    <3>2. CASE s \in handlers
      <4>1. Due(s)' = {n \in since[s] .. next : Wants(s, published[n])}
        BY <1>7, <2>1, <3>2 DEF Dispatch, Due, Wants
      <4>2. Due(s) = {n \in since[s] .. next - 1 : Wants(s, published[n])}
        BY <3>2 DEF Due
      <4>3. \A n : n \in since[s] .. next <=> n \in since[s] .. next - 1 \/ n = next
        BY <2>1, <3>1
      <4>4. QED
        BY <2>2, <3>2, <4>1, <4>2, <4>3
    <3>3. CASE s \notin handlers
      BY <1>7, <2>2, <3>3 DEF Dispatch, Due, Wants
    <3>4. QED
      BY <3>2, <3>3
  <2>4. AtWork'
    BY <1>7, <2>1, <2>3 DEF AtWork, Dispatch, IInv, TypeOK
  <2>5. DeliveredExactly'
    <3> SUFFICES ASSUME NEW s \in Subs, s < nextId'
                 PROVE handled'[s] = Due(s)' \ (IF s \in busy' THEN {next' - 1} ELSE {})
      BY DEF DeliveredExactly
    <3>1. handled[s] = Due(s)
      BY <1>7, <2>1 DEF Dispatch, IInv, DeliveredExactly
    <3>2. next \notin Due(s)
      BY <2>1 DEF Due, IInv, TypeOK, Positions
    <3>3. QED
      BY <2>1, <2>3, <3>1, <3>2
  <2>6. QED
    BY <2>4, <2>5
<1>8. CASE Stop
  BY <1>1, <1>8 DEF Stop
<1>9. CASE UNCHANGED vars
  BY <1>1, <1>9 DEF vars
<1>10. QED
  BY <1>2, <1>3, <1>4, <1>5, <1>6, <1>7, <1>8, <1>9 DEF Next

LEMMA InvStep == IInv /\ [Next]_vars => IInv'
BY TypeStep, PositionsStep, StopStep, DeliveryStep DEF IInv

-----------------------------------------------------------------------------
\* The inductive invariant holds in every reachable state.
THEOREM Invariant == Spec => []IInv
<1>1. Init => IInv
  BY InvInit
<1>2. IInv /\ [Next]_vars => IInv'
  BY InvStep
<1>3. QED
  BY <1>1, <1>2, PTL DEF Spec

\* Type correctness, for every ring size, interest and bound.
THEOREM TypeCorrect == Spec => []TypeOK
<1>1. IInv => TypeOK
  BY DEF IInv
<1>2. QED
  BY Invariant, <1>1, PTL

\* Every handler of the bus is given exactly the events it asked for while it
\* was subscribed: the filter, join_all and the ring lose and repeat nothing.
THEOREM Delivery == Spec => []DeliveredExactly
<1>1. IInv => DeliveredExactly
  BY DEF IInv
<1>2. QED
  BY Invariant, <1>1, PTL

\* EventDispatcher::run returns only after the ring has overwritten an event.
THEOREM StopsOnLag == Spec => []StopsOnlyOnLag
<1>1. IInv => StopsOnlyOnLag
  BY DEF IInv
<1>2. QED
  BY Invariant, <1>1, PTL

-----------------------------------------------------------------------------
\* The three phases of the dispatcher are the three phases of the bus.
LEMMA PhaseMaps ==
    ASSUME TypeOK
    PROVE  /\ BusState = "closed" <=> dispatcher = "idle"
           /\ BusState = "open" <=> dispatcher = "running"
           /\ BusState = "shut" <=> dispatcher = "stopped"
  BY DEF TypeOK, BusState

\* No subscription has mail before the dispatcher runs.
LEMMA EmptyBefore ==
    ASSUME IInv, dispatcher = "idle", NEW s \in Subs
    PROVE  Box(s) = {}
  BY DEF IInv, Positions, Box

\* Publishing posts to the open subscriptions that want the event.
LEMMA PostMaps ==
    ASSUME IInv, IInv', NEW t \in EventTypes, Publish(t)
    PROVE  M!Post(t)
<1>1. /\ published' = Append(published, t)
      /\ Len(published') = Len(published) + 1
      /\ \A n \in 1 .. Len(published) : published'[n] = published[n]
      /\ published'[Len(published) + 1] = t
  BY DEF Publish, IInv, TypeOK
<1>2. UNCHANGED <<handlers, dispatcher, next, busy, handled>>
  BY DEF Publish
<1>3. UNCHANGED BusState
  BY <1>2 DEF BusState
<1>4. next \in Nat \ {0} /\ next <= Len(published) + 1
  BY DEF IInv, TypeOK, Positions
<1>5. Len(published) \in Nat
  BY DEF IInv, TypeOK
<1>6. ASSUME NEW s \in Subs
      PROVE  Box(s)' = IF BusState = "open" /\ s \in handlers /\ Wants(s, t)
                       THEN Box(s) \cup {Len(published) + 1} ELSE Box(s)
  <2>1. BusState = "open" <=> dispatcher = "running"
    BY PhaseMaps DEF IInv
  <2>2. \A n : n \in 1 .. Len(published') <=>
               n \in 1 .. Len(published) \/ n = Len(published) + 1
    BY <1>1, <1>5
  <2>3. \A n : n \in Box(s)' <=>
          /\ n \in 1 .. Len(published')
          /\ \/ n = next - 1 /\ s \in busy
             \/ /\ dispatcher = "running"
                /\ s \in handlers
                /\ n >= next
                /\ Wants(s, published'[n])
    BY <1>2 DEF Box, Wants
  <2>4. ~(Len(published) + 1 = next - 1) /\ Len(published) + 1 >= next
    BY <1>4, <1>5
  <2>5. Len(published) + 1 \in Box(s)' <=>
          BusState = "open" /\ s \in handlers /\ Wants(s, t)
    BY <1>1, <2>1, <2>2, <2>3, <2>4
  <2>6. \A n \in 1 .. Len(published) : n \in Box(s)' <=> n \in Box(s)
    BY <1>1, <2>2, <2>3 DEF Box
  <2>7. Box(s) \subseteq 1 .. Len(published)
    BY DEF Box
  <2>8. Box(s)' \subseteq 1 .. Len(published')
    BY <2>3
  <2>9. Len(published) + 1 \notin 1 .. Len(published)
    BY <1>5
  <2> DEFINE Mail == BusState = "open" /\ s \in handlers /\ Wants(s, t)
  <2> HIDE DEF Mail
  <2>10. \A n : n \in Box(s)' <=> n \in Box(s) \/ (Mail /\ n = Len(published) + 1)
    BY <2>2, <2>5, <2>6, <2>7, <2>8, <2>9 DEF Mail
  <2>11. CASE Mail
    BY <2>10, <2>11 DEF Mail
  <2>12. CASE ~Mail
    <3>1. Box(s)' = Box(s)
      BY <2>10, <2>12
    <3>2. QED
      BY <2>12, <3>1 DEF Mail
  <2>13. QED
    BY <2>11, <2>12
<1>7. QED
  BY <1>1, <1>2, <1>3, <1>6 DEF M!Post

\* Subscribing joins with the mail nobody has looked at.
LEMMA JoinMaps ==
    ASSUME IInv, IInv', Subscribe
    PROVE  M!Join(nextId)
<1>1. /\ nextId \in Subs
      /\ handlers' = handlers \cup {nextId}
      /\ UNCHANGED <<published, dispatcher, next, busy, handled>>
  BY DEF Subscribe
<1>2. nextId \notin busy /\ next \in Nat \ {0} /\ next <= Len(published) + 1
      /\ Len(published) \in Nat
  BY DEF IInv, Known, TypeOK, Positions, Subs
<1>3. UNCHANGED BusState
  BY <1>1 DEF BusState
<1>4. \A s \in Subs : s # nextId => Box(s)' = Box(s)
  BY <1>1 DEF Box, Wants
<1>5. \A s \in Subs : s = nextId =>
        Box(s)' = {n \in 1 .. Len(published) :
                     dispatcher = "running" /\ n >= next /\ Wants(s, published[n])}
  BY <1>1, <1>2 DEF Box, Wants
<1>6. PICK from \in 1 .. Len(published) + 1 :
        from = IF dispatcher = "running" THEN next ELSE Len(published) + 1
  BY <1>2
<1>7. \A s \in Subs : s = nextId =>
        Box(s)' = {n \in from .. Len(published) : Wants(s, published[n])}
  <2>1. CASE dispatcher = "running"
    BY <1>2, <1>5, <1>6, <2>1
  <2>2. CASE dispatcher # "running"
    BY <1>2, <1>5, <1>6, <2>2
  <2>3. QED
    BY <2>1, <2>2
<1>8. [s \in Subs |-> Box(s)]' =
        [[s \in Subs |-> Box(s)] EXCEPT ![nextId] =
            {n \in from .. Len(published) : Wants(nextId, published[n])}]
  BY <1>1, <1>4, <1>7
<1>9. QED
  BY <1>1, <1>3, <1>6, <1>8 DEF M!Join

\* Unsubscribing leaves at most the event being handled.
LEMMA LeaveMaps ==
    ASSUME IInv, IInv', NEW u \in Subs, Unsubscribe(u)
    PROVE  M!Leave(u)
<1>1. /\ u \in handlers
      /\ handlers' = handlers \ {u}
      /\ UNCHANGED <<published, dispatcher, next, busy, handled>>
  BY DEF Unsubscribe
<1>2. next \in Nat \ {0}
  BY DEF IInv, TypeOK
<1>3. UNCHANGED BusState
  BY <1>1 DEF BusState
<1>4. \A s \in Subs : s # u => Box(s)' = Box(s)
  BY <1>1 DEF Box, Wants
<1>5. Box(u)' = {n \in 1 .. Len(published) : n = next - 1 /\ u \in busy}
  BY <1>1 DEF Box, Wants
<1>6. /\ Box(u)' \in SUBSET Box(u)
      /\ \A n \in Box(u)', m \in Box(u) : n <= m
  BY <1>2, <1>5 DEF Box
<1>7. [s \in Subs |-> Box(s)]' = [[s \in Subs |-> Box(s)] EXCEPT ![u] = Box(u)']
  BY <1>4
<1>8. QED
  BY <1>1, <1>3, <1>6, <1>7 DEF M!Leave

\* A handler that returns has handled the oldest event of its mailbox.
LEMMA HandleMaps ==
    ASSUME IInv, IInv', NEW u \in Subs, Finish(u)
    PROVE  M!Handle(u)
<1>1. /\ u \in busy
      /\ busy' = busy \ {u}
      /\ handled' = [handled EXCEPT ![u] = @ \cup {next - 1}]
      /\ UNCHANGED <<published, handlers, dispatcher, next>>
  BY DEF Finish
<1>2. next \in Nat \ {0} /\ next <= Len(published) + 1 /\ Len(published) \in Nat
  BY DEF IInv, TypeOK, Positions
<1>3. next - 1 \in 1 .. Len(published)
  <2>1. next - 1 \in Due(u)
    BY <1>1 DEF IInv, AtWork
  <2>2. since[u] \in Nat \ {0}
    BY DEF IInv, TypeOK
  <2>3. next - 1 >= 1
    BY <2>1, <2>2, <1>2 DEF Due
  <2>4. QED
    BY <1>2, <2>3
<1>4. UNCHANGED BusState
  BY <1>1 DEF BusState
<1>5. \A s \in Subs : s # u => Box(s)' = Box(s)
  BY <1>1 DEF Box, Wants
<1>6. next - 1 \in Box(u) /\ \A m \in Box(u) : next - 1 <= m
  BY <1>1, <1>2, <1>3 DEF Box
<1>7. Box(u)' = Box(u) \ {next - 1}
  BY <1>1, <1>2 DEF Box, Wants
<1>8. [s \in Subs |-> Box(s)]' =
        [[s \in Subs |-> Box(s)] EXCEPT ![u] = @ \ {next - 1}]
  BY <1>5, <1>7
<1>9. QED
  BY <1>1, <1>4, <1>6, <1>8 DEF M!Handle

\* The dispatcher's start opens the bus: there is no mail yet.
LEMMA OpenMaps ==
    ASSUME IInv, IInv', Start
    PROVE  M!Open
<1>1. /\ dispatcher = "idle" /\ dispatcher' = "running"
      /\ next' = Len(published) + 1
      /\ UNCHANGED <<published, handlers, busy, handled>>
  BY DEF Start
<1>2. BusState = "closed" /\ BusState' = "open"
  BY <1>1 DEF BusState
<1>3. busy = {} /\ Len(published) \in Nat
  BY <1>1 DEF IInv, Positions, TypeOK
<1>4. \A s \in Subs : Box(s) = {} /\ Box(s)' = {}
  BY <1>1, <1>3 DEF Box
<1>5. [s \in Subs |-> Box(s)]' = [s \in Subs |-> Box(s)]
  BY <1>4
<1>6. QED
  BY <1>1, <1>2, <1>5 DEF M!Open

\* Taking an event from the ring moves no mail: it stays in the mailboxes of
\* those that want it until they have handled it.
LEMMA DispatchMaps ==
    ASSUME IInv, IInv', Dispatch
    PROVE  UNCHANGED M!mvars
<1>1. /\ dispatcher = "running" /\ busy = {} /\ next <= Len(published)
      /\ next' = next + 1
      /\ UNCHANGED <<published, handlers, dispatcher, handled>>
  BY DEF Dispatch
<1>2. \A s \in Subs : s \in busy' <=> s \in handlers /\ Wants(s, published[next])
  BY DEF Dispatch
<1>3. next \in Nat \ {0} /\ Len(published) \in Nat
  BY DEF IInv, TypeOK
<1>4. ASSUME NEW s \in Subs PROVE Box(s)' = Box(s)
  <2>1. ASSUME NEW n \in 1 .. Len(published)
        PROVE  n \in Box(s)' <=> n \in Box(s)
    <3>1. n \in Box(s) <=> s \in handlers /\ n >= next /\ Wants(s, published[n])
      BY <1>1 DEF Box
    <3>2. n \in Box(s)' <=>
            \/ n = next /\ s \in busy'
            \/ s \in handlers /\ n >= next + 1 /\ Wants(s, published[n])
      BY <1>1, <1>3 DEF Box, Wants
    <3>3. n >= next <=> n = next \/ n >= next + 1
      BY <1>3
    <3>4. QED
      BY <1>2, <3>1, <3>2, <3>3
  <2>2. Box(s) \subseteq 1 .. Len(published) /\ Box(s)' \subseteq 1 .. Len(published)
    BY <1>1 DEF Box
  <2>3. QED
    BY <2>1, <2>2
<1>5. [s \in Subs |-> Box(s)]' = [s \in Subs |-> Box(s)]
  BY <1>4
<1>6. UNCHANGED BusState
  BY <1>1 DEF BusState
<1>7. QED
  BY <1>1, <1>5, <1>6 DEF M!mvars

\* The dispatcher's end shuts the bus: all mail is lost.
LEMMA ShutMaps ==
    ASSUME IInv, IInv', Stop
    PROVE  M!Shut
<1>1. /\ dispatcher = "running" /\ dispatcher' = "stopped" /\ busy = {}
      /\ UNCHANGED <<published, handlers, busy, handled>>
  BY DEF Stop
<1>2. BusState = "open" /\ BusState' = "shut"
  BY <1>1 DEF BusState
<1>3. \A s \in Subs : Box(s)' = {}
  BY <1>1 DEF Box
<1>4. [s \in Subs |-> Box(s)]' = [s \in Subs |-> {}]
  BY <1>3
<1>5. QED
  BY <1>1, <1>2, <1>4 DEF M!Shut

LEMMA StutterMaps ==
    ASSUME UNCHANGED vars
    PROVE  UNCHANGED M!mvars
<1>1. UNCHANGED <<published, handlers, dispatcher, next, busy, handled>>
  BY DEF vars
<1>2. UNCHANGED BusState
  BY <1>1 DEF BusState
<1>3. \A s \in Subs : Box(s)' = Box(s)
  BY <1>1 DEF Box, Wants
<1>4. QED
  BY <1>1, <1>2, <1>3 DEF M!mvars

\* Every initial state is one of Mailboxes.
LEMMA InitMaps == Init => M!Init
<1> SUFFICES ASSUME Init PROVE M!Init
  OBVIOUS
<1>1. \A s \in Subs : Box(s) = {}
  BY DEF Init, Box
<1>2. BusState = "closed"
  BY DEF Init, BusState
<1>3. QED
  BY <1>1, <1>2 DEF Init, M!Init

\* Every step is one of Mailboxes or leaves the mailboxes alone.
LEMMA StepMaps == IInv /\ IInv' /\ [Next]_vars => [M!Next]_(M!mvars)
<1> SUFFICES ASSUME IInv, IInv', [Next]_vars PROVE M!Next \/ UNCHANGED M!mvars
  OBVIOUS
<1>1. ASSUME NEW t \in EventTypes, Publish(t) PROVE M!Next
  BY <1>1, PostMaps DEF M!Next
<1>2. ASSUME Subscribe PROVE M!Next
  BY <1>2, JoinMaps DEF M!Next, Subscribe
<1>3. ASSUME NEW s \in Subs, Unsubscribe(s) PROVE M!Next
  BY <1>3, LeaveMaps DEF M!Next
<1>4. ASSUME NEW s \in Subs, Finish(s) PROVE M!Next
  BY <1>4, HandleMaps DEF M!Next
<1>5. ASSUME Start PROVE M!Next
  BY <1>5, OpenMaps DEF M!Next
<1>6. ASSUME Dispatch PROVE UNCHANGED M!mvars
  BY <1>6, DispatchMaps
<1>7. ASSUME Stop PROVE M!Next
  BY <1>7, ShutMaps DEF M!Next
<1>8. ASSUME UNCHANGED vars PROVE UNCHANGED M!mvars
  BY <1>8, StutterMaps
<1>9. QED
  BY <1>1, <1>2, <1>3, <1>4, <1>5, <1>6, <1>7, <1>8 DEF Next

\* The event bus keeps the promise of mailboxes read in order: no handler
\* misses an event, sees one twice or sees two in the wrong order before the
\* dispatcher stops.
THEOREM Refinement == Spec => ImplementsMailboxes
<1>1. Init => M!Init
  BY InitMaps
<1>2. IInv /\ IInv' /\ [Next]_vars => [M!Next]_(M!mvars)
  BY StepMaps
<1>3. QED
  BY <1>1, <1>2, Invariant, PTL DEF Spec, ImplementsMailboxes, M!Spec
=============================================================================
