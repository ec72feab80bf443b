--------------------------- MODULE SendPathProofs ---------------------------
(***************************************************************************)
(* Proofs about SendPath, for any set of requests and instances, any       *)
(* number of stations and any number of names the neighbour takes.         *)
(***************************************************************************)
EXTENDS SendPath, FiniteSetTheorems, TLAPS

USE SendPathAssumption

Types == {"PRIORITY", "ACTUAL", "RESULT"}
Events == [type : Types, request : Requests, node : Names]

\* The names are numbers from that of the description to the temporary one.
LEMMA NameValues ==
    /\ Known \in Names /\ Temporary \in Names /\ NoNode \notin Names
    /\ 0..MaxNames \subseteq Names
BY DEF Known, Temporary, Names, NoNode

\* An event has the type, the request and the node it was made with.
LEMMA EventType ==
    ASSUME NEW t \in Types, NEW r \in Requests, NEW n \in Names
    PROVE  /\ Event(t, r, n) \in Events
           /\ Event(t, r, n).type = t /\ Event(t, r, n).request = r /\ Event(t, r, n).node = n
BY DEF Event, Events

\* startSend leaves the objects that wait, the stations and the events well typed.
LEMMA StartSendType ==
    ASSUME TypeOK, NEW n \in Names, NEW ws \in SUBSET Requests, NEW st \in SUBSET Requests,
           NEW others \in SUBSET Events, startSend(n, ws, st, others)
    PROVE  /\ waiting' \in [Names -> SUBSET Requests] /\ stations' \in [Names -> SUBSET Requests]
           /\ events' \in SUBSET Events
<1>1. CASE ws # {} /\ \E s \in ws :
            /\ waiting' = [waiting EXCEPT ![n] = ws \ {s}]
            /\ stations' = [stations EXCEPT ![n] = st \union {s}]
            /\ events' = others \union {Event("ACTUAL", s, n)}
  BY <1>1, EventType DEF TypeOK, Types
<1>2. CASE /\ waiting' = [waiting EXCEPT ![n] = ws]
           /\ stations' = [stations EXCEPT ![n] = st]
           /\ events' = others
  BY <1>2 DEF TypeOK
<1>3. QED BY <1>1, <1>2 DEF startSend

\* A verdict keeps verdicts, events and lost requests well typed.
LEMMA ToldType ==
    ASSUME TypeOK, NEW R \in SUBSET Requests, NEW i \in Instances, NEW v \in {"sent", "failed"},
           Told(R, i, v)
    PROVE  /\ verdict' \in [Requests -> {"none", "sent", "failed"}]
           /\ events' \in SUBSET Events
           /\ lost' \in [Requests -> {"no", "refused", "forgotten", "stopped", "renamed", "dropped"}]
<1>1. peerNode[i] \in Names BY DEF TypeOK
<1>2. \A r \in R : Event("RESULT", r, peerNode[i]) \in Events BY <1>1, EventType DEF Types
<1>3. events' \in SUBSET Events BY <1>2 DEF Told, TypeOK, Events, Types
<1>4. QED BY <1>3 DEF Told, TypeOK

\* Every step keeps the types.
LEMMA TypeStep == TypeOK /\ [Next]_vars => TypeOK'
<1> SUFFICES ASSUME TypeOK, [Next]_vars PROVE TypeOK'
    OBVIOUS
<1> USE NameValues
<1>e. events \in SUBSET Events BY DEF TypeOK, Events, Types
<1>1. ASSUME NEW r \in Requests, onSendDataObject(r) PROVE TypeOK'
  <2>1. \A t \in {"ACTUAL", "PRIORITY"} : node # NoNode => Event(t, r, node) \in Events
    BY EventType DEF TypeOK, Types
  <2>2. events' \in SUBSET Events
    BY <1>1, <1>e, <2>1 DEF onSendDataObject
  <2>3. verdict' \in [Requests -> {"none", "sent", "failed"}]
    BY <1>1 DEF onSendDataObject, TypeOK
  <2>4. lost' \in [Requests -> {"no", "refused", "forgotten", "stopped", "renamed", "dropped"}]
    BY <1>1 DEF onSendDataObject, TypeOK
  <2>5. QED BY <1>1, <2>2, <2>3, <2>4 DEF onSendDataObject, TypeOK, neighbour, instances, Events, Types
<1>2. ASSUME NEW e \in events, onSendPriority(e) PROVE TypeOK'
  <2>1. e \in Events /\ e.request \in Requests /\ e.node \in Names BY <1>e DEF Events
  <2>2. /\ waiting' \in [Names -> SUBSET Requests] /\ stations' \in [Names -> SUBSET Requests]
        /\ events' \in SUBSET Events
    <3>1. CASE enabled
      <4>1. waiting[e.node] \union {e.request} \in SUBSET Requests /\ stations[e.node] \in SUBSET Requests
        BY <2>1 DEF TypeOK
      <4>2. startSend(e.node, waiting[e.node] \union {e.request}, stations[e.node], events \ {e})
        BY <1>2, <3>1 DEF onSendPriority
      <4>3. events \ {e} \in SUBSET Events BY <1>e
      <4>4. QED BY <2>1, <4>1, <4>2, <4>3, StartSendType
    <3>2. CASE ~enabled
      BY <1>2, <1>e, <2>1, <3>2, EventType DEF onSendPriority, TypeOK, Types
    <3>3. QED BY <3>1, <3>2
  <2>3. QED BY <1>2, <2>2 DEF onSendPriority, TypeOK, neighbour, instances, Events, Types
<1>3. ASSUME NEW e \in events, onSendResult(e) PROVE TypeOK'
  <2>1. e \in Events /\ e.request \in Requests /\ e.node \in Names BY <1>e DEF Events
  <2>2. /\ waiting' \in [Names -> SUBSET Requests] /\ stations' \in [Names -> SUBSET Requests]
        /\ events' \in SUBSET Events
    <3>1. CASE enabled /\ stations[e.node] # {}
      <4>1. waiting[e.node] \in SUBSET Requests /\ stations[e.node] \ {e.request} \in SUBSET Requests
        BY <2>1 DEF TypeOK
      <4>2. startSend(e.node, waiting[e.node], stations[e.node] \ {e.request}, events \ {e})
        BY <1>3, <3>1 DEF onSendResult
      <4>3. events \ {e} \in SUBSET Events BY <1>e
      <4>4. QED BY <2>1, <4>1, <4>2, <4>3, StartSendType
    <3>2. CASE ~(enabled /\ stations[e.node] # {})
      BY <1>3, <1>e, <2>1, <3>2 DEF onSendResult, TypeOK
    <3>3. QED BY <3>1, <3>2
  <2>3. QED BY <1>3, <2>2 DEF onSendResult, TypeOK, neighbour, instances, Events, Types
<1>4. ASSUME NEW e \in events, RefuseActual(e) PROVE TypeOK'
  BY <1>4 DEF RefuseActual, TypeOK, neighbour, instances
<1>5. ASSUME NEW e \in events, NEW i \in Instances, AcceptActual(e, i) PROVE TypeOK'
  <2>1. e \in Events /\ e.request \in Requests /\ e.node \in Names BY <1>e DEF Events
  <2>2. InitialPeer(i) \in Names BY DEF InitialPeer, TypeOK
  <2>3. QED BY <1>5, <2>1, <2>2 DEF AcceptActual, TypeOK, neighbour
<1>6. ASSUME NEW i \in Instances, TakeFromQueue(i) PROVE TypeOK'
  BY <1>6 DEF TakeFromQueue, TypeOK, neighbour
<1>7. ASSUME NEW i \in Instances, NEW v \in {"sent", "failed"}, Send(i, v) PROVE TypeOK'
  <2>1. {hand[i]} \in SUBSET Requests BY <1>7 DEF Send, TypeOK
  <2>2. Told({hand[i]}, i, v) BY <1>7 DEF Send
  <2>3. /\ verdict' \in [Requests -> {"none", "sent", "failed"}] /\ events' \in SUBSET Events
        /\ lost' \in [Requests -> {"no", "refused", "forgotten", "stopped", "renamed", "dropped"}]
    BY <2>1, <2>2, ToldType
  <2>4. QED BY <1>7, <2>3 DEF Send, TypeOK, neighbour, Events, Types
<1>8. ASSUME NEW i \in Instances, LeaveLoop(i) PROVE TypeOK'
  BY <1>8 DEF LeaveLoop, TypeOK, neighbour
<1>9. ASSUME NEW i \in Instances, Delete(i) PROVE TypeOK'
  <2>1. queue[i] \in SUBSET Requests BY DEF TypeOK
  <2>2. Told(queue[i], i, "failed") /\ "failed" \in {"sent", "failed"} BY <1>9 DEF Delete
  <2>3. /\ verdict' \in [Requests -> {"none", "sent", "failed"}] /\ events' \in SUBSET Events
        /\ lost' \in [Requests -> {"no", "refused", "forgotten", "stopped", "renamed", "dropped"}]
    BY <2>1, <2>2, ToldType
  <2>4. QED BY <1>9, <2>3 DEF Delete, TypeOK, neighbour, Events, Types
<1>10. CASE InterfaceDown
  <2>1. up' \in BOOLEAN BY <1>10 DEF InterfaceDown
  <2>2. downs' \in 0..MaxDowns BY <1>10 DEF InterfaceDown, TypeOK
  <2>3. mode' \in [Instances -> {"none", "active", "done"}] BY <1>10 DEF InterfaceDown, TypeOK
  <2>4. QED BY <1>10, <2>1, <2>2, <2>3 DEF InterfaceDown, TypeOK
<1>11. CASE InterfaceUp BY <1>11 DEF InterfaceUp, TypeOK, instances
<1>12. CASE Description BY <1>12 DEF Description, TypeOK, instances
<1>13. CASE Purge BY <1>13 DEF Purge, TypeOK, instances
<1>14. CASE UNCHANGED vars BY <1>14 DEF vars, TypeOK
<1>15. QED
  BY <1>1, <1>2, <1>3, <1>4, <1>5, <1>6, <1>7, <1>8, <1>9, <1>10, <1>11, <1>12, <1>13, <1>14
  DEF Next, KernelStep, WorkerStep

\* Type correctness of the stations, the instances and the events between them.
THEOREM TypeCorrect == Spec => []TypeOK
<1>1. Init => TypeOK
  <2> SUFFICES ASSUME Init PROVE TypeOK
      OBVIOUS
  <2>1. node \in Names \union {NoNode} /\ names \in 0..MaxNames /\ downs \in 0..MaxDowns
    BY DEF Init, Names, Temporary
  <2>2. enabled \in BOOLEAN /\ up \in BOOLEAN /\ described \in BOOLEAN
    BY DEF Init
  <2>3. peerNode \in [Instances -> Names]
    BY NameValues DEF Init
  <2>4. QED BY <2>1, <2>2, <2>3 DEF Init, TypeOK
<1>2. QED BY <1>1, TypeStep, PTL DEF Spec

-----------------------------------------------------------------------------
(* The inductive invariant.                                                *)

Sending(e, r) == e.request = r /\ e.type # "RESULT"

\* An event that still has to bring a request to a protocol.
InEvent(r) == \E e \in events : Sending(e, r)
InWaiting(r) == \E n \in Names : r \in waiting[n]
InQueue(r) == \E i \in Instances : r \in queue[i]
InHand(r) == \E i \in Instances : hand[i] = r
Held(r) == InEvent(r) \/ InWaiting(r) \/ InQueue(r) \/ InHand(r)
Settled(r) == verdict[r] # "none" \/ lost[r] \in {"dropped", "forgotten", "stopped"}

\* A request has one place of each kind at most.
Once(r) ==
    /\ \A e, f \in events : Sending(e, r) /\ Sending(f, r) => e = f
    /\ \A m, n \in Names : r \in waiting[m] /\ r \in waiting[n] => m = n
    /\ \A i, j \in Instances : r \in queue[i] /\ r \in queue[j] => i = j
    /\ \A i, j \in Instances : hand[i] = r /\ hand[j] = r => i = j

\* It has places of one kind only.
Apart(r) ==
    /\ ~(InEvent(r) /\ InWaiting(r)) /\ ~(InEvent(r) /\ InQueue(r)) /\ ~(InEvent(r) /\ InHand(r))
    /\ ~(InWaiting(r) /\ InQueue(r)) /\ ~(InWaiting(r) /\ InHand(r)) /\ ~(InQueue(r) /\ InHand(r))

\* A request is held exactly as long as it is asked for and not settled.
HeldUntilSettled(r) == Held(r) <=> r \in asked /\ ~Settled(r)

\* A request the protocol manager has not seen is nowhere.
Fresh(r) == r \notin asked => verdict[r] = "none" /\ lost[r] = "no" /\ \A n \in Names : r \notin stations[n]

\* A request enters a station when it stops waiting, and it enters one only.
Unsent(r) ==
    /\ \A n \in Names, e \in events :
          Sending(e, r) /\ e.type = "PRIORITY" => r \notin stations[n]
    /\ \A m, n \in Names : r \in waiting[m] => r \notin stations[n]
    /\ \A m, n \in Names : r \in stations[m] /\ r \in stations[n] => m = n

\* Stations are used only when the send priority manager orders.
Disabled == ~enabled => \A n \in Names : waiting[n] = {} /\ stations[n] = {}

\* A name has no more objects in stations than it has stations.
Limited == \A n \in Names : IsFiniteSet(stations[n]) /\ Cardinality(stations[n]) <= ParallelFactor

Places == \A r \in Requests : Once(r) /\ Apart(r) /\ HeldUntilSettled(r) /\ Fresh(r)
Order == \A r \in Requests : Unsent(r)

IInv == TypeOK /\ Places /\ Order /\ Disabled /\ Limited /\ StationAccounted /\ NoIdleStation

PlacesOf(r) == Once(r) /\ Apart(r) /\ HeldUntilSettled(r) /\ Fresh(r)

-----------------------------------------------------------------------------
(* A request moves from place to place until it is settled.                *)

\* onSendDataObject drops the request, answers it or makes one event of it.
LEMMA AskedPlaces ==
    ASSUME TypeOK, Places, NEW r \in Requests, onSendDataObject(r), NEW q \in Requests
    PROVE  PlacesOf(q)'
<1> USE DEF Places, Sending
<1>0. ~Held(r) /\ Fresh(r) /\ r \notin asked
  BY DEF onSendDataObject, HeldUntilSettled
<1>1. CASE q # r
  <2>1. Once(q)'
    BY <1>1 DEF TypeOK, onSendDataObject, Event, Once, Apart, InEvent, InWaiting, InQueue, InHand, neighbour, instances
  <2>2. Apart(q)'
    BY <1>1 DEF TypeOK, onSendDataObject, Event, Once, Apart, InEvent, InWaiting, InQueue, InHand, neighbour, instances
  <2>3. HeldUntilSettled(q)'
    BY <1>1 DEF TypeOK, onSendDataObject, Event, Once, Apart, HeldUntilSettled, Held, Settled, InEvent, InWaiting, InQueue, InHand, neighbour, instances
  <2>4. Fresh(q)'
    BY <1>1 DEF TypeOK, onSendDataObject, Event, HeldUntilSettled, Held, Fresh, InEvent, InWaiting, InQueue, InHand, neighbour, instances
  <2>5. QED BY <2>1, <2>2, <2>3, <2>4 DEF PlacesOf
<1>2. CASE q = r /\ events' = events
  <2>1. ~InEvent(q)' /\ ~InWaiting(q)' /\ ~InQueue(q)' /\ ~InHand(q)'
    BY <1>0, <1>2 DEF onSendDataObject, Held, InEvent, InWaiting, InQueue, InHand, neighbour, instances
  <2>2. Once(q)' BY <1>2, <2>1 DEF onSendDataObject, Once, InEvent, InWaiting, InQueue, InHand, neighbour, instances
  <2>3. Apart(q)' BY <2>1 DEF Apart
  <2>4. Settled(q)'
    <3>1. CASE lost' = [lost EXCEPT ![r] = "dropped"] BY <1>2, <3>1 DEF Settled, TypeOK
    <3>2. CASE verdict' = [verdict EXCEPT ![r] = IF node = NoNode THEN "failed" ELSE "sent"]
      BY <1>2, <3>2 DEF Settled, TypeOK
    <3>3. CASE node # NoNode /\ Event(IF r \in Control THEN "ACTUAL" ELSE "PRIORITY", r, node) \in events
      BY <1>0, <3>3 DEF Held, InEvent, Event
    <3>4. QED BY <1>2, <3>1, <3>2, <3>3 DEF onSendDataObject
  <2>5. q \in asked' BY <1>2 DEF onSendDataObject
  <2>6. QED BY <2>1, <2>2, <2>3, <2>4, <2>5 DEF PlacesOf, HeldUntilSettled, Held, Fresh
<1>3. CASE q = r /\ events' # events
  <2> DEFINE e == Event(IF r \in Control THEN "ACTUAL" ELSE "PRIORITY", r, node)
  <2>1. /\ events' = events \union {e} /\ verdict' = verdict /\ lost' = lost
    BY <1>3 DEF onSendDataObject
  <2>2. Sending(e, q) BY <1>3 DEF Event
  <2> HIDE DEF e
  <2>3. ~InEvent(q) /\ ~InWaiting(q)' /\ ~InQueue(q)' /\ ~InHand(q)'
    BY <1>0, <1>3 DEF onSendDataObject, Held, InEvent, InWaiting, InQueue, InHand, neighbour, instances
  <2>4. InEvent(q)' BY <2>1, <2>2 DEF InEvent
  <2>5. Once(q)' BY <1>3, <2>1, <2>2, <2>3 DEF onSendDataObject, Once, InEvent, InWaiting, InQueue, InHand, neighbour, instances
  <2>6. Apart(q)' BY <2>3 DEF Apart
  <2>7. q \in asked' BY <1>3 DEF onSendDataObject
  <2>8. ~Settled(q)' BY <1>0, <1>3, <2>1 DEF Settled, Fresh
  <2>9. QED BY <2>4, <2>5, <2>6, <2>7, <2>8 DEF PlacesOf, HeldUntilSettled, Held, Fresh
<1>4. QED BY <1>1, <1>2, <1>3

\* RefuseActual settles the request of its event.
LEMMA RefusedPlaces ==
    ASSUME TypeOK, Places, NEW e \in events, RefuseActual(e), NEW q \in Requests
    PROVE  PlacesOf(q)'
<1> USE DEF Places, Sending
<1>1. Once(q)'
  BY DEF TypeOK, RefuseActual, Once, Apart, InEvent, InWaiting, InQueue, InHand, neighbour, instances
<1>2. Apart(q)'
  BY DEF TypeOK, RefuseActual, Once, Apart, InEvent, InWaiting, InQueue, InHand, neighbour, instances
<1>3. HeldUntilSettled(q)'
  <2>1. /\ InWaiting(q)' <=> InWaiting(q)
        /\ InQueue(q)' <=> InQueue(q)
        /\ InHand(q)' <=> InHand(q)
        /\ q \in asked' <=> q \in asked
    BY DEF RefuseActual, InWaiting, InQueue, InHand, instances
  <2>2. CASE q # e.request
    <3>1. InEvent(q)' <=> InEvent(q) BY <2>2 DEF RefuseActual, InEvent
    <3>2. Settled(q)' <=> Settled(q) BY <2>2 DEF TypeOK, RefuseActual, Settled
    <3>3. QED BY <2>1, <3>1, <3>2 DEF HeldUntilSettled, Held
  <2>3. CASE q = e.request
    <3>1. InEvent(q) /\ ~InEvent(q)' BY <2>3 DEF RefuseActual, Once, InEvent
    <3>2. ~InWaiting(q) /\ ~InQueue(q) /\ ~InHand(q) /\ q \in asked
      BY <3>1 DEF Apart, HeldUntilSettled, Held
    <3>3. Settled(q)' BY <2>3 DEF TypeOK, RefuseActual, Settled
    <3>4. QED BY <2>1, <3>1, <3>2, <3>3 DEF HeldUntilSettled, Held
  <2>4. QED BY <2>2, <2>3
<1>4. Fresh(q)'
  BY DEF TypeOK, RefuseActual, HeldUntilSettled, Held, Fresh, InEvent, InWaiting, InQueue, InHand, neighbour, instances
<1>5. QED BY <1>1, <1>2, <1>3, <1>4 DEF PlacesOf

\* AcceptActual moves a request from its event to a queue.
LEMMA AcceptedPlaces ==
    ASSUME TypeOK, Places, NEW e \in events, NEW i \in Instances, AcceptActual(e, i), NEW q \in Requests
    PROVE  PlacesOf(q)'
<1> USE DEF Places, Sending
<1>a. /\ \A x \in events' : x \in events
      /\ waiting' = waiting /\ hand' = hand
      /\ queue' = [queue EXCEPT ![i] = @ \union {e.request}]
  BY DEF AcceptActual
<1>c. queue \in [Instances -> SUBSET Requests]
  BY DEF TypeOK
<1>d. \A j \in Instances : q \in queue'[j] => q \in queue[j] \/ (j = i /\ q = e.request)
  BY <1>a, <1>c
<1>b. q = e.request => ~InQueue(q)
  BY DEF AcceptActual, Apart, InEvent
<1>1. Once(q)'
  BY <1>a, <1>b, <1>d DEF Once, InQueue
<1>2. Apart(q)'
  <2>1. /\ InEvent(q)' => InEvent(q)
        /\ InWaiting(q)' <=> InWaiting(q)
        /\ InHand(q)' <=> InHand(q)
    BY <1>a DEF InEvent, InWaiting, InHand
  <2>2. InQueue(q)' => InQueue(q) \/ q = e.request
    BY <1>d DEF InQueue
  <2>3. q = e.request => InEvent(q) /\ ~InEvent(q)'
    BY DEF AcceptActual, Once, InEvent
  <2>4. QED BY <2>1, <2>2, <2>3 DEF Apart
<1>3. HeldUntilSettled(q)'
  BY DEF TypeOK, AcceptActual, Once, Apart, HeldUntilSettled, Held, Settled, InEvent, InWaiting, InQueue, InHand, neighbour, instances
<1>4. Fresh(q)'
  BY DEF TypeOK, AcceptActual, HeldUntilSettled, Held, Fresh, InEvent, InWaiting, InQueue, InHand, neighbour, instances
<1>5. QED BY <1>1, <1>2, <1>3, <1>4 DEF PlacesOf

\* TakeFromQueue moves a request from the queue to the worker's hand, or forgets it.
LEMMA TakenPlaces ==
    ASSUME TypeOK, Places, NEW i \in Instances, TakeFromQueue(i), NEW q \in Requests
    PROVE  PlacesOf(q)'
<1> USE DEF Places, Sending
<1>1. Once(q)'
  BY DEF TypeOK, TakeFromQueue, Once, Apart, InEvent, InWaiting, InQueue, InHand, neighbour, instances
<1>2. Apart(q)'
  BY DEF TypeOK, TakeFromQueue, Once, Apart, InEvent, InWaiting, InQueue, InHand, neighbour, instances
<1>3. HeldUntilSettled(q)'
  BY DEF TypeOK, TakeFromQueue, Once, Apart, HeldUntilSettled, Held, Settled, InEvent, InWaiting, InQueue, InHand, neighbour, instances
<1>4. Fresh(q)'
  BY DEF TypeOK, TakeFromQueue, HeldUntilSettled, Held, Fresh, InEvent, InWaiting, InQueue, InHand, neighbour, instances
<1>5. QED BY <1>1, <1>2, <1>3, <1>4 DEF PlacesOf

\* Send settles the request in the worker's hand.
LEMMA SentPlaces ==
    ASSUME TypeOK, Places, NEW i \in Instances, NEW v \in {"sent", "failed"}, Send(i, v), NEW q \in Requests
    PROVE  PlacesOf(q)'
<1> USE DEF Places, Sending
<1>1. Once(q)'
  BY DEF TypeOK, Send, Told, Event, Once, Apart, InEvent, InWaiting, InQueue, InHand, neighbour, instances
<1>a. /\ InWaiting(q)' <=> InWaiting(q)
      /\ InQueue(q)' <=> InQueue(q)
      /\ q \in asked' <=> q \in asked
  BY DEF Send, InWaiting, InQueue
<1>b. InEvent(q)' <=> InEvent(q)
  BY DEF TypeOK, Send, Told, Event, InEvent
<1>c. InHand(q)' <=> InHand(q) /\ q # hand[i]
  BY DEF TypeOK, Send, Once, InHand
<1>2. Apart(q)'
  BY <1>a, <1>b, <1>c DEF Apart
<1>3. HeldUntilSettled(q)'
  <2>1. CASE q # hand[i]
    <3>1. Settled(q)' <=> Settled(q) BY <2>1 DEF TypeOK, Send, Told, Settled
    <3>2. QED BY <1>a, <1>b, <1>c, <2>1, <3>1 DEF HeldUntilSettled, Held
  <2>2. CASE q = hand[i]
    <3>1. InHand(q) BY <2>2 DEF InHand
    <3>2. ~InEvent(q) /\ ~InWaiting(q) /\ ~InQueue(q) /\ q \in asked
      BY <3>1 DEF Apart, HeldUntilSettled, Held
    <3>3. Settled(q)' BY <2>2 DEF TypeOK, Send, Told, Settled
    <3>4. QED BY <1>a, <1>b, <1>c, <2>2, <3>2, <3>3 DEF HeldUntilSettled, Held
  <2>3. QED BY <2>1, <2>2
<1>4. Fresh(q)'
  BY DEF TypeOK, Send, Told, Event, HeldUntilSettled, Held, Fresh, InEvent, InWaiting, InQueue, InHand, neighbour, instances
<1>5. QED BY <1>1, <1>2, <1>3, <1>4 DEF PlacesOf

\* LeaveLoop settles the request in the worker's hand by losing it.
LEMMA LeftPlaces ==
    ASSUME TypeOK, Places, NEW i \in Instances, LeaveLoop(i), NEW q \in Requests
    PROVE  PlacesOf(q)'
<1> USE DEF Places, Sending
<1>1. Once(q)'
  BY DEF TypeOK, LeaveLoop, Once, Apart, InEvent, InWaiting, InQueue, InHand, neighbour, instances
<1>2. Apart(q)'
  BY DEF TypeOK, LeaveLoop, Once, Apart, InEvent, InWaiting, InQueue, InHand, neighbour, instances
<1>3. HeldUntilSettled(q)'
  BY DEF TypeOK, LeaveLoop, Once, Apart, HeldUntilSettled, Held, Settled, InEvent, InWaiting, InQueue, InHand, neighbour, instances
<1>4. Fresh(q)'
  BY DEF TypeOK, LeaveLoop, HeldUntilSettled, Held, Fresh, InEvent, InWaiting, InQueue, InHand, neighbour, instances
<1>5. QED BY <1>1, <1>2, <1>3, <1>4 DEF PlacesOf

\* Delete settles what is left in the queue.
LEMMA DeletedPlaces ==
    ASSUME TypeOK, Places, NEW i \in Instances, Delete(i), NEW q \in Requests
    PROVE  PlacesOf(q)'
<1> USE DEF Places, Sending
<1>1. \A e \in events' : Sending(e, q) => e \in events
  BY DEF Delete, Told, Event
<1>2. /\ InEvent(q)' <=> InEvent(q)
      /\ InWaiting(q)' <=> InWaiting(q)
      /\ InHand(q)' <=> InHand(q)
  <2>1. events \subseteq events' BY DEF Delete, Told
  <2>2. QED BY <1>1, <2>1 DEF Delete, InEvent, InWaiting, InHand, neighbour
<1>3. InQueue(q)' <=> InQueue(q) /\ q \notin queue[i]
  BY DEF TypeOK, Delete, InQueue, Once
<1>4. Once(q)'
  BY <1>1 DEF TypeOK, Delete, Once, neighbour
<1>5. Apart(q)'
  BY <1>2, <1>3 DEF Apart
<1>6. Settled(q)' <=> Settled(q) \/ q \in queue[i]
  BY DEF TypeOK, Delete, Told, Settled, HeldUntilSettled, Held, InQueue
<1>7. q \in queue[i] => InQueue(q) BY DEF InQueue
<1>8. HeldUntilSettled(q)'
  <2>1. asked' = asked BY DEF Delete
  <2>2. QED BY <1>2, <1>3, <1>6, <1>7, <2>1 DEF HeldUntilSettled, Held, Apart
<1>9. Fresh(q)'
  BY <1>7 DEF TypeOK, Delete, Told, HeldUntilSettled, Held, Fresh
<1>10. QED BY <1>4, <1>5, <1>8, <1>9 DEF PlacesOf

\* What startSend is called with: other events, and the waiting objects of its node.
InOthers(r, others) == \E e \in others : Sending(e, r)
WaitsToo(r, n, ws) == r \in ws \/ \E m \in Names \ {n} : r \in waiting[m]

\* The request is in one event or waits for one name.
OnceBefore(r, n, ws, others) ==
    /\ \A e, f \in others : Sending(e, r) /\ Sending(f, r) => e = f
    /\ \A m \in Names : r \in waiting[m] /\ r \in ws => m = n
    /\ \A m, k \in Names : r \in waiting[m] /\ r \in waiting[k] => m = k
    /\ ~(InOthers(r, others) /\ WaitsToo(r, n, ws))
OnceAfter(r) ==
    /\ \A e, f \in events : Sending(e, r) /\ Sending(f, r) => e = f
    /\ \A m, k \in Names : r \in waiting[m] /\ r \in waiting[k] => m = k
    /\ ~(InEvent(r) /\ InWaiting(r))

\* A request that waits goes to a station with an event, the others stay where they are.
LEMMA StartedPlaces ==
    ASSUME TypeOK, NEW n \in Names, NEW ws \in SUBSET Requests, NEW st, NEW others \in SUBSET Events,
           startSend(n, ws, st, others), NEW q \in Requests, OnceBefore(q, n, ws, others)
    PROVE  /\ OnceAfter(q)'
           /\ InEvent(q)' \/ InWaiting(q)' <=> InOthers(q, others) \/ WaitsToo(q, n, ws)
<1> USE DEF OnceBefore, OnceAfter, InOthers, WaitsToo
<1>1. ASSUME NEW s \in ws,
             waiting' = [waiting EXCEPT ![n] = ws \ {s}],
             events' = others \union {Event("ACTUAL", s, n)}
      PROVE  /\ OnceAfter(q)'
             /\ InEvent(q)' \/ InWaiting(q)' <=> InOthers(q, others) \/ WaitsToo(q, n, ws)
  <2> DEFINE a == Event("ACTUAL", s, n)
  <2>1. Sending(a, q) <=> q = s BY DEF Event, Sending
  <2> HIDE DEF a
  <2>2. events' = others \union {a} BY <1>1 DEF a
  <2>3. \A m \in Names : q \in waiting'[m] <=> IF m = n THEN q \in ws /\ q # s ELSE q \in waiting[m]
    BY <1>1 DEF TypeOK
  <2>4. InEvent(q)' <=> q = s \/ \E e \in others : Sending(e, q)
    BY <2>1, <2>2 DEF InEvent
  <2>5. InWaiting(q)' <=> (q \in ws /\ q # s) \/ \E m \in Names \ {n} : q \in waiting[m]
    BY <2>3 DEF InWaiting
  <2>6. \A e, f \in events' : Sending(e, q) /\ Sending(f, q) => e = f
    BY <2>1, <2>2
  <2>7. \A m, k \in Names : q \in waiting'[m] /\ q \in waiting'[k] => m = k
    BY <2>3
  <2>8. QED BY <2>4, <2>5, <2>6, <2>7
<1>2. CASE waiting' = [waiting EXCEPT ![n] = ws] /\ events' = others
  <2>1. \A m \in Names : q \in waiting'[m] <=> IF m = n THEN q \in ws ELSE q \in waiting[m]
    BY <1>2 DEF TypeOK
  <2>2. InEvent(q)' <=> \E e \in others : Sending(e, q)
    BY <1>2 DEF InEvent
  <2>3. InWaiting(q)' <=> q \in ws \/ \E m \in Names \ {n} : q \in waiting[m]
    BY <2>1 DEF InWaiting
  <2>4. QED BY <1>2, <2>1, <2>2, <2>3
<1>3. QED BY <1>1, <1>2 DEF startSend

\* onSendPriority moves the request of its event to the waiting ones, or on at once.
LEMMA PriorityPlaces ==
    ASSUME TypeOK, Places, NEW e \in events, onSendPriority(e), NEW q \in Requests
    PROVE  PlacesOf(q)'
<1> USE DEF Places
<1>e. events \in SUBSET Events /\ e.request \in Requests /\ e.node \in Names
  BY DEF TypeOK, Events, Types
<1>1. Sending(e, e.request) /\ InEvent(e.request)
  BY DEF onSendPriority, Sending, InEvent
<1>2. /\ OnceAfter(q)'
      /\ InEvent(q)' \/ InWaiting(q)' <=> InEvent(q) \/ InWaiting(q)
  <2>1. CASE enabled
    <3> DEFINE ws == waiting[e.node] \union {e.request}
               others == events \ {e}
    <3>1. startSend(e.node, ws, stations[e.node], others)
      BY <2>1 DEF onSendPriority
    <3>2. ws \in SUBSET Requests /\ others \in SUBSET Events BY <1>e DEF TypeOK
    <3>3. InOthers(q, others) <=> InEvent(q) /\ q # e.request
      BY <1>1 DEF Once, InEvent, Sending, InOthers
    <3>4. WaitsToo(q, e.node, ws) <=> InWaiting(q) \/ q = e.request
      BY <1>e DEF InWaiting, WaitsToo
    <3>5. OnceBefore(q, e.node, ws, others)
      BY <1>1, <1>e, <3>3, <3>4 DEF OnceBefore, Once, Apart, InWaiting
    <3> HIDE DEF ws, others
    <3>6. OnceAfter(q)' /\ (InEvent(q)' \/ InWaiting(q)' <=> InOthers(q, others) \/ WaitsToo(q, e.node, ws))
      BY <1>e, <3>1, <3>2, <3>5, StartedPlaces
    <3>7. QED BY <1>1, <3>3, <3>4, <3>6
  <2>2. CASE ~enabled
    <3> DEFINE a == Event("ACTUAL", e.request, e.node)
    <3>1. Sending(a, q) <=> q = e.request BY DEF Event, Sending
    <3>2. events' = (events \ {e}) \union {a} /\ waiting' = waiting BY <2>2 DEF onSendPriority
    <3> HIDE DEF a
    <3>3. InEvent(q)' <=> InEvent(q)
      BY <1>1, <3>1, <3>2 DEF InEvent, Sending
    <3>4. InWaiting(q)' <=> InWaiting(q) BY <3>2 DEF InWaiting
    <3>5. \A f, g \in events' : Sending(f, q) /\ Sending(g, q) => f = g
      BY <1>1, <3>1, <3>2 DEF Once, Sending
    <3>6. QED BY <3>2, <3>3, <3>4, <3>5 DEF Apart, Once, OnceAfter
  <2>3. QED BY <2>1, <2>2
<1>3. /\ queue' = queue /\ hand' = hand /\ asked' = asked /\ verdict' = verdict /\ lost' = lost
  BY DEF onSendPriority, instances
<1>4. (InQueue(q)' <=> InQueue(q)) /\ (InHand(q)' <=> InHand(q)) /\ (Settled(q)' <=> Settled(q))
  BY <1>3 DEF InQueue, InHand, Settled
<1>5. Once(q)' BY <1>2, <1>3 DEF Once, OnceAfter
<1>6. Apart(q)' BY <1>2, <1>4 DEF Apart, OnceAfter
<1>7. HeldUntilSettled(q)' BY <1>2, <1>3, <1>4 DEF HeldUntilSettled, Held
<1>8. Fresh(q)'
  BY <1>e, <1>1, <1>3 DEF Fresh, TypeOK, onSendPriority, startSend, HeldUntilSettled, Held, InWaiting
<1>9. QED BY <1>5, <1>6, <1>7, <1>8 DEF PlacesOf

\* onSendResult moves at most one waiting request on.
LEMMA ResultPlaces ==
    ASSUME TypeOK, Places, NEW e \in events, onSendResult(e), NEW q \in Requests
    PROVE  PlacesOf(q)'
<1> USE DEF Places
<1>e. events \in SUBSET Events /\ e.request \in Requests /\ e.node \in Names
  BY DEF TypeOK, Events, Types
<1>1. ~Sending(e, q)
  BY DEF onSendResult, Sending
<1>2. /\ OnceAfter(q)'
      /\ InEvent(q)' \/ InWaiting(q)' <=> InEvent(q) \/ InWaiting(q)
  <2>1. CASE enabled /\ stations[e.node] # {}
    <3> DEFINE ws == waiting[e.node]
               others == events \ {e}
    <3>1. startSend(e.node, ws, stations[e.node] \ {e.request}, others)
      BY <2>1 DEF onSendResult
    <3>2. ws \in SUBSET Requests /\ others \in SUBSET Events BY <1>e DEF TypeOK
    <3>3. InOthers(q, others) <=> InEvent(q)
      BY <1>1 DEF InEvent, InOthers
    <3>4. WaitsToo(q, e.node, ws) <=> InWaiting(q)
      BY <1>e DEF InWaiting, WaitsToo
    <3>5. OnceBefore(q, e.node, ws, others)
      BY <1>e, <3>3, <3>4 DEF OnceBefore, Once, Apart
    <3> HIDE DEF ws, others
    <3>6. OnceAfter(q)' /\ (InEvent(q)' \/ InWaiting(q)' <=> InOthers(q, others) \/ WaitsToo(q, e.node, ws))
      BY <1>e, <3>1, <3>2, <3>5, StartedPlaces
    <3>7. QED BY <3>3, <3>4, <3>6
  <2>2. CASE ~(enabled /\ stations[e.node] # {})
    <3>1. events' = events \ {e} /\ waiting' = waiting BY <2>2 DEF onSendResult
    <3>2. QED BY <1>1, <3>1 DEF Apart, Once, OnceAfter, InEvent, InWaiting
  <2>3. QED BY <2>1, <2>2
<1>3. /\ queue' = queue /\ hand' = hand /\ asked' = asked /\ verdict' = verdict /\ lost' = lost
  BY DEF onSendResult, instances
<1>4. (InQueue(q)' <=> InQueue(q)) /\ (InHand(q)' <=> InHand(q)) /\ (Settled(q)' <=> Settled(q))
  BY <1>3 DEF InQueue, InHand, Settled
<1>5. Once(q)' BY <1>2, <1>3 DEF Once, OnceAfter
<1>6. Apart(q)' BY <1>2, <1>4 DEF Apart, OnceAfter
<1>7. HeldUntilSettled(q)' BY <1>2, <1>3, <1>4 DEF HeldUntilSettled, Held
<1>8. Fresh(q)'
  BY <1>e, <1>3 DEF Fresh, TypeOK, onSendResult, startSend, HeldUntilSettled, Held, InWaiting
<1>9. QED BY <1>5, <1>6, <1>7, <1>8 DEF PlacesOf

\* What the neighbour does moves no request.
LEMMA NeighbourPlaces ==
    ASSUME Places, NEW q \in Requests,
           UNCHANGED <<asked, events, waiting, stations, queue, hand, verdict, lost>>
    PROVE  PlacesOf(q)'
<1>1. (InEvent(q)' <=> InEvent(q)) /\ (InWaiting(q)' <=> InWaiting(q))
      /\ (InQueue(q)' <=> InQueue(q)) /\ (InHand(q)' <=> InHand(q))
  BY DEF InEvent, InWaiting, InQueue, InHand
<1>2. Once(q)' BY DEF Places, Once
<1>3. QED BY <1>1, <1>2 DEF Places, PlacesOf, Apart, HeldUntilSettled, Held, Settled, Fresh

\* Every step keeps a request in one place until it is settled.
LEMMA PlacesStep == TypeOK /\ Places /\ [Next]_vars => Places'
<1> SUFFICES ASSUME TypeOK, Places, [Next]_vars, NEW q \in Requests PROVE PlacesOf(q)'
    BY DEF Places, PlacesOf
<1>1. ASSUME NEW r \in Requests, onSendDataObject(r) PROVE PlacesOf(q)' BY <1>1, AskedPlaces
<1>2. ASSUME NEW e \in events, onSendPriority(e) PROVE PlacesOf(q)' BY <1>2, PriorityPlaces
<1>3. ASSUME NEW e \in events, onSendResult(e) PROVE PlacesOf(q)' BY <1>3, ResultPlaces
<1>4. ASSUME NEW e \in events, RefuseActual(e) PROVE PlacesOf(q)' BY <1>4, RefusedPlaces
<1>5. ASSUME NEW e \in events, NEW i \in Instances, AcceptActual(e, i) PROVE PlacesOf(q)'
  BY <1>5, AcceptedPlaces
<1>6. ASSUME NEW i \in Instances, TakeFromQueue(i) PROVE PlacesOf(q)' BY <1>6, TakenPlaces
<1>7. ASSUME NEW i \in Instances, NEW v \in {"sent", "failed"}, Send(i, v) PROVE PlacesOf(q)'
  BY <1>7, SentPlaces
<1>8. ASSUME NEW i \in Instances, LeaveLoop(i) PROVE PlacesOf(q)' BY <1>8, LeftPlaces
<1>9. ASSUME NEW i \in Instances, Delete(i) PROVE PlacesOf(q)' BY <1>9, DeletedPlaces
<1>10. CASE InterfaceDown \/ InterfaceUp \/ Description \/ Purge \/ UNCHANGED vars
  <2>1. UNCHANGED <<asked, events, waiting, stations, queue, hand, verdict, lost>>
    BY <1>10 DEF InterfaceDown, InterfaceUp, Description, Purge, vars, instances
  <2>2. QED BY <2>1, NeighbourPlaces
<1>11. QED
  BY <1>1, <1>2, <1>3, <1>4, <1>5, <1>6, <1>7, <1>8, <1>9, <1>10
  DEF Next, KernelStep, WorkerStep

-----------------------------------------------------------------------------
(* The stations.                                                           *)

Stations == Order /\ Disabled /\ Limited /\ StationAccounted /\ NoIdleStation

\* What both handlers that call startSend have made sure of: what waits was in no
\* station, and waits for this name only; the handled event is no ACTUAL, and if it
\* is the verdict on an object, the object has left the stations; one station at
\* most is free while something waits, unless only one object waits.
Startable(n, ws, st, others) ==
    /\ \A s \in ws :
         /\ \A m \in Names : s \notin stations[m]
         /\ \A m \in Names \ {n} : s \notin waiting[m]
         /\ \A f \in others : Sending(f, s) => f.type # "PRIORITY"
    /\ st \subseteq stations[n] /\ others \subseteq events
    /\ \A f \in events \ others :
         f.type # "ACTUAL" /\ (f.type = "RESULT" => f.node = n /\ f.request \notin st)
    /\ IsFiniteSet(st) /\ Cardinality(st) <= ParallelFactor
    /\ Cardinality(st) + 1 >= ParallelFactor \/ \A s \in ws : ws = {s}

\* startSend keeps the stations in order.
LEMMA StartedStations ==
    ASSUME TypeOK, Order, StationAccounted, Limited, NoIdleStation, NEW n \in Names,
           NEW ws \in SUBSET Requests, NEW st \in SUBSET Requests, NEW others \in SUBSET Events,
           startSend(n, ws, st, others), Startable(n, ws, st, others), lost' = lost,
           queue' = queue, hand' = hand
    PROVE  Order' /\ StationAccounted' /\ Limited' /\ NoIdleStation'
<1> USE DEF Startable
<1>c. Cardinality(st) \in Nat BY FS_CardinalityType
<1>1. ASSUME NEW s \in ws, Cardinality(st) < ParallelFactor,
             waiting' = [waiting EXCEPT ![n] = ws \ {s}],
             stations' = [stations EXCEPT ![n] = st \union {s}],
             events' = others \union {Event("ACTUAL", s, n)}
      PROVE  Order' /\ StationAccounted' /\ Limited' /\ NoIdleStation'
  <2> DEFINE a == Event("ACTUAL", s, n)
  <2>1. a.type = "ACTUAL" /\ a.request = s /\ a.node = n BY DEF Event
  <2>2. events' = others \union {a} BY <1>1
  <2> HIDE DEF a
  <2>3. \A m \in Names : /\ waiting'[m] = IF m = n THEN ws \ {s} ELSE waiting[m]
                         /\ stations'[m] = IF m = n THEN st \union {s} ELSE stations[m]
    BY <1>1 DEF TypeOK
  <2>4. s \notin st /\ Cardinality(st \union {s}) = Cardinality(st) + 1 /\ IsFiniteSet(st \union {s})
    BY <1>1, FS_AddElement
  <2>5. Order'
    <3> SUFFICES ASSUME NEW q \in Requests PROVE Unsent(q)'
        BY DEF Order
    <3>1. ASSUME NEW m \in Names, NEW f \in events', Sending(f, q), f.type = "PRIORITY"
          PROVE  q \notin stations'[m]
      BY <1>1, <2>1, <2>2, <2>3, <3>1 DEF Order, Unsent, Sending
    <3>2. ASSUME NEW m \in Names, NEW k \in Names, q \in waiting'[m] PROVE q \notin stations'[k]
      BY <1>1, <2>3, <3>2 DEF Order, Unsent
    <3>3. ASSUME NEW m \in Names, NEW k \in Names, q \in stations'[m], q \in stations'[k] PROVE m = k
      BY <1>1, <2>3, <3>3 DEF Order, Unsent
    <3>4. QED BY <3>1, <3>2, <3>3 DEF Unsent, Sending
  <2>6. StationAccounted'
    <3> SUFFICES ASSUME NEW m \in Names, NEW q \in stations'[m]
                 PROVE  \/ Event("ACTUAL", q, m) \in events'
                        \/ \E i \in Instances : q \in queue'[i] \/ hand'[i] = q
                        \/ Event("RESULT", q, m) \in events'
                        \/ lost'[q] # "no"
        BY DEF StationAccounted
    <3>1. CASE q = s /\ m = n BY <1>1, <3>1
    <3>2. CASE ~(q = s /\ m = n)
      <4>1. q \in stations[m] /\ (m = n => q \in st) BY <2>3, <3>2
      <4>2. ASSUME Event("ACTUAL", q, m) \in events PROVE Event("ACTUAL", q, m) \in events'
        BY <1>1, <4>2 DEF Event
      <4>3. ASSUME Event("RESULT", q, m) \in events PROVE Event("RESULT", q, m) \in events'
        BY <1>1, <4>1, <4>3 DEF Event
      <4>4. QED BY <4>1, <4>2, <4>3 DEF StationAccounted
    <3>3. QED BY <3>1, <3>2
  <2>7. Limited'
    BY <1>1, <1>c, <2>3, <2>4 DEF Limited
  <2>8. NoIdleStation'
    <3> SUFFICES ASSUME NEW m \in Names, waiting'[m] # {} PROVE Cardinality(stations'[m]) >= ParallelFactor
        BY DEF NoIdleStation
    <3>1. CASE m = n
      <4>1. ws # {s} BY <2>3, <3>1
      <4>2. QED BY <1>1, <1>c, <2>3, <2>4, <3>1, <4>1
    <3>2. CASE m # n BY <2>3, <3>2 DEF NoIdleStation
    <3>3. QED BY <3>1, <3>2
  <2>9. QED BY <2>5, <2>6, <2>7, <2>8
<1>2. CASE /\ ws = {} \/ Cardinality(st) >= ParallelFactor
           /\ waiting' = [waiting EXCEPT ![n] = ws]
           /\ stations' = [stations EXCEPT ![n] = st]
           /\ events' = others
  <2>3. \A m \in Names : /\ waiting'[m] = IF m = n THEN ws ELSE waiting[m]
                         /\ stations'[m] = IF m = n THEN st ELSE stations[m]
    BY <1>2 DEF TypeOK
  <2>5. Order'
    <3> SUFFICES ASSUME NEW q \in Requests PROVE Unsent(q)'
        BY DEF Order
    <3>1. ASSUME NEW m \in Names, NEW f \in events', Sending(f, q), f.type = "PRIORITY"
          PROVE  q \notin stations'[m]
      BY <1>2, <2>3, <3>1 DEF Order, Unsent
    <3>2. ASSUME NEW m \in Names, NEW k \in Names, q \in waiting'[m] PROVE q \notin stations'[k]
      BY <1>2, <2>3, <3>2 DEF Order, Unsent
    <3>3. ASSUME NEW m \in Names, NEW k \in Names, q \in stations'[m], q \in stations'[k] PROVE m = k
      BY <1>2, <2>3, <3>3 DEF Order, Unsent
    <3>4. QED BY <3>1, <3>2, <3>3 DEF Unsent, Sending
  <2>6. StationAccounted'
    <3> SUFFICES ASSUME NEW m \in Names, NEW q \in stations'[m]
                 PROVE  \/ Event("ACTUAL", q, m) \in events'
                        \/ \E i \in Instances : q \in queue'[i] \/ hand'[i] = q
                        \/ Event("RESULT", q, m) \in events'
                        \/ lost'[q] # "no"
        BY DEF StationAccounted
    <3>1. q \in stations[m] /\ (m = n => q \in st) BY <2>3
    <3>2. ASSUME Event("ACTUAL", q, m) \in events PROVE Event("ACTUAL", q, m) \in events'
      BY <1>2, <3>2 DEF Event
    <3>3. ASSUME Event("RESULT", q, m) \in events PROVE Event("RESULT", q, m) \in events'
      BY <1>2, <3>1, <3>3 DEF Event
    <3>4. QED BY <3>1, <3>2, <3>3 DEF StationAccounted
  <2>7. Limited' BY <2>3 DEF Limited
  <2>8. NoIdleStation' BY <1>2, <2>3 DEF NoIdleStation
  <2>9. QED BY <2>5, <2>6, <2>7, <2>8
<1>3. QED BY <1>1, <1>2 DEF startSend

\* onSendPriority keeps the stations in order: when one is free nothing waited before.
LEMMA PriorityStations ==
    ASSUME TypeOK, Places, Stations, NEW e \in events, onSendPriority(e)
    PROVE  Stations'
<1> USE DEF Stations
<1>e. events \in SUBSET Events /\ e.request \in Requests /\ e.node \in Names
  BY DEF TypeOK, Events, Types
<1>0. e.type = "PRIORITY" /\ Sending(e, e.request) /\ InEvent(e.request)
  BY DEF onSendPriority, Sending, InEvent
<1>f. lost' = lost /\ queue' = queue /\ hand' = hand /\ enabled' = enabled
  BY DEF onSendPriority, instances
<1>1. CASE enabled
  <2> DEFINE ws == waiting[e.node] \union {e.request}
             st == stations[e.node]
             others == events \ {e}
  <2>1. startSend(e.node, ws, st, others)
    BY <1>1 DEF onSendPriority
  <2>2. ws \in SUBSET Requests /\ st \in SUBSET Requests /\ others \in SUBSET Events
    BY <1>e DEF TypeOK
  <2>3. \A s \in ws : \A m \in Names : s \notin stations[m]
    BY <1>e, <1>0 DEF Order, Unsent, TypeOK
  <2>4. \A s \in ws : \A m \in Names \ {e.node} : s \notin waiting[m]
    BY <1>e, <1>0 DEF Places, Once, Apart, InWaiting, TypeOK
  <2>5. \A s \in ws : \A f \in others : Sending(f, s) => f.type # "PRIORITY"
    <3> SUFFICES ASSUME NEW s \in ws, NEW f \in others, Sending(f, s) PROVE FALSE
        OBVIOUS
    <3>1. CASE s = e.request BY <1>e, <1>0, <3>1 DEF Places, Once
    <3>2. CASE s \in waiting[e.node] BY <1>e, <2>2, <3>2 DEF Places, Apart, InEvent, InWaiting
    <3>3. QED BY <3>1, <3>2
  <2>6. IsFiniteSet(st) /\ Cardinality(st) <= ParallelFactor /\ Cardinality(st) \in Nat
    BY <1>e, FS_CardinalityType DEF Limited
  <2>7. Cardinality(st) + 1 >= ParallelFactor \/ \A s \in ws : ws = {s}
    <3>1. CASE waiting[e.node] = {} BY <3>1
    <3>2. CASE waiting[e.node] # {} BY <1>e, <2>6, <3>2 DEF NoIdleStation
    <3>3. QED BY <3>1, <3>2
  <2>8. Startable(e.node, ws, st, others)
    BY <1>0, <2>3, <2>4, <2>5, <2>6, <2>7 DEF Startable
  <2> HIDE DEF ws, st, others
  <2>9. Order' /\ StationAccounted' /\ Limited' /\ NoIdleStation'
    BY <1>e, <1>f, <2>1, <2>2, <2>8, StartedStations
  <2>10. QED BY <1>1, <1>f, <2>9 DEF Disabled
<1>2. CASE ~enabled
  <2>1. UNCHANGED <<waiting, stations>> BY <1>2 DEF onSendPriority
  <2>2. \A n \in Names : waiting'[n] = {} /\ stations'[n] = {} BY <1>2, <2>1 DEF Disabled
  <2>3. Order' BY <2>2 DEF Order, Unsent
  <2>4. Limited' BY <2>1 DEF Limited
  <2>5. QED BY <2>2, <2>3, <2>4 DEF Disabled, StationAccounted, NoIdleStation
<1>3. QED BY <1>1, <1>2

\* onSendResult keeps the stations in order: it frees one at most and fills it again.
LEMMA ResultStations ==
    ASSUME TypeOK, Places, Stations, NEW e \in events, onSendResult(e)
    PROVE  Stations'
<1> USE DEF Stations
<1>e. events \in SUBSET Events /\ e.request \in Requests /\ e.node \in Names
  BY DEF TypeOK, Events, Types
<1>0. e.type = "RESULT"
  BY DEF onSendResult
<1>f. lost' = lost /\ queue' = queue /\ hand' = hand /\ enabled' = enabled
  BY DEF onSendResult, instances
<1>1. CASE enabled /\ stations[e.node] # {}
  <2> DEFINE ws == waiting[e.node]
             st == stations[e.node] \ {e.request}
             others == events \ {e}
  <2>1. startSend(e.node, ws, st, others)
    BY <1>1 DEF onSendResult
  <2>2. ws \in SUBSET Requests /\ st \in SUBSET Requests /\ others \in SUBSET Events
    BY <1>e DEF TypeOK
  <2>3. \A s \in ws : \A m \in Names : s \notin stations[m]
    BY <1>e, <2>2 DEF Order, Unsent
  <2>4. \A s \in ws : \A m \in Names \ {e.node} : s \notin waiting[m]
    BY <1>e, <2>2 DEF Places, Once
  <2>5. \A s \in ws : \A f \in others : Sending(f, s) => f.type # "PRIORITY"
    BY <1>e, <2>2 DEF Places, Apart, InEvent, InWaiting
  <2>6. /\ IsFiniteSet(stations[e.node]) /\ Cardinality(stations[e.node]) <= ParallelFactor
        /\ Cardinality(stations[e.node]) \in Nat
    BY <1>e, FS_CardinalityType DEF Limited
  <2>7. /\ IsFiniteSet(st) /\ Cardinality(st) \in Nat
        /\ Cardinality(st) \in {Cardinality(stations[e.node]), Cardinality(stations[e.node]) - 1}
    BY <2>6, FS_RemoveElement, FS_CardinalityType
  <2>8. Cardinality(st) + 1 >= ParallelFactor \/ ws = {}
    BY <1>e, <2>6, <2>7 DEF NoIdleStation
  <2>9. Startable(e.node, ws, st, others)
    BY <1>0, <2>3, <2>4, <2>5, <2>6, <2>7, <2>8 DEF Startable
  <2> HIDE DEF ws, st, others
  <2>10. Order' /\ StationAccounted' /\ Limited' /\ NoIdleStation'
    BY <1>e, <1>f, <2>1, <2>2, <2>9, StartedStations
  <2>11. QED BY <1>1, <1>f, <2>10 DEF Disabled
<1>2. CASE ~(enabled /\ stations[e.node] # {})
  <2>1. events' = events \ {e} /\ UNCHANGED <<waiting, stations>> BY <1>2 DEF onSendResult
  <2>2. stations[e.node] = {} BY <1>2, <1>e DEF Disabled
  <2>3. \A n \in Names : \A r \in stations[n] : Event("ACTUAL", r, n) # e /\ Event("RESULT", r, n) # e
    BY <1>0, <2>2 DEF Event
  <2>4. StationAccounted' BY <1>f, <2>1, <2>3 DEF StationAccounted
  <2>5. Order' BY <2>1 DEF Order, Unsent, Sending
  <2>6. Limited' /\ NoIdleStation' BY <2>1 DEF Limited, NoIdleStation
  <2>7. Disabled' BY <1>f, <2>1 DEF Disabled
  <2>8. QED BY <2>4, <2>5, <2>6, <2>7
<1>3. QED BY <1>1, <1>2

\* A step that leaves the objects that wait and the stations alone keeps them in order
\* if every new event that waits to be ordered is about an object in no station.
LEMMA UntouchedStations ==
    ASSUME Stations, UNCHANGED <<waiting, stations, enabled>>,
           \A e \in events' : e.type = "PRIORITY" =>
                e \in events \/ \A n \in Names : e.request \notin stations[n],
           StationAccounted'
    PROVE  Stations'
<1> USE DEF Stations
<1>1. Order' BY DEF Order, Unsent, Sending
<1>2. Limited' /\ NoIdleStation' BY DEF Limited, NoIdleStation
<1>3. Disabled' BY DEF Disabled
<1>4. QED BY <1>1, <1>2, <1>3

\* A verdict frees no station; the event that tells of it carries the name of the
\* station, or the request is marked as lost under another name.
LEMMA ToldStations ==
    ASSUME TypeOK, Stations, UNCHANGED <<waiting, stations, enabled>>,
           NEW R \in SUBSET Requests, NEW i \in Instances, NEW v, Told(R, i, v),
           \A r \in Requests \ R :
              (\E j \in Instances : r \in queue[j] \/ hand[j] = r)
                => \E j \in Instances : r \in queue'[j] \/ hand'[j] = r
    PROVE  Stations'
<1>1. events \subseteq events' BY DEF Told
<1>2. \A e \in events' : e.type = "PRIORITY" => e \in events BY DEF Told, Event
<1>3. \A r \in Requests : lost[r] # "no" => lost'[r] # "no" BY DEF Told
<1>4. StationAccounted'
  <2> SUFFICES ASSUME NEW n \in Names, NEW q \in stations[n]
               PROVE  \/ Event("ACTUAL", q, n) \in events'
                      \/ \E j \in Instances : q \in queue'[j] \/ hand'[j] = q
                      \/ Event("RESULT", q, n) \in events'
                      \/ lost'[q] # "no"
      BY DEF StationAccounted
  <2>0. q \in Requests BY DEF TypeOK
  <2>1. CASE q \in R /\ q \in stations[peerNode[i]]
    <3>1. peerNode[i] = n BY <2>0, <2>1 DEF Stations, Order, Unsent, TypeOK
    <3>2. QED BY <2>1, <3>1 DEF Told
  <2>2. CASE q \in R /\ q \notin stations[peerNode[i]] BY <2>0, <2>2 DEF Told
  <2>3. CASE q \notin R BY <1>1, <1>3, <2>0, <2>3 DEF Stations, StationAccounted
  <2>4. QED BY <2>1, <2>2, <2>3
<1>5. QED BY <1>2, <1>4, UntouchedStations

\* Every step keeps the stations limited, filled and accounted for.
LEMMA StationsStep == TypeOK /\ Places /\ Stations /\ [Next]_vars => Stations'
<1> SUFFICES ASSUME TypeOK, Places, Stations, [Next]_vars PROVE Stations'
    OBVIOUS
<1>e. events \in SUBSET Events BY DEF TypeOK, Events, Types
<1>a. StationAccounted BY DEF Stations
<1>1. ASSUME NEW r \in Requests, onSendDataObject(r) PROVE Stations'
  <2>1. UNCHANGED <<waiting, stations, enabled, queue, hand>> BY <1>1 DEF onSendDataObject, instances
  <2>2. events \subseteq events' BY <1>1 DEF onSendDataObject
  <2>3. \A q \in Requests : lost[q] # "no" => lost'[q] # "no" BY <1>1 DEF onSendDataObject, TypeOK
  <2>4. StationAccounted' BY <1>a, <2>1, <2>2, <2>3 DEF StationAccounted, TypeOK
  <2>5. \A n \in Names : r \notin stations[n] BY <1>1 DEF onSendDataObject, Places, Fresh
  <2>6. \A e \in events' : e.type = "PRIORITY" =>
            e \in events \/ \A n \in Names : e.request \notin stations[n]
    BY <1>1, <2>5 DEF onSendDataObject, Event
  <2>7. QED BY <2>1, <2>4, <2>6, UntouchedStations
<1>2. ASSUME NEW e \in events, onSendPriority(e) PROVE Stations' BY <1>2, PriorityStations
<1>3. ASSUME NEW e \in events, onSendResult(e) PROVE Stations' BY <1>3, ResultStations
<1>4. ASSUME NEW e \in events, RefuseActual(e) PROVE Stations'
  <2>1. UNCHANGED <<waiting, stations, enabled, queue, hand>> BY <1>4 DEF RefuseActual, instances
  <2>2. events' = events \ {e} BY <1>4 DEF RefuseActual
  <2>3. \A q \in Requests : lost[q] # "no" \/ q = e.request => lost'[q] # "no"
    BY <1>4 DEF RefuseActual, TypeOK
  <2>4. \A q, n : (Event("ACTUAL", q, n) = e => q = e.request) /\ Event("RESULT", q, n) # e
    BY <1>4 DEF RefuseActual, Event
  <2>5. StationAccounted'
    BY <1>a, <2>1, <2>2, <2>3, <2>4 DEF StationAccounted, TypeOK
  <2>6. QED BY <2>1, <2>2, <2>5, UntouchedStations
<1>5. ASSUME NEW e \in events, NEW i \in Instances, AcceptActual(e, i) PROVE Stations'
  <2>1. UNCHANGED <<waiting, stations, enabled, hand, lost>> BY <1>5 DEF AcceptActual
  <2>2. events' = events \ {e} BY <1>5 DEF AcceptActual
  <2>3. e.request \in queue'[i] /\ \A j \in Instances : queue[j] \subseteq queue'[j]
    BY <1>5 DEF AcceptActual, TypeOK
  <2>4. \A q, n : (Event("ACTUAL", q, n) = e => q = e.request) /\ Event("RESULT", q, n) # e
    BY <1>5 DEF AcceptActual, Event
  <2>5. StationAccounted'
    BY <1>a, <2>1, <2>2, <2>3, <2>4 DEF StationAccounted
  <2>6. QED BY <2>1, <2>2, <2>5, UntouchedStations
<1>6. ASSUME NEW i \in Instances, TakeFromQueue(i) PROVE Stations'
  <2>1. UNCHANGED <<waiting, stations, enabled, events>> BY <1>6 DEF TakeFromQueue
  <2>2. \A q \in Requests : lost[q] # "no" => lost'[q] # "no" BY <1>6 DEF TakeFromQueue, TypeOK
  <2>3. ASSUME NEW q \in Requests, NEW j \in Instances, q \in queue[j] \/ hand[j] = q
        PROVE  lost'[q] # "no" \/ \E k \in Instances : q \in queue'[k] \/ hand'[k] = q
    BY <1>6, <2>3 DEF TakeFromQueue, TypeOK
  <2>4. StationAccounted'
    BY <1>a, <2>1, <2>2, <2>3 DEF StationAccounted, TypeOK
  <2>5. QED BY <2>1, <2>4, UntouchedStations
<1>7. ASSUME NEW i \in Instances, NEW v \in {"sent", "failed"}, Send(i, v) PROVE Stations'
  <2>1. UNCHANGED <<waiting, stations, enabled>> BY <1>7 DEF Send
  <2>2. {hand[i]} \in SUBSET Requests BY <1>7 DEF Send, TypeOK
  <2>3. Told({hand[i]}, i, v) BY <1>7 DEF Send
  <2>4. \A r \in Requests \ {hand[i]} :
          (\E j \in Instances : r \in queue[j] \/ hand[j] = r)
             => \E j \in Instances : r \in queue'[j] \/ hand'[j] = r
    BY <1>7 DEF Send, TypeOK
  <2>5. QED BY <2>1, <2>2, <2>3, <2>4, ToldStations
<1>8. ASSUME NEW i \in Instances, LeaveLoop(i) PROVE Stations'
  <2>1. UNCHANGED <<waiting, stations, enabled, events, queue>> BY <1>8 DEF LeaveLoop
  <2>2. \A q \in Requests : lost[q] # "no" \/ q = hand[i] => lost'[q] # "no"
    BY <1>8 DEF LeaveLoop, TypeOK
  <2>3. \A j \in Instances \ {i} : hand'[j] = hand[j] BY <1>8 DEF LeaveLoop, TypeOK
  <2>4. StationAccounted'
    BY <1>a, <2>1, <2>2, <2>3 DEF StationAccounted, TypeOK
  <2>5. QED BY <2>1, <2>4, UntouchedStations
<1>9. ASSUME NEW i \in Instances, Delete(i) PROVE Stations'
  <2>1. UNCHANGED <<waiting, stations, enabled>> BY <1>9 DEF Delete
  <2>2. queue[i] \in SUBSET Requests BY DEF TypeOK
  <2>3. Told(queue[i], i, "failed") BY <1>9 DEF Delete
  <2>4. \A r \in Requests \ queue[i] :
          (\E j \in Instances : r \in queue[j] \/ hand[j] = r)
             => \E j \in Instances : r \in queue'[j] \/ hand'[j] = r
    BY <1>9 DEF Delete, TypeOK
  <2>5. QED BY <2>1, <2>2, <2>3, <2>4, ToldStations
<1>10. CASE InterfaceDown \/ InterfaceUp \/ Description \/ Purge \/ UNCHANGED vars
  <2>1. UNCHANGED <<waiting, stations, enabled, events, queue, hand, lost>>
    BY <1>10 DEF InterfaceDown, InterfaceUp, Description, Purge, vars, instances
  <2>2. StationAccounted' BY <1>a, <2>1 DEF StationAccounted
  <2>3. QED BY <2>1, <2>2, UntouchedStations
<1>11. QED
  BY <1>1, <1>2, <1>3, <1>4, <1>5, <1>6, <1>7, <1>8, <1>9, <1>10
  DEF Next, KernelStep, WorkerStep

-----------------------------------------------------------------------------
(* The theorems.                                                           *)

\* The invariant holds before anything is asked for.
LEMMA InitIInv == Init => Places /\ Stations
<1> SUFFICES ASSUME Init PROVE Places /\ Stations
    OBVIOUS
<1>1. Places
  BY DEF Init, Places, Once, Apart, HeldUntilSettled, Held, Settled, Fresh, Sending,
         InEvent, InWaiting, InQueue, InHand
<1>2. Order /\ Disabled /\ StationAccounted /\ NoIdleStation
  BY DEF Init, Order, Unsent, Disabled, StationAccounted, NoIdleStation
<1>3. Limited
  BY FS_EmptySet DEF Init, Limited
<1>4. QED BY <1>1, <1>2, <1>3 DEF Stations

\* The inductive invariant of the way of a request.
THEOREM Inductive == Spec => []IInv
<1>1. Init => Places /\ Stations BY InitIInv
<1>2. TypeOK /\ Places /\ Stations /\ [Next]_vars => (Places /\ Stations)'
  BY PlacesStep, StationsStep
<1>3. TypeOK /\ Places /\ Stations => IInv BY DEF IInv, Stations
<1>4. QED BY <1>1, <1>2, <1>3, TypeCorrect, PTL DEF Spec

\* Every object in a send station is on its way to a protocol, with one, or has its
\* verdict on the way back under the name of the station, unless it was lost in one
\* of the named ways: for any number of stations, instances and changes of the node.
THEOREM StationsAccounted == Spec => []StationAccounted
BY Inductive, PTL DEF IInv

\* startSend keeps up: objects wait for a name only while all its stations are taken.
THEOREM StationsFilled == Spec => []NoIdleStation
BY Inductive, PTL DEF IInv

\* A request is in one place at most, and in none exactly when it has its verdict or
\* was dropped, forgotten or stopped.
THEOREM SettledOnce == Spec => []OneVerdict
<1>1. IInv => OneVerdict
  <2> SUFFICES ASSUME IInv, NEW r \in asked
               PROVE  /\ Cardinality(Holders(r)) <= 1
                      /\ Holders(r) = {} <=> Settled(r)
      BY DEF OneVerdict, Settled
  <2>0. r \in Requests BY DEF IInv, TypeOK
  <2>1. Once(r) /\ Apart(r) /\ HeldUntilSettled(r) BY <2>0 DEF IInv, Places
  <2>2. ASSUME NEW x \in Holders(r)
        PROVE  \/ \E e \in events : x = <<"event", e>> /\ Sending(e, r)
               \/ \E n \in Names : x = <<"waiting", n>> /\ r \in waiting[n]
               \/ \E i \in Instances : x = <<"queue", i>> /\ r \in queue[i]
               \/ \E i \in Instances : x = <<"hand", i>> /\ hand[i] = r
    BY <2>2 DEF Holders, Sending
  <2>3. ASSUME NEW x \in Holders(r), NEW y \in Holders(r) PROVE x = y
    BY <2>1, <2>2, <2>3 DEF Once, Apart, InEvent, InWaiting, InQueue, InHand
  <2>4. Holders(r) = {} <=> ~Held(r)
    <3>1. ASSUME Holders(r) = {} PROVE ~Held(r)
      BY <3>1 DEF Holders, Held, Sending, InEvent, InWaiting, InQueue, InHand
    <3>2. ASSUME Holders(r) # {} PROVE Held(r)
      BY <2>2, <3>2 DEF Held, InEvent, InWaiting, InQueue, InHand
    <3>3. QED BY <3>1, <3>2
  <2>5. Cardinality(Holders(r)) <= 1
    <3>1. CASE Holders(r) = {} BY <3>1, FS_EmptySet
    <3>2. CASE Holders(r) # {}
      <4>1. PICK x : x \in Holders(r) BY <3>2
      <4>2. Holders(r) = {x} BY <2>3, <4>1
      <4>3. QED BY <4>2, FS_Singleton
    <3>3. QED BY <3>1, <3>2
  <2>6. QED BY <2>1, <2>4, <2>5 DEF HeldUntilSettled
<1>2. QED BY <1>1, Inductive, PTL
=============================================================================
