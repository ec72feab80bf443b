------------------------------ MODULE SendPath ------------------------------
(***************************************************************************)
(* The way of a data object from EVENT_TYPE_DATAOBJECT_SEND to a verdict:  *)
(* ProtocolManager::onSendDataObject, the send stations of the send        *)
(* priority manager, ProtocolManager::onSendDataObjectActual, the sender   *)
(* instances of one link, and back through SEND_PRIORITY_SUCCESS/FAILURE.  *)
(*                                                                         *)
(* One neighbour with one interface.  Its node in the node store changes:  *)
(* it is a nameless node until its description arrives, and a new nameless *)
(* node each time it returns before that.  Stations are kept by the name   *)
(* of the node; the verdict of an instance carries the name of its peer.   *)
(* SendOrder has the choice among the waiting objects, ProtocolRun the     *)
(* inside of an instance, Neighbourhood the changes of the node.           *)
(***************************************************************************)
EXTENDS Integers, FiniteSets

CONSTANTS
    Requests,        \* data objects to be sent to the neighbour
    Control,         \* those that are control messages
    Instances,       \* sender instances the registry may hold for the link
    NoRequest,       \* an instance with no data object in hand
    ParallelFactor,  \* send stations of a node name
    MaxInstancesPerLink,
    MaxNames,        \* bound: nameless nodes ever made for the neighbour
    MaxDowns         \* bound: how often the interface goes down

ASSUME SendPathAssumption ==
    /\ Control \subseteq Requests /\ NoRequest \notin Requests
    /\ ParallelFactor \in Nat \ {0}
    /\ MaxInstancesPerLink \in Nat \ {0}
    /\ MaxNames \in Nat \ {0} /\ MaxDowns \in Nat

Known == 0                  \* the name in the node description
Temporary == MaxNames + 1   \* a peer node an instance made for itself
Names == 0..Temporary
NoNode == -1

VARIABLES
    enabled,    \* the send priority manager is configured to order
    node,       \* name of the neighbour's node in the node store, or NoNode
    up,         \* its interface is up
    described,  \* the data store has its description
    names, downs,   \* nameless nodes made, interface losses so far
    asked,      \* requests the protocol manager has seen
    events,     \* the kernel's event queue
    waiting, stations,  \* per name: objects in the graph, objects being sent
    mode,       \* of each instance: none, active, done
    peerNode,   \* of each instance: a name
    queue, hand,    \* of each instance: queued objects, the object being sent
    verdict,    \* history: DATAOBJECT_SEND_SUCCESSFUL / _FAILURE raised
    lost        \* history: why no SEND_PRIORITY verdict under its name will come

vars == <<enabled, node, up, described, names, downs, asked, events, waiting,
          stations, mode, peerNode, queue, hand, verdict, lost>>
neighbour == <<node, up, described, names, downs>>
instances == <<mode, peerNode, queue, hand>>

Event(t, r, n) == [type |-> t, request |-> r, node |-> n]

Init ==
    /\ enabled \in BOOLEAN
    /\ node = 1 /\ up = TRUE /\ described = FALSE /\ names = 1 /\ downs = 0
    /\ asked = {} /\ events = {}
    /\ waiting = [n \in Names |-> {}] /\ stations = [n \in Names |-> {}]
    /\ mode = [i \in Instances |-> "none"]
    /\ peerNode = [i \in Instances |-> Temporary]
    /\ queue = [i \in Instances |-> {}] /\ hand = [i \in Instances |-> NoRequest]
    /\ verdict = [r \in Requests |-> "none"] /\ lost = [r \in Requests |-> "no"]

-----------------------------------------------------------------------------
(* Protocol manager, first half.                                           *)

\* In shutdown, and for an object that is not signed or not encrypted as it has to
\* be, nothing happens.  A node that is not in the node store, or that has the
\* object, is answered at once; control messages go round the send priority manager.
onSendDataObject(r) ==
    /\ r \notin asked
    /\ asked' = asked \union {r}
    /\ \/ /\ r \notin Control
          /\ lost' = [lost EXCEPT ![r] = "dropped"] /\ UNCHANGED <<verdict, events>>
       \/ /\ r \notin Control
          /\ verdict' = [verdict EXCEPT ![r] = IF node = NoNode THEN "failed" ELSE "sent"]
          /\ UNCHANGED <<lost, events>>
       \/ /\ node # NoNode
          /\ events' = events \union {Event(IF r \in Control THEN "ACTUAL" ELSE "PRIORITY", r, node)}
          /\ UNCHANGED <<verdict, lost>>
    /\ UNCHANGED <<neighbour, enabled, waiting, stations, instances>>

-----------------------------------------------------------------------------
(* Send priority manager.                                                  *)

\* Mutant: the object is handed out and keeps waiting too.
startSendKeeps(n, ws, st, others) ==
    \/ /\ ws # {} /\ Cardinality(st) < ParallelFactor
       /\ \E s \in ws :
            /\ waiting' = [waiting EXCEPT ![n] = ws]
            /\ stations' = [stations EXCEPT ![n] = st \union {s}]
            /\ events' = others \union {Event("ACTUAL", s, n)}
    \/ /\ ws = {} \/ Cardinality(st) >= ParallelFactor
       /\ waiting' = [waiting EXCEPT ![n] = ws]
       /\ stations' = [stations EXCEPT ![n] = st]
       /\ events' = others

\* One object moves to a station if one is free; ws and st are what the calling
\* handler has made of the waiting objects and of the stations.
startSend(n, ws, st, others) ==
    \/ /\ ws # {} /\ Cardinality(st) < ParallelFactor
       /\ \E s \in ws :
            /\ waiting' = [waiting EXCEPT ![n] = ws \ {s}]
            /\ stations' = [stations EXCEPT ![n] = st \union {s}]
            /\ events' = others \union {Event("ACTUAL", s, n)}
    \/ /\ ws = {} \/ Cardinality(st) >= ParallelFactor
       /\ waiting' = [waiting EXCEPT ![n] = ws]
       /\ stations' = [stations EXCEPT ![n] = st]
       /\ events' = others

onSendPriority(e) ==
    /\ e \in events /\ e.type = "PRIORITY"
    /\ IF enabled
          THEN startSend(e.node, waiting[e.node] \union {e.request}, stations[e.node], events \ {e})
          ELSE /\ events' = (events \ {e}) \union {Event("ACTUAL", e.request, e.node)}
               /\ UNCHANGED <<waiting, stations>>
    /\ UNCHANGED <<neighbour, enabled, asked, instances, verdict, lost>>

\* Mutant: a verdict frees the station without filling it again.
onSendResultOnly(e) ==
    /\ e \in events /\ e.type = "RESULT"
    /\ events' = events \ {e}
    /\ stations' = IF enabled THEN [stations EXCEPT ![e.node] = @ \ {e.request}] ELSE stations
    /\ UNCHANGED <<waiting, neighbour, enabled, asked, instances, verdict, lost>>

\* onSendSuccessful and onSendFailure.  A name without a taken station has no
\* send state: there is nothing to do.  A verdict about an object that is in no
\* station of the name still lets startSend try.
onSendResult(e) ==
    /\ e \in events /\ e.type = "RESULT"
    /\ IF enabled /\ stations[e.node] # {}
          THEN startSend(e.node, waiting[e.node], stations[e.node] \ {e.request}, events \ {e})
          ELSE events' = events \ {e} /\ UNCHANGED <<waiting, stations>>
    /\ UNCHANGED <<neighbour, enabled, asked, instances, verdict, lost>>

-----------------------------------------------------------------------------
(* Protocol manager, second half.                                          *)

LimitReached ==
    /\ \A i \in Instances : mode[i] # "active"
    /\ Cardinality({i \in Instances : mode[i] = "done"}) >= MaxInstancesPerLink

\* The target has no interface that is up, the link has as many instances as it may,
\* or the instance that was found became done before sendDataObject tested it.  A
\* target that was replaced in the node store keeps the interface states of that
\* moment, so it may be found down although the neighbour is there.
MayRefuse(target) ==
    \/ ~up \/ downs > 0 \/ target # node
    \/ LimitReached
    \/ \E i \in Instances : mode[i] = "done"

\* Only DATAOBJECT_SEND_FAILURE is raised.
RefuseActual(e) ==
    /\ e \in events /\ e.type = "ACTUAL"
    /\ MayRefuse(e.node)
    /\ events' = events \ {e}
    /\ verdict' = [verdict EXCEPT ![e.request] = "failed"]
    /\ lost' = [lost EXCEPT ![e.request] = "refused"]
    /\ UNCHANGED <<neighbour, enabled, asked, waiting, stations, instances>>

\* getSenderProtocol: an instance that is not done, or a new one, whose peer is
\* the node that has the interface now.
SenderProtocol(i) ==
    \/ mode[i] = "active"
    \/ mode[i] = "none" /\ ~LimitReached /\ \A j \in Instances : mode[j] # "active"

InitialPeer(i) ==
    IF mode[i] = "active" THEN peerNode[i] ELSE IF node = NoNode THEN Temporary ELSE node

\* sendDataObject: a nameless peer is replaced by a target with a name.
AcceptActual(e, i) ==
    /\ e \in events /\ e.type = "ACTUAL"
    /\ up \/ e.node # node
    /\ SenderProtocol(i)
    /\ events' = events \ {e}
    /\ mode' = [mode EXCEPT ![i] = "active"]
    /\ peerNode' = [peerNode EXCEPT ![i] = IF e.node = Known THEN Known ELSE InitialPeer(i)]
    /\ queue' = [queue EXCEPT ![i] = @ \union {e.request}]
    /\ UNCHANGED <<neighbour, enabled, asked, waiting, stations, hand, verdict, lost>>

-----------------------------------------------------------------------------
(* The worker of an instance, and its deletion.                            *)

\* Protocol::run takes an object and looks for its peer among the neighbours; it
\* drops the object when it finds none.
TakeFromQueue(i) ==
    /\ mode[i] = "active" /\ hand[i] = NoRequest
    /\ \E r \in queue[i] :
         /\ queue' = [queue EXCEPT ![i] = @ \ {r}]
         /\ \/ node # NoNode /\ up /\ hand' = [hand EXCEPT ![i] = r] /\ UNCHANGED lost
            \/ /\ node = NoNode \/ ~up
               /\ lost' = [lost EXCEPT ![r] = "forgotten"] /\ UNCHANGED hand
    /\ UNCHANGED <<neighbour, enabled, asked, events, waiting, stations, mode, peerNode, verdict>>

\* Mutant: the send priority manager is not told.
ToldOthersOnly(R, i, v) ==
    /\ verdict' = [r \in Requests |-> IF r \in R THEN v ELSE verdict[r]]
    /\ UNCHANGED <<events, lost>>

\* The verdict of an instance is about its peer of this moment.
Told(R, i, v) ==
    /\ verdict' = [r \in Requests |-> IF r \in R THEN v ELSE verdict[r]]
    /\ events' = events \union {Event("RESULT", r, peerNode[i]) : r \in R}
    /\ lost' = [r \in Requests |->
                  IF r \in R /\ r \notin stations[peerNode[i]] THEN "renamed" ELSE lost[r]]

\* An exchange ends; a failure may also end the instance.
Send(i, v) ==
    /\ hand[i] # NoRequest
    /\ Told({hand[i]}, i, v)
    /\ hand' = [hand EXCEPT ![i] = NoRequest]
    /\ mode' \in {mode} \union (IF v = "failed" THEN {[mode EXCEPT ![i] = "done"]} ELSE {})
    /\ UNCHANGED <<neighbour, enabled, asked, waiting, stations, peerNode, queue>>

\* The loop ends: idle for too long, cancelled, or an error.  What was to be
\* sent again goes with it.
LeaveLoop(i) ==
    /\ mode[i] = "active" \/ hand[i] # NoRequest
    /\ mode' = [mode EXCEPT ![i] = "done"]
    /\ hand' = [hand EXCEPT ![i] = NoRequest]
    /\ lost' = IF hand[i] = NoRequest THEN lost ELSE [lost EXCEPT ![hand[i]] = "stopped"]
    /\ UNCHANGED <<neighbour, enabled, asked, events, waiting, stations, peerNode, queue, verdict>>

\* Mutant: an instance is deleted only once its queue is empty.
DeleteIdleOnly(i) ==
    /\ mode[i] = "done" /\ hand[i] = NoRequest /\ queue[i] = {}
    /\ mode' = [mode EXCEPT ![i] = "none"]
    /\ UNCHANGED <<neighbour, enabled, asked, events, waiting, stations, peerNode, queue, hand, verdict, lost>>

\* The destructor: closeAndClearQueue.
Delete(i) ==
    /\ mode[i] = "done" /\ hand[i] = NoRequest
    /\ Told(queue[i], i, "failed")
    /\ mode' = [mode EXCEPT ![i] = "none"]
    /\ queue' = [queue EXCEPT ![i] = {}]
    /\ UNCHANGED <<neighbour, enabled, asked, waiting, stations, peerNode, hand>>

-----------------------------------------------------------------------------
(* The neighbour.                                                          *)

\* The instances of the interface are shut down with it.
InterfaceDown ==
    /\ up /\ downs < MaxDowns
    /\ up' = FALSE /\ downs' = downs + 1
    /\ mode' = [i \in Instances |-> IF mode[i] = "active" THEN "done" ELSE mode[i]]
    /\ UNCHANGED <<node, described, names, enabled, asked, events, waiting, stations,
                   peerNode, queue, hand, verdict, lost>>

\* The data store knows the neighbour, or it is a nameless node again.
InterfaceUp ==
    /\ ~up /\ up' = TRUE
    /\ \/ described /\ node' = Known /\ UNCHANGED names
       \/ ~described /\ names < MaxNames /\ names' = names + 1 /\ node' = names'
    /\ UNCHANGED <<described, downs, enabled, asked, events, waiting, stations, instances, verdict, lost>>

Description ==
    /\ up /\ ~described
    /\ described' = TRUE /\ node' = Known
    /\ UNCHANGED <<up, names, downs, enabled, asked, events, waiting, stations, instances, verdict, lost>>

Purge ==
    /\ ~up /\ node = Known /\ node' = NoNode
    /\ UNCHANGED <<up, described, names, downs, enabled, asked, events, waiting, stations,
                   instances, verdict, lost>>

-----------------------------------------------------------------------------
KernelStep ==
    \/ \E e \in events : onSendPriority(e) \/ onSendResult(e) \/ RefuseActual(e)
    \/ \E e \in events, i \in Instances : AcceptActual(e, i)

WorkerStep(i) == TakeFromQueue(i) \/ \E v \in {"sent", "failed"} : Send(i, v)

Next ==
    \/ \E r \in Requests : onSendDataObject(r)
    \/ KernelStep
    \/ \E i \in Instances : WorkerStep(i) \/ LeaveLoop(i) \/ Delete(i)
    \/ InterfaceDown \/ InterfaceUp \/ Description \/ Purge

\* The kernel handles what is queued, a worker goes on and ends its exchanges
\* (every wait in one has a timeout), an instance that is done is deleted.
Fairness ==
    /\ WF_vars(KernelStep)
    /\ \A i \in Instances : WF_vars(WorkerStep(i)) /\ WF_vars(Delete(i))

Spec == Init /\ [][Next]_vars /\ Fairness

-----------------------------------------------------------------------------
(* Properties.                                                             *)

TypeOK ==
    /\ enabled \in BOOLEAN /\ up \in BOOLEAN /\ described \in BOOLEAN
    /\ node \in Names \union {NoNode} /\ names \in 0..MaxNames /\ downs \in 0..MaxDowns
    /\ asked \subseteq Requests
    /\ events \subseteq [type : {"PRIORITY", "ACTUAL", "RESULT"}, request : Requests, node : Names]
    /\ waiting \in [Names -> SUBSET Requests] /\ stations \in [Names -> SUBSET Requests]
    /\ mode \in [Instances -> {"none", "active", "done"}]
    /\ peerNode \in [Instances -> Names]
    /\ queue \in [Instances -> SUBSET Requests] /\ hand \in [Instances -> Requests \union {NoRequest}]
    /\ verdict \in [Requests -> {"none", "sent", "failed"}]
    /\ lost \in [Requests -> {"no", "refused", "forgotten", "stopped", "renamed", "dropped"}]

\* An object in a station is on its way to a protocol, with one, or its verdict is
\* on its way back under the name of the station, unless it was lost in one of the
\* four ways named above.
StationAccounted ==
    \A n \in Names : \A r \in stations[n] :
      \/ Event("ACTUAL", r, n) \in events
      \/ \E i \in Instances : r \in queue[i] \/ hand[i] = r
      \/ Event("RESULT", r, n) \in events
      \/ lost[r] # "no"

\* Objects wait for a name only while all its stations are taken.
NoIdleStation ==
    \A n \in Names : waiting[n] # {} => Cardinality(stations[n]) >= ParallelFactor

\* Everything that still has this object to send.
Holders(r) ==
    {<<"event", e>> : e \in {x \in events : x.request = r /\ x.type # "RESULT"}}
      \union {<<"waiting", n>> : n \in {x \in Names : r \in waiting[x]}}
      \union {<<"queue", i>> : i \in {x \in Instances : r \in queue[x]}}
      \union {<<"hand", i>> : i \in {x \in Instances : hand[x] = r}}

\* A request is in one place at most, in none once it has a verdict, and has a
\* verdict when it is nowhere, except when it was dropped unsigned or unencrypted,
\* or a worker forgot it.
OneVerdict ==
    \A r \in asked :
      /\ Cardinality(Holders(r)) <= 1
      /\ Holders(r) = {} <=> verdict[r] # "none" \/ lost[r] \in {"dropped", "forgotten", "stopped"}

\* All stations of the name hold objects that nothing will ever release.
Stuck(n) == stations[n] # {} /\ \A s \in stations[n] : lost[s] # "no"

\* No object waits for ever, unless what holds the stations of its name was lost.
WaitingEnds ==
    \A r \in Requests :
      (\E n \in Names : r \in waiting[n]) ~> \A n \in Names : r \in waiting[n] => Stuck(n)

\* README-sendpriority.txt: every end of a send is reported to the manager, so that
\* a new object can be sent.
WaitingServed ==
    \A r \in Requests :
      (\E n \in Names : r \in waiting[n]) ~> \A n \in Names : r \notin waiting[n]
=============================================================================
