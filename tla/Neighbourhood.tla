---------------------------- MODULE Neighbourhood ----------------------------
(***************************************************************************)
(* How this node learns that a neighbour is there: the interface store and *)
(* the connectivity threads that report interfaces (ConnectivityManager,   *)
(* InterfaceStore), the handlers of the kernel thread, the node store, and *)
(* the data store thread that is asked for nodes.                          *)
(*                                                                         *)
(* One remote device.  A node description names all its interfaces.  The   *)
(* code compares interfaces by address but shares the objects that stand   *)
(* for them, and an object has one flag that says it is up.  A nameless    *)
(* node shares the object of the event that brought it, a node made from   *)
(* the database the objects of the interface store, a node made from a     *)
(* description has objects of its own.  The flag of an object is set and   *)
(* toggled as one step.                                                    *)
(***************************************************************************)
EXTENDS Integers, Sequences, FiniteSets

CONSTANTS
    Ifaces,         \* interfaces of the device
    ThirdParty,     \* a description relayed by another device
    Known,          \* create time of the description an earlier run left in the database
    Times,          \* bound: create times of the descriptions received
    MaxAdds,        \* bound: objects made of an interface
    MaxObjects,     \* bound: interface objects in all
    MaxNodes,       \* bound: described node objects at a time
    MaxReceived     \* bound: data objects received

Peer == "peer"      \* the name of the described node

ASSUME NeighbourhoodAssumption ==
    /\ ThirdParty \notin Ifaces /\ Peer \notin Ifaces
    /\ Known \in Nat /\ Times \subseteq Nat \ {0}
    /\ MaxAdds \in Nat /\ MaxObjects \in Nat /\ MaxNodes \in Nat /\ MaxReceived \in Nat

Undefined == 0      \* create time of a nameless node, and of a data object that is no description
NoNode == [id |-> 0, time |-> -1]
Handles == Ifaces \X (1..MaxAdds)   \* references to interface objects

VARIABLES
    found,      \* how many objects there are of each interface
    stored,     \* interface store: the object of each interface, 0 for none
    ifaceUp,    \* interface objects <<i, k>> whose flag is up
    reporting,  \* objects a connectivity thread stored and did not report yet
    snooped,    \* the object the kernel thread stored and did not report yet
    dying,      \* how often an object is removed and not reported yet
    events,     \* the kernel's event queue
    receiving,  \* descriptions whose reception or verification goes on
    tasks,      \* the data store's task queue
    database,   \* create time of the description in the data store
    nodes,      \* the node store
    received,   \* number of data objects received
    contact,    \* history: latest contact event of the described node and of nameless ones
    overtaken   \* history: interfaces whose report or answer was late

vars == <<found, stored, ifaceUp, reporting, snooped, dying, events, receiving, tasks, database,
          nodes, received, contact, overtaken>>

\* A node object: its identity (0 for a nameless node), its interfaces, the object of
\* each that it shares (0 for one of its own), and its own ones that are up.
Node(d, t, is, k, u) == [id |-> d, time |-> t, ifaces |-> is, object |-> k, up |-> u]
Own == [i \in Ifaces |-> 0]
Nameless(o) == Node(0, Undefined, {o[1]}, [Own EXCEPT ![o[1]] = o[2]], {})
Described(d, t, k) == Node(d, t, Ifaces, k, {})

UpIn(n, flags) ==
    {i \in n.ifaces : IF n.object[i] = 0 THEN i \in n.up ELSE <<i, n.object[i]>> \in flags}

isAvailable(n) == UpIn(n, ifaceUp) # {}

\* setInterfaceUp and setInterfaceDown: the node and the shared objects that they mark.
Marked(n, is) == [n EXCEPT !.up = @ \union {i \in is : n.object[i] = 0}]
Unmarked(n, is) == [n EXCEPT !.up = @ \ is]
Shared(n, is) == {<<i, n.object[i]>> : i \in {j \in is : n.object[j] # 0}}

Equal(m, n) ==
    IF m.time = Undefined \/ n.time = Undefined THEN m.ifaces \intersect n.ifaces # {} ELSE TRUE

Id(n) == IF n.time = Undefined THEN CHOOSE i \in Ifaces : n.ifaces = {i} ELSE Peer

Init ==
    /\ found = Own /\ stored = Own
    /\ ifaceUp = {} /\ reporting = {} /\ snooped = {} /\ dying = [o \in Handles |-> 0]
    /\ events = <<>> /\ receiving = {} /\ tasks = <<>>
    /\ database = Known /\ nodes = {} /\ received = 0
    /\ contact = [n \in Ifaces \union {Peer} |-> "none"] /\ overtaken = {}

-----------------------------------------------------------------------------
(* Connectivity.                                                           *)

Objects == {o \in Handles : o[2] <= found[o[1]]}

\* A new interface object, whose flag is up from the start.
Create(i) ==
    /\ found[i] < MaxAdds /\ Cardinality(Objects) < MaxObjects
    /\ found' = [found EXCEPT ![i] = @ + 1]

\* report_interface and delete_interface change the store under its lock and report
\* after they have let go of it.  What a beacon finds is copied into the store.
addupdate(i) ==
    /\ stored[i] = 0
    /\ Create(i)
    /\ stored' = [stored EXCEPT ![i] = found'[i]]
    /\ ifaceUp' = ifaceUp \union {<<i, found'[i]>>}
    /\ reporting' = reporting \union {<<i, found'[i]>>}
    /\ UNCHANGED <<snooped, dying, events, receiving, tasks, database, nodes, received, contact, overtaken>>

ReportUp(o) ==
    /\ \/ o \in reporting /\ reporting' = reporting \ {o} /\ UNCHANGED snooped
       \/ o \in snooped /\ snooped' = snooped \ {o} /\ UNCHANGED reporting
    /\ ifaceUp' = ifaceUp \union {o}
    /\ events' = Append(events, [type |-> "INTERFACE_UP", object |-> o])
    /\ overtaken' = IF stored[o[1]] # o[2] THEN overtaken \union {o[1]} ELSE overtaken
    /\ UNCHANGED <<found, stored, dying, receiving, tasks, database, nodes, received, contact>>

remove(i) ==
    /\ stored[i] # 0
    /\ stored' = [stored EXCEPT ![i] = 0]
    /\ dying' = [dying EXCEPT ![<<i, stored[i]>>] = @ + 1]
    /\ UNCHANGED <<found, ifaceUp, reporting, snooped, events, receiving, tasks, database, nodes,
                   received, contact, overtaken>>

\* Interface::down toggles the flag: an object that is down already comes up.
report_dead(o) ==
    /\ dying[o] > 0
    /\ dying' = [dying EXCEPT ![o] = @ - 1]
    /\ ifaceUp' = IF o \in ifaceUp THEN ifaceUp \ {o} ELSE ifaceUp \union {o}
    /\ events' = Append(events, [type |-> "INTERFACE_DOWN", object |-> o])
    /\ overtaken' = IF stored[o[1]] # 0 \/ o \notin ifaceUp THEN overtaken \union {o[1]} ELSE overtaken
    /\ UNCHANGED <<found, stored, reporting, snooped, receiving, tasks, database, nodes, received, contact>>

\* A data object arrives.  Its protocol instance has kept the interface object it
\* connected with, which was in the store then, or made one of its own.
Arrive(i, t) ==
    /\ received < MaxReceived /\ received' = received + 1
    /\ \E k \in 1..MaxAdds :
         /\ \/ <<i, k>> \in Objects /\ UNCHANGED <<found, ifaceUp>>
            \/ k = found[i] + 1 /\ Create(i) /\ ifaceUp' = ifaceUp \union {<<i, k>>}
         /\ events' = Append(events, [type |-> "INCOMING", object |-> <<i, k>>, time |-> t])
    /\ UNCHANGED <<stored, reporting, snooped, dying, receiving, tasks, database, nodes, contact, overtaken>>

\* The description of the device arrives from another one.
Relay(t) ==
    /\ received < MaxReceived /\ received' = received + 1
    /\ receiving' = receiving \union {[from |-> ThirdParty, time |-> t]}
    /\ UNCHANGED <<found, stored, ifaceUp, reporting, snooped, dying, events, tasks, database, nodes,
                   contact, overtaken>>

-----------------------------------------------------------------------------
(* Node store.                                                             *)

Replaced(n) == {m \in nodes : Equal(m, n)}

\* The interfaces a new node takes over as up from the ones it replaces.
Inherited(n) == n.ifaces \intersect UNION {UpIn(m, ifaceUp) : m \in Replaced(n)}

\* Mutant: the new node is added and the old ones stay.
addUpdated(n) == nodes \union {Marked(n, Inherited(n))}

\* Mutant: the interfaces that are up are forgotten.
updateForgets(n) == (nodes \ Replaced(n)) \union {n}

\* update, and add when there is nothing to update.
update(n) == (nodes \ Replaced(n)) \union {Marked(n, Inherited(n))}

updateFlags(n) == ifaceUp \union Shared(n, Inherited(n))

\* An answer of the data store may be the very object that is in the node store.
\* Answers for a node that leaves the node store keep what it is then.
Current(n) == IF \E m \in nodes : m.id # 0 /\ m.id = n.id
                 THEN CHOOSE m \in nodes : m.id # 0 /\ m.id = n.id ELSE n

Part(s, gone) ==
    [p \in DOMAIN s |->
       IF s[p].type = "RETRIEVED" /\ \E m \in gone : m.id # 0 /\ m.id = s[p].node.id
          THEN [s[p] EXCEPT !.node = CHOOSE m \in gone : m.id = s[p].node.id] ELSE s[p]]

\* Identities of described nodes.
Used == {m.id : m \in nodes} \union {events[p].node.id : p \in {q \in DOMAIN events : events[q].type = "RETRIEVED"}}
Unused == (1..MaxNodes) \ Used
Fresh == CHOOSE d \in Unused : TRUE

-----------------------------------------------------------------------------
(* Handlers.  Each takes the first event of the queue, when the kernel     *)
(* thread has finished the one before.                                     *)

Handle(type) == snooped = {} /\ events # <<>> /\ Head(events).type = type

\* Interfaces with an event of the type that is not handled yet.
Announced(type) == {events[p].object[1] : p \in {q \in DOMAIN events : events[q].type = type}}

\* History: somebody still refers to the object, or is about to be told of it.
InUse(o) ==
    \/ o \in reporting \/ dying[o] > 0
    \/ \E n \in nodes : o \in Shared(n, n.ifaces)
    \/ \E p \in DOMAIN events :
         \/ events[p].type # "INCOMING" /\ events[p].type # "DESCRIPTION" /\ events[p].object = o
         \/ events[p].type = "RETRIEVED" /\ events[p].node # NoNode /\ o \in Shared(events[p].node, Ifaces)
    \/ \E p \in DOMAIN tasks : tasks[p].type = "RETRIEVE" /\ tasks[p].object = o

\* ConnectivityManager's handler: the interface a data object came from is up, and the
\* object itself is stored when the interface is not in the store.
onIncomingDataObject ==
    /\ Handle("INCOMING")
    /\ LET o == Head(events).object
       IN  /\ ifaceUp' = ifaceUp \union {o}
           /\ \/ stored[o[1]] # 0 /\ UNCHANGED <<stored, snooped>>
              \/ /\ stored[o[1]] = 0
                 /\ stored' = [stored EXCEPT ![o[1]] = o[2]] /\ snooped' = {o}
           /\ receiving' = IF Head(events).time = Undefined THEN receiving
                           ELSE receiving \union {[from |-> o[1], time |-> Head(events).time]}
           /\ overtaken' = IF stored[o[1]] # o[2] /\ InUse(o) THEN overtaken \union {o[1]} ELSE overtaken
    /\ events' = Tail(events)
    /\ UNCHANGED <<found, reporting, dying, tasks, database, nodes, received, contact>>

\* A description that is received and verified is queued to be inserted.
onVerifiedDataObject(d) ==
    /\ snooped = {}
    /\ receiving' = receiving \ {d}
    /\ tasks' = Append(tasks, [type |-> "DESCRIBE", from |-> d.from, time |-> d.time])
    /\ UNCHANGED <<found, stored, ifaceUp, reporting, snooped, dying, events, database, nodes, received,
                   contact, overtaken>>

onNeighborInterfaceUp ==
    /\ Handle("INTERFACE_UP")
    /\ LET o == Head(events).object
           neighbours == {n \in nodes : isAvailable(n) /\ o[1] \in n.ifaces}
       IN  \/ /\ neighbours = {}
              /\ tasks' = Append(tasks, [type |-> "RETRIEVE", object |-> o])
              /\ UNCHANGED <<nodes, ifaceUp>>
           \/ \E n \in neighbours :
                /\ nodes' = (nodes \ {n}) \union {Marked(n, {o[1]})}
                /\ ifaceUp' = ifaceUp \union Shared(n, {o[1]})
                /\ UNCHANGED tasks
    /\ events' = Tail(events)
    /\ UNCHANGED <<found, stored, reporting, snooped, dying, receiving, database, received, contact, overtaken>>

\* History: the interfaces the answer n for the object o is out of date for.
Outdated(o, n) ==
    (IF stored[o[1]] # o[2] THEN {o[1]} ELSE {})
      \union {i \in UpIn(n, ifaceUp) : stored[i] = 0}
      \union UNION {m.ifaces : m \in {r \in Replaced(n) : r.time > n.time}}

\* Mutant: the contact is announced only for a node that was not in the node store.
onRetrieveNodeQuiet ==
    /\ Handle("RETRIEVED")
    /\ LET o == Head(events).object
           n == IF Head(events).node = NoNode THEN Nameless(o) ELSE Current(Head(events).node)
       IN  /\ nodes' = update(n) /\ ifaceUp' = updateFlags(n)
           /\ events' = Part(Tail(events), Replaced(n) \ {n})
           /\ contact' = IF Replaced(n) = {} THEN [contact EXCEPT ![Id(n)] = "new"] ELSE contact
           /\ overtaken' = overtaken \union Outdated(o, n)
    /\ UNCHANGED <<found, stored, reporting, snooped, dying, receiving, tasks, database, received>>

\* The data store's answer, or a nameless node, takes the place of what the node
\* store has.
onRetrieveNode ==
    /\ Handle("RETRIEVED")
    /\ LET o == Head(events).object
           n == IF Head(events).node = NoNode THEN Nameless(o) ELSE Current(Head(events).node)
       IN  /\ nodes' = update(n) /\ ifaceUp' = updateFlags(n)
           /\ events' = Part(Tail(events), Replaced(n) \ {n})
           /\ contact' = [contact EXCEPT ![Id(n)] = "new"]
           /\ overtaken' = overtaken \union Outdated(o, n)
    /\ UNCHANGED <<found, stored, reporting, snooped, dying, receiving, tasks, database, received>>

onNeighborInterfaceDown ==
    /\ Handle("INTERFACE_DOWN")
    /\ events' = Tail(events)
    /\ LET i == Head(events).object[1]
           owners == {n \in nodes : i \in n.ifaces}
       IN  \/ owners = {} /\ UNCHANGED <<nodes, ifaceUp, tasks, contact>>
           \/ \E n \in owners :
                LET m == Unmarked(n, {i})
                IN  /\ nodes' = (nodes \ {n}) \union {m}
                    /\ ifaceUp' = ifaceUp \ Shared(n, {i})
                    /\ IF UpIn(m, ifaceUp') # {}
                          THEN UNCHANGED <<tasks, contact>>
                          ELSE /\ tasks' = Append(tasks, [type |-> "INSERT", time |-> n.time])
                               /\ contact' = [contact EXCEPT ![Id(n)] = "end"]
    /\ UNCHANGED <<found, stored, reporting, snooped, dying, receiving, database, received, overtaken>>

\* The description of a neighbour that another device relays, and one older than the
\* description at hand, are ignored.
Ignored(e, n) ==
    \E m \in Replaced(n) :
      \/ e.from = ThirdParty /\ isAvailable(m)
      \/ m.time # Undefined /\ e.time < m.time

\* History: the interfaces a description that is handled now is too late or too
\* early for: gone, or found and not announced to this handler yet.
OutOfStep ==
    {i \in Ifaces :
       \/ stored[i] = 0
       \/ \E o \in reporting : o[1] = i
       \/ i \in Announced("INTERFACE_UP")}

onReceiveNodeDescription ==
    /\ Handle("DESCRIPTION") /\ Unused # {}
    /\ LET e == Head(events)
           made == Described(Fresh, e.time, Own)
           n == IF e.from = ThirdParty THEN made ELSE Marked(made, {e.from})
           synced == Marked(n, {i \in Ifaces : stored[i] # 0})
           new == IF Replaced(n) = {} THEN synced ELSE n
       IN  \/ Ignored(e, n) /\ events' = Tail(events) /\ UNCHANGED <<nodes, contact, tasks, overtaken>>
           \/ /\ ~Ignored(e, n)
              /\ tasks' = IF \A m \in Replaced(n) : e.time > m.time
                             THEN Append(tasks, [type |-> "INSERT", time |-> e.time]) ELSE tasks
              /\ nodes' = update(new)
              /\ events' = Part(Tail(events), Replaced(n))
              /\ contact' = IF /\ \E m \in nodes' : m.time # Undefined /\ isAvailable(m)
                               /\ \/ Replaced(n) = {}
                                  \/ \E m \in Replaced(n) : m.time = Undefined
                               THEN [contact EXCEPT ![Peer] = "new"] ELSE contact
              /\ overtaken' = overtaken \union ({e.from} \intersect OutOfStep)
    /\ UNCHANGED <<found, stored, ifaceUp, reporting, snooped, dying, receiving, database, received>>

\* onPeriodicNodeDescriptionPurge.  A node that shares the object of an interface is no
\* neighbour once the interface is lost, before the loss is handled.
Purge ==
    /\ snooped = {}
    /\ \E n \in nodes :
         /\ n.time # Undefined /\ ~isAvailable(n)
         /\ nodes' = nodes \ {n}
         /\ events' = Part(events, {n})
         /\ tasks' = Append(tasks, [type |-> "INSERT", time |-> n.time])
    /\ overtaken' = overtaken \union Announced("INTERFACE_DOWN")
    /\ UNCHANGED <<found, stored, ifaceUp, reporting, snooped, dying, receiving, database, received, contact>>

-----------------------------------------------------------------------------
(* Data store.                                                             *)

_insertNode ==
    /\ tasks # <<>> /\ Head(tasks).type = "INSERT"
    /\ tasks' = Tail(tasks)
    /\ database' = IF Head(tasks).time = Undefined THEN database ELSE Head(tasks).time
    /\ UNCHANGED <<found, stored, ifaceUp, reporting, snooped, dying, events, receiving, nodes, received,
                   contact, overtaken>>

\* createNode: the node of the interface is the object in the node store, or one made
\* from the database around the objects of the interface store.
createNode == Described(Fresh, database, stored)

\* The interface is marked up in it when the object that was found is up now.
_retrieveNode ==
    /\ tasks # <<>> /\ Head(tasks).type = "RETRIEVE"
    /\ tasks' = Tail(tasks)
    /\ LET o == Head(tasks).object
           up == {o[1]} \intersect {i \in Ifaces : o \in ifaceUp}
           known == {m \in nodes : m.time # Undefined}
           Answer(n) == events' = Append(events, [type |-> "RETRIEVED", object |-> o, node |-> n])
       IN  \/ /\ database = Undefined
              /\ Answer(NoNode) /\ UNCHANGED <<nodes, ifaceUp>>
           \/ /\ database # Undefined /\ known = {} /\ Unused # {}
              /\ Answer(Marked(createNode, up))
              /\ ifaceUp' = ifaceUp \union Shared(createNode, up) /\ UNCHANGED nodes
           \/ /\ database # Undefined
              /\ \E m \in known :
                   /\ nodes' = (nodes \ {m}) \union {Marked(m, up)}
                   /\ ifaceUp' = ifaceUp \union Shared(m, up)
                   /\ Answer([m EXCEPT !.up = {}])
    /\ UNCHANGED <<found, stored, reporting, snooped, dying, receiving, database, received, contact, overtaken>>

\* The description itself is inserted, which tells the filter of NodeManager.
InsertDescription ==
    /\ tasks # <<>> /\ Head(tasks).type = "DESCRIBE"
    /\ tasks' = Tail(tasks)
    /\ events' = Append(events, [Head(tasks) EXCEPT !.type = "DESCRIPTION"])
    /\ UNCHANGED <<found, stored, ifaceUp, reporting, snooped, dying, receiving, database, nodes, received,
                   contact, overtaken>>

-----------------------------------------------------------------------------
KernelStep ==
    \/ onIncomingDataObject \/ \E d \in receiving : onVerifiedDataObject(d)
    \/ onNeighborInterfaceUp \/ onRetrieveNode \/ onNeighborInterfaceDown \/ onReceiveNodeDescription \/ Purge

DataStoreStep == _insertNode \/ _retrieveNode \/ InsertDescription

Next ==
    \/ \E i \in Ifaces : addupdate(i) \/ remove(i)
    \/ \E o \in reporting \union snooped : ReportUp(o)
    \/ \E o \in Objects : report_dead(o)
    \/ \E i \in Ifaces, t \in Times \union {Undefined} : Arrive(i, t)
    \/ \E t \in Times : Relay(t)
    \/ KernelStep \/ DataStoreStep

Spec == Init /\ [][Next]_vars

-----------------------------------------------------------------------------
(* Properties.                                                             *)

Quiet ==
    /\ events = <<>> /\ tasks = <<>> /\ receiving = {} /\ reporting = {} /\ snooped = {}
    /\ \A o \in Handles : dying[o] = 0

\* The node store has at most one node for what is the same node.
OneRecord == \A m, n \in nodes : Equal(m, n) => m = n

\* Once everything is handled, an interface is up in the node store exactly when it
\* is in the interface store, unless a report, an answer or a description about it
\* was overtaken by a later change of the interface store.
NeighboursAgree ==
    Quiet => \A i \in Ifaces \ overtaken :
               stored[i] # 0 <=> \E n \in nodes : i \in UpIn(n, ifaceUp)

\* Then the latest contact event of a node, too, says what the node store says.
ContactsTold ==
    Quiet /\ overtaken = {} => \A n \in nodes : isAvailable(n) <=> contact[Id(n)] = "new"

Time == IF \E n \in nodes : n.time # Undefined
           THEN (CHOOSE n \in nodes : n.time # Undefined).time ELSE Undefined

\* NodeManager.cpp: a new contact is announced only with the best information there
\* is: no handler but the purge replaces a description by an older one or by none.
BestInformation == [][Time' < Time => nodes' \subseteq nodes]_vars
=============================================================================
