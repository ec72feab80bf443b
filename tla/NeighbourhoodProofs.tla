------------------------- MODULE NeighbourhoodProofs -------------------------
(***************************************************************************)
(* Proofs about Neighbourhood, for any number of interfaces of the device, *)
(* any number of changes and any number of data objects received: types,   *)
(* one record per device, and the agreement of interface store and node    *)
(* store.                                                                  *)
(***************************************************************************)
EXTENDS Neighbourhood, TLAPS

USE NeighbourhoodAssumption

-----------------------------------------------------------------------------
(* Types, over the interface objects there are: f counts them.             *)

ObjectsOver(f) == {o \in Handles : o[2] <= f[o[1]]}
Sources == Ifaces \union {ThirdParty}
NodeObjects ==
    [id : Nat, time : Nat, ifaces : SUBSET Ifaces, object : [Ifaces -> 0..MaxAdds], up : SUBSET Ifaces]

\* A nameless node has one interface, a described one has all of the device.
NodesOver(f) ==
    {n \in NodeObjects :
       /\ IF n.time = Undefined THEN n.id = 0 /\ \E i \in Ifaces : n.ifaces = {i} ELSE n.id # 0 /\ n.ifaces = Ifaces
       /\ \A i \in Ifaces : n.object[i] <= f[i]}

DescribedOver(f) == {n \in NodesOver(f) : n.time # Undefined}

InterfaceEvents(f) == [type : {"INTERFACE_UP", "INTERFACE_DOWN"}, object : ObjectsOver(f)]
IncomingEvents(f) == [type : {"INCOMING"}, object : ObjectsOver(f), time : Times \union {Undefined}]
DescriptionEvents == [type : {"DESCRIPTION"}, from : Sources, time : Times]
RetrievedEvents(f) == [type : {"RETRIEVED"}, object : ObjectsOver(f), node : DescribedOver(f) \union {NoNode}]
EventsOver(f) == InterfaceEvents(f) \union IncomingEvents(f) \union DescriptionEvents \union RetrievedEvents(f)

InsertTasks == [type : {"INSERT"}, time : Nat]
RetrieveTasks(f) == [type : {"RETRIEVE"}, object : ObjectsOver(f)]
DescribeTasks == [type : {"DESCRIBE"}, from : Sources, time : Times]
TasksOver(f) == InsertTasks \union RetrieveTasks(f) \union DescribeTasks

TypeOK ==
    /\ found \in [Ifaces -> 0..MaxAdds] /\ stored \in [Ifaces -> 0..MaxAdds]
    /\ \A i \in Ifaces : stored[i] <= found[i]
    /\ ifaceUp \subseteq Handles
    /\ reporting \subseteq ObjectsOver(found) /\ snooped \subseteq ObjectsOver(found)
    /\ dying \in [Handles -> Nat]
    /\ events \in Seq(EventsOver(found)) /\ tasks \in Seq(TasksOver(found))
    /\ receiving \subseteq [from : Sources, time : Times]
    /\ database \in Nat
    /\ nodes \subseteq NodesOver(found)
    /\ received \in Nat
    /\ contact \in [Ifaces \union {Peer} -> {"none", "new", "end"}]
    /\ overtaken \subseteq Ifaces

\* More interface objects make the types no smaller.
LEMMA Grows ==
    ASSUME NEW f \in [Ifaces -> 0..MaxAdds], NEW g \in [Ifaces -> 0..MaxAdds],
           \A i \in Ifaces : f[i] <= g[i]
    PROVE  /\ ObjectsOver(f) \subseteq ObjectsOver(g) /\ NodesOver(f) \subseteq NodesOver(g)
           /\ Seq(EventsOver(f)) \subseteq Seq(EventsOver(g)) /\ Seq(TasksOver(f)) \subseteq Seq(TasksOver(g))
<1>1. ObjectsOver(f) \subseteq ObjectsOver(g)
  <2> SUFFICES ASSUME NEW o \in Handles, o[2] <= f[o[1]] PROVE o[2] <= g[o[1]] BY DEF ObjectsOver
  <2>1. o[1] \in Ifaces /\ o[2] \in Nat BY DEF Handles
  <2>2. QED BY <2>1
<1>2. NodesOver(f) \subseteq NodesOver(g)
  <2> SUFFICES ASSUME NEW n \in NodesOver(f), NEW i \in Ifaces PROVE n.object[i] <= g[i] BY DEF NodesOver
  <2>1. n.object[i] \in Nat /\ n.object[i] <= f[i] BY DEF NodesOver, NodeObjects
  <2>2. QED BY <2>1
<1>3. DescribedOver(f) \subseteq DescribedOver(g) BY <1>2 DEF DescribedOver
<1>4. InterfaceEvents(f) \subseteq InterfaceEvents(g) BY <1>1 DEF InterfaceEvents
<1>5. IncomingEvents(f) \subseteq IncomingEvents(g) BY <1>1 DEF IncomingEvents
<1>6. RetrievedEvents(f) \subseteq RetrievedEvents(g) BY <1>1, <1>3 DEF RetrievedEvents
<1>7. EventsOver(f) \subseteq EventsOver(g) BY <1>4, <1>5, <1>6 DEF EventsOver
<1>8. RetrieveTasks(f) \subseteq RetrieveTasks(g) BY <1>1 DEF RetrieveTasks
<1>9. TasksOver(f) \subseteq TasksOver(g) BY <1>8 DEF TasksOver
<1>10. QED BY <1>1, <1>2, <1>7, <1>9

\* An interface object is one of an interface.
LEMMA ObjectKinds ==
    /\ \A o \in Handles : o[1] \in Ifaces /\ o[2] \in 1..MaxAdds /\ o = <<o[1], o[2]>>
    /\ \A i \in Ifaces, k \in 1..MaxAdds : <<i, k>> \in Handles /\ <<i, k>>[1] = i /\ <<i, k>>[2] = k
    /\ \A f : ObjectsOver(f) \subseteq Handles
    /\ \A f, i, k : <<i, k>> \in ObjectsOver(f) <=> <<i, k>> \in Handles /\ k <= f[i]
BY DEF Handles, ObjectsOver

\* An event is what its type says.
LEMMA EventKinds ==
    ASSUME NEW f, NEW e \in EventsOver(f)
    PROVE  /\ e.type \in {"INTERFACE_UP", "INTERFACE_DOWN"} => e \in InterfaceEvents(f) /\ e.object \in ObjectsOver(f)
           /\ e.type = "INCOMING" => e \in IncomingEvents(f) /\ e.object \in ObjectsOver(f)
                                      /\ e.time \in Times \union {Undefined}
           /\ e.type = "DESCRIPTION" => e \in DescriptionEvents /\ e.from \in Sources /\ e.time \in Times
           /\ e.type = "RETRIEVED" => e \in RetrievedEvents(f) /\ e.object \in ObjectsOver(f)
                                      /\ e.node \in DescribedOver(f) \union {NoNode}
<1>1. /\ e.type \in {"INTERFACE_UP", "INTERFACE_DOWN"} => e \in InterfaceEvents(f)
      /\ e.type = "INCOMING" => e \in IncomingEvents(f)
      /\ e.type = "DESCRIPTION" => e \in DescriptionEvents
      /\ e.type = "RETRIEVED" => e \in RetrievedEvents(f)
  BY DEF EventsOver, InterfaceEvents, IncomingEvents, DescriptionEvents, RetrievedEvents
<1>2. e \in InterfaceEvents(f) => e.object \in ObjectsOver(f) BY DEF InterfaceEvents
<1>3. e \in IncomingEvents(f) => e.object \in ObjectsOver(f) /\ e.time \in Times \union {Undefined}
  BY DEF IncomingEvents
<1>4. e \in DescriptionEvents => e.from \in Sources /\ e.time \in Times BY DEF DescriptionEvents
<1>5. e \in RetrievedEvents(f) => e.object \in ObjectsOver(f) /\ e.node \in DescribedOver(f) \union {NoNode}
  BY DEF RetrievedEvents
<1>6. QED BY <1>1, <1>2, <1>3, <1>4, <1>5

\* A task is what its type says.
LEMMA TaskKinds ==
    ASSUME NEW f, NEW t \in TasksOver(f)
    PROVE  /\ t.type = "INSERT" => t.time \in Nat
           /\ t.type = "RETRIEVE" => t.object \in ObjectsOver(f)
           /\ t.type = "DESCRIBE" => t \in DescribeTasks /\ t.from \in Sources /\ t.time \in Times
BY DEF TasksOver, InsertTasks, RetrieveTasks, DescribeTasks

\* A node object has the fields it should have.
LEMMA NodeFields ==
    ASSUME NEW f, NEW n \in NodesOver(f)
    PROVE  /\ n.id \in Nat /\ n.time \in Nat /\ n.ifaces \in SUBSET Ifaces /\ n.up \in SUBSET Ifaces
           /\ n.object \in [Ifaces -> 0..MaxAdds]
           /\ n.time = Undefined => n.id = 0 /\ \E i \in Ifaces : n.ifaces = {i}
           /\ n.time # Undefined => n.id # 0 /\ n.ifaces = Ifaces
           /\ \A i \in Ifaces : n.object[i] <= f[i]
           /\ n # NoNode
<1>1. /\ n.id \in Nat /\ n.time \in Nat /\ n.ifaces \in SUBSET Ifaces /\ n.up \in SUBSET Ifaces
      /\ n.object \in [Ifaces -> 0..MaxAdds]
      /\ n.time = Undefined => n.id = 0 /\ \E i \in Ifaces : n.ifaces = {i}
      /\ n.time # Undefined => n.id # 0 /\ n.ifaces = Ifaces
      /\ \A i \in Ifaces : n.object[i] <= f[i]
  BY DEF NodesOver, NodeObjects
<1>2. n # NoNode
  <2>1. NoNode.time = -1 BY DEF NoNode
  <2>2. QED BY <1>1, <2>1
<1>3. QED BY <1>1, <1>2

\* A node object with other interfaces up keeps the rest.
LEMMA NodeUp ==
    ASSUME NEW f, NEW n \in NodesOver(f), NEW u \in SUBSET Ifaces, NEW m, m = [n EXCEPT !.up = u]
    PROVE  /\ m \in NodesOver(f) /\ m.id = n.id /\ m.time = n.time /\ m.ifaces = n.ifaces
           /\ m.object = n.object /\ m.up = u
<1>1. m \in NodeObjects /\ m.id = n.id /\ m.time = n.time /\ m.ifaces = n.ifaces /\ m.object = n.object /\ m.up = u
  BY DEF NodesOver, NodeObjects
<1>2. m \in NodesOver(f) BY <1>1 DEF NodesOver
<1>3. QED BY <1>1, <1>2

\* Both kinds of node are node objects.
LEMMA NodeKinds ==
    ASSUME NEW f \in [Ifaces -> 0..MaxAdds]
    PROVE  /\ \A o \in ObjectsOver(f) :
                /\ Nameless(o) \in NodesOver(f) /\ Nameless(o).ifaces = {o[1]} /\ Nameless(o).time = Undefined
                /\ Nameless(o).object[o[1]] = o[2] /\ Nameless(o).id = 0
                /\ \A i \in Ifaces : i # o[1] => Nameless(o).object[i] = 0
           /\ \A d \in Nat \ {0}, t \in Nat \ {0}, k \in [Ifaces -> 0..MaxAdds] :
                (\A i \in Ifaces : k[i] <= f[i]) =>
                  /\ Described(d, t, k) \in DescribedOver(f) /\ Described(d, t, k).object = k
                  /\ Described(d, t, k).up = {} /\ Described(d, t, k).id = d /\ Described(d, t, k).time = t
                  /\ Described(d, t, k).ifaces = Ifaces
           /\ Own \in [Ifaces -> 0..MaxAdds] /\ \A i \in Ifaces : Own[i] = 0 /\ Own[i] <= f[i]
<1>1. Own \in [Ifaces -> 0..MaxAdds] /\ \A i \in Ifaces : Own[i] = 0 /\ Own[i] <= f[i] BY DEF Own
<1>2. ASSUME NEW o \in ObjectsOver(f)
      PROVE  /\ Nameless(o) \in NodesOver(f) /\ Nameless(o).ifaces = {o[1]} /\ Nameless(o).time = Undefined
             /\ Nameless(o).object[o[1]] = o[2] /\ Nameless(o).id = 0
             /\ \A i \in Ifaces : i # o[1] => Nameless(o).object[i] = 0
  <2>1. o[1] \in Ifaces /\ o[2] \in 1..MaxAdds /\ o[2] <= f[o[1]] BY ObjectKinds DEF ObjectsOver
  <2>2. PICK k : k = [Own EXCEPT ![o[1]] = o[2]] OBVIOUS
  <2>3. k \in [Ifaces -> 0..MaxAdds] /\ k[o[1]] = o[2] /\ \A i \in Ifaces : k[i] <= f[i] /\ (i # o[1] => k[i] = 0)
    BY <1>1, <2>1, <2>2
  <2>4. Nameless(o) = [id |-> 0, time |-> 0, ifaces |-> {o[1]}, object |-> k, up |-> {}]
    BY <2>2 DEF Nameless, Node, Undefined
  <2>5. QED BY <2>1, <2>3, <2>4 DEF NodesOver, NodeObjects, Undefined
<1>3. ASSUME NEW d \in Nat \ {0}, NEW t \in Nat \ {0}, NEW k \in [Ifaces -> 0..MaxAdds],
             \A i \in Ifaces : k[i] <= f[i]
      PROVE  /\ Described(d, t, k) \in DescribedOver(f) /\ Described(d, t, k).object = k
             /\ Described(d, t, k).up = {} /\ Described(d, t, k).id = d /\ Described(d, t, k).time = t
             /\ Described(d, t, k).ifaces = Ifaces
  <2>1. Described(d, t, k) = [id |-> d, time |-> t, ifaces |-> Ifaces, object |-> k, up |-> {}]
    BY DEF Described, Node
  <2>2. QED BY <1>3, <2>1 DEF DescribedOver, NodesOver, NodeObjects, Undefined
<1>4. QED BY <1>1, <1>2, <1>3

\* Marking interfaces changes nothing of a node but what is up.
LEMMA MarkedType ==
    ASSUME NEW f, NEW n \in NodesOver(f), NEW is \in SUBSET Ifaces
    PROVE  /\ Marked(n, is) \in NodesOver(f) /\ Marked(n, is).id = n.id /\ Marked(n, is).time = n.time
           /\ Marked(n, is).ifaces = n.ifaces /\ Marked(n, is).object = n.object
           /\ Marked(n, is).up = n.up \union {i \in is : n.object[i] = 0}
           /\ Unmarked(n, is) \in NodesOver(f) /\ Unmarked(n, is).id = n.id /\ Unmarked(n, is).time = n.time
           /\ Unmarked(n, is).ifaces = n.ifaces /\ Unmarked(n, is).object = n.object
           /\ Unmarked(n, is).up = n.up \ is
           /\ Shared(n, is) \subseteq Handles
           /\ \A i, k : <<i, k>> \in Shared(n, is) <=> i \in is /\ k # 0 /\ n.object[i] = k
<1>1. n.up \union {i \in is : n.object[i] = 0} \in SUBSET Ifaces /\ n.up \ is \in SUBSET Ifaces BY NodeFields
<1>2. \A i \in is : n.object[i] # 0 => <<i, n.object[i]>> \in Handles
  BY NodeFields, ObjectKinds
<1>3. Shared(n, is) \subseteq Handles BY <1>2 DEF Shared
<1>4. \A i, k : <<i, k>> \in Shared(n, is) <=> i \in is /\ k # 0 /\ n.object[i] = k BY DEF Shared
<1>5. PICK u : u = n.up \union {i \in is : n.object[i] = 0} OBVIOUS
<1>6. PICK v : v = n.up \ is OBVIOUS
<1>7. PICK m : m = [n EXCEPT !.up = u] OBVIOUS
<1>8. PICK l : l = [n EXCEPT !.up = v] OBVIOUS
<1>9. Marked(n, is) = m /\ Unmarked(n, is) = l BY <1>5, <1>6, <1>7, <1>8 DEF Marked, Unmarked
<1>10. u \in SUBSET Ifaces /\ v \in SUBSET Ifaces BY <1>1, <1>5, <1>6
<1>11. /\ m \in NodesOver(f) /\ m.id = n.id /\ m.time = n.time /\ m.ifaces = n.ifaces /\ m.object = n.object /\ m.up = u
  BY <1>7, <1>10, NodeUp
<1>12. /\ l \in NodesOver(f) /\ l.id = n.id /\ l.time = n.time /\ l.ifaces = n.ifaces /\ l.object = n.object /\ l.up = v
  BY <1>8, <1>10, NodeUp
<1>13. QED BY <1>3, <1>4, <1>5, <1>6, <1>9, <1>11, <1>12

\* update puts one node object in the place of the ones it replaces.
LEMMA UpdateType ==
    ASSUME TypeOK, NEW n \in NodesOver(found)
    PROVE  /\ Inherited(n) \in SUBSET n.ifaces /\ Inherited(n) \in SUBSET Ifaces
           /\ update(n) \subseteq NodesOver(found)
           /\ updateFlags(n) \subseteq Handles /\ ifaceUp \subseteq updateFlags(n)
<1>1. Inherited(n) \in SUBSET n.ifaces BY DEF Inherited
<1>2. Inherited(n) \in SUBSET Ifaces BY <1>1, NodeFields
<1>3. Marked(n, Inherited(n)) \in NodesOver(found) /\ Shared(n, Inherited(n)) \subseteq Handles
  BY <1>2, MarkedType
<1>4. QED BY <1>1, <1>2, <1>3 DEF update, updateFlags, TypeOK

\* An answer with the identity of a node in the node store is that node.
LEMMA CurrentType ==
    ASSUME NEW r
    PROVE  \/ Current(r) = r /\ (r.id = 0 \/ \A m \in nodes : m.id # r.id)
           \/ Current(r) \in nodes /\ Current(r).id = r.id /\ r.id # 0
BY DEF Current

\* The answer the node manager works with is a node object.
LEMMA AnswerType ==
    ASSUME TypeOK, NEW e \in RetrievedEvents(found)
    PROVE  (IF e.node = NoNode THEN Nameless(e.object) ELSE Current(e.node)) \in NodesOver(found)
<1>1. e.object \in ObjectsOver(found) /\ e.node \in DescribedOver(found) \union {NoNode} BY DEF RetrievedEvents
<1>2. Nameless(e.object) \in NodesOver(found) BY <1>1, NodeKinds DEF TypeOK
<1>3. e.node # NoNode => Current(e.node) \in NodesOver(found)
  BY <1>1, CurrentType DEF DescribedOver, TypeOK
<1>4. QED BY <1>2, <1>3

\* Parting from nodes changes the nodes in answers, for ones of the same identity.
LEMMA PartType ==
    ASSUME NEW f, NEW s \in Seq(EventsOver(f)), NEW gone \in SUBSET NodesOver(f)
    PROVE  /\ Part(s, gone) \in Seq(EventsOver(f)) /\ DOMAIN Part(s, gone) = DOMAIN s
           /\ \A p \in DOMAIN s :
                /\ Part(s, gone)[p].type = s[p].type
                /\ s[p].type # "RETRIEVED" => Part(s, gone)[p] = s[p]
                /\ s[p].type = "RETRIEVED" =>
                     /\ Part(s, gone)[p].object = s[p].object /\ Part(s, gone)[p].node.id = s[p].node.id
                     /\ \/ Part(s, gone)[p] = s[p]
                        \/ /\ Part(s, gone)[p].node \in gone /\ s[p].node # NoNode
                           /\ s[p].node.id # 0
<1> DEFINE t == Part(s, gone)
<1>1. DOMAIN s = 1..Len(s) /\ Len(s) \in Nat /\ \A p \in DOMAIN s : s[p] \in EventsOver(f) OBVIOUS
<1>2. DOMAIN t = DOMAIN s BY DEF Part
<1>3. ASSUME NEW p \in DOMAIN s
      PROVE  /\ t[p] \in EventsOver(f) /\ t[p].type = s[p].type
             /\ s[p].type # "RETRIEVED" => t[p] = s[p]
             /\ s[p].type = "RETRIEVED" =>
                  /\ t[p].object = s[p].object /\ t[p].node.id = s[p].node.id
                  /\ \/ t[p] = s[p]
                     \/ t[p].node \in gone /\ s[p].node # NoNode /\ s[p].node.id # 0
  <2>1. CASE ~(s[p].type = "RETRIEVED" /\ \E m \in gone : m.id # 0 /\ m.id = s[p].node.id)
    <3>1. t[p] = s[p] BY <2>1 DEF Part
    <3>2. QED BY <1>1, <3>1
  <2>2. CASE s[p].type = "RETRIEVED" /\ \E m \in gone : m.id # 0 /\ m.id = s[p].node.id
    <3>1. PICK m : m = CHOOSE x \in gone : x.id = s[p].node.id OBVIOUS
    <3>2. m \in gone /\ m.id = s[p].node.id /\ s[p].node.id # 0 BY <2>2, <3>1
    <3>3. t[p] = [s[p] EXCEPT !.node = m] BY <2>2, <3>1 DEF Part
    <3>4. s[p] \in RetrievedEvents(f) BY <1>1, <2>2, EventKinds
    <3>5. m \in DescribedOver(f) BY <3>2, NodeFields DEF DescribedOver
    <3>6. t[p] \in RetrievedEvents(f) /\ t[p].type = s[p].type /\ t[p].object = s[p].object /\ t[p].node = m
      BY <3>3, <3>4, <3>5 DEF RetrievedEvents
    <3>7. s[p].node # NoNode BY <3>2 DEF NoNode
    <3>8. QED BY <2>2, <3>2, <3>6, <3>7 DEF EventsOver
  <2>3. QED BY <2>1, <2>2
<1>4. t \in [1..Len(s) -> EventsOver(f)]
  <2>1. t = [p \in DOMAIN s |-> t[p]] BY DEF Part
  <2> HIDE DEF t
  <2>2. QED BY <1>1, <1>3, <2>1
<1>5. t \in Seq(EventsOver(f))
  <2> HIDE DEF t
  <2>1. QED BY <1>1, <1>4
<1>6. QED BY <1>2, <1>3, <1>5

\* A new identity is a number that nobody uses.
LEMMA FreshType ==
    ASSUME Unused # {}
    PROVE  /\ Fresh \in Nat \ {0} /\ \A m \in nodes : m.id # Fresh
           /\ \A p \in DOMAIN events : events[p].type = "RETRIEVED" => events[p].node.id # Fresh
<1>1. Fresh \in Unused BY DEF Fresh
<1>2. QED BY <1>1 DEF Unused, Used

\* Steps of the connectivity threads and of the receiver keep the types.
LEMMA ConnectivityType ==
    ASSUME TypeOK,
           \/ \E i \in Ifaces : addupdate(i) \/ remove(i)
           \/ \E o \in reporting \union snooped : ReportUp(o)
           \/ \E o \in Objects : report_dead(o)
           \/ \E i \in Ifaces, t \in Times \union {Undefined} : Arrive(i, t)
           \/ \E t \in Times : Relay(t)
    PROVE  TypeOK'
<1> USE DEF TypeOK
<1>0. ASSUME NEW i \in Ifaces, Create(i)
      PROVE  /\ found' \in [Ifaces -> 0..MaxAdds] /\ found'[i] = found[i] + 1 /\ found'[i] \in 1..MaxAdds
             /\ \A j \in Ifaces : found[j] <= found'[j]
             /\ <<i, found'[i]>> \in ObjectsOver(found') /\ ObjectsOver(found) \subseteq ObjectsOver(found')
             /\ NodesOver(found) \subseteq NodesOver(found')
             /\ events \in Seq(EventsOver(found')) /\ tasks \in Seq(TasksOver(found'))
  <2>1. /\ found' \in [Ifaces -> 0..MaxAdds] /\ found'[i] = found[i] + 1 /\ found'[i] \in 1..MaxAdds
        /\ \A j \in Ifaces : found[j] <= found'[j]
    BY <1>0 DEF Create
  <2>2. <<i, found'[i]>> \in ObjectsOver(found') BY <2>1, ObjectKinds
  <2>3. QED BY <2>1, <2>2, Grows
<1>1. ASSUME NEW i \in Ifaces, addupdate(i) PROVE TypeOK'
  <2>0. Create(i) BY <1>1 DEF addupdate
  <2>1. /\ found' \in [Ifaces -> 0..MaxAdds] /\ found'[i] \in 1..MaxAdds
        /\ \A j \in Ifaces : found[j] <= found'[j]
        /\ <<i, found'[i]>> \in ObjectsOver(found') /\ ObjectsOver(found) \subseteq ObjectsOver(found')
        /\ NodesOver(found) \subseteq NodesOver(found')
        /\ events \in Seq(EventsOver(found')) /\ tasks \in Seq(TasksOver(found'))
    BY <1>0, <2>0
  <2>2. <<i, found'[i]>> \in Handles BY <2>1, ObjectKinds
  <2>3. stored' \in [Ifaces -> 0..MaxAdds] /\ \A j \in Ifaces : stored'[j] <= found'[j]
    <3>1. stored' = [stored EXCEPT ![i] = found'[i]] BY <1>1 DEF addupdate
    <3>2. stored' \in [Ifaces -> 0..MaxAdds] /\ stored'[i] = found'[i] BY <2>1, <3>1
    <3>3. ASSUME NEW j \in Ifaces, j # i PROVE stored'[j] <= found'[j]
      <4>1. stored'[j] = stored[j] /\ stored[j] <= found[j] /\ found[j] <= found'[j] BY <2>1, <3>1, <3>3
      <4>2. QED BY <2>1, <4>1
    <3>4. QED BY <2>1, <3>2, <3>3
  <2>4. ifaceUp' \subseteq Handles BY <1>1, <2>2 DEF addupdate
  <2>5. reporting' \subseteq ObjectsOver(found') BY <1>1, <2>1 DEF addupdate
  <2>6. UNCHANGED <<snooped, dying, events, receiving, tasks, database, nodes, received, contact, overtaken>>
    BY <1>1 DEF addupdate
  <2>7. QED BY <2>1, <2>3, <2>4, <2>5, <2>6
<1>2. ASSUME NEW i \in Ifaces, remove(i) PROVE TypeOK'
  <2>1. <<i, stored[i]>> \in Handles BY <1>2, ObjectKinds DEF remove
  <2>2. dying' \in [Handles -> Nat] BY <1>2, <2>1 DEF remove
  <2>3. stored' \in [Ifaces -> 0..MaxAdds] /\ \A j \in Ifaces : stored'[j] <= found[j] BY <1>2 DEF remove
  <2>4. /\ UNCHANGED <<found, ifaceUp, reporting, snooped, events, receiving, tasks, database>>
        /\ UNCHANGED <<nodes, received, contact, overtaken>>
    BY <1>2 DEF remove
  <2>5. QED BY <2>2, <2>3, <2>4
<1>3. ASSUME NEW o \in reporting \union snooped, ReportUp(o) PROVE TypeOK'
  <2>1. o \in ObjectsOver(found) /\ o[1] \in Ifaces /\ o \in Handles BY ObjectKinds
  <2>2. [type |-> "INTERFACE_UP", object |-> o] \in EventsOver(found) BY <2>1 DEF EventsOver, InterfaceEvents
  <2>3. events' \in Seq(EventsOver(found)) BY <1>3, <2>2 DEF ReportUp
  <2>4. /\ reporting' \subseteq ObjectsOver(found) /\ snooped' \subseteq ObjectsOver(found)
        /\ ifaceUp' \subseteq Handles /\ overtaken' \subseteq Ifaces
    BY <1>3, <2>1 DEF ReportUp
  <2>5. UNCHANGED <<found, stored, dying, receiving, tasks, database, nodes, received, contact>>
    BY <1>3 DEF ReportUp
  <2>6. QED BY <2>3, <2>4, <2>5
<1>4. ASSUME NEW o \in Objects, report_dead(o) PROVE TypeOK'
  <2>1. o \in ObjectsOver(found) /\ o[1] \in Ifaces /\ o \in Handles BY ObjectKinds DEF Objects, ObjectsOver
  <2>2. [type |-> "INTERFACE_DOWN", object |-> o] \in EventsOver(found) BY <2>1 DEF EventsOver, InterfaceEvents
  <2>3. events' \in Seq(EventsOver(found)) BY <1>4, <2>2 DEF report_dead
  <2>4. dying' \in [Handles -> Nat] BY <1>4, <2>1 DEF report_dead
  <2>5. ifaceUp' \subseteq Handles /\ overtaken' \subseteq Ifaces BY <1>4, <2>1 DEF report_dead
  <2>6. UNCHANGED <<found, stored, reporting, snooped, receiving, tasks, database, nodes, received, contact>>
    BY <1>4 DEF report_dead
  <2>7. QED BY <2>3, <2>4, <2>5, <2>6
<1>5. ASSUME NEW i \in Ifaces, NEW t \in Times \union {Undefined}, Arrive(i, t) PROVE TypeOK'
  <2>1. PICK k \in 1..MaxAdds :
          /\ \/ <<i, k>> \in Objects /\ UNCHANGED <<found, ifaceUp>>
             \/ k = found[i] + 1 /\ Create(i) /\ ifaceUp' = ifaceUp \union {<<i, k>>}
          /\ events' = Append(events, [type |-> "INCOMING", object |-> <<i, k>>, time |-> t])
    BY <1>5 DEF Arrive
  <2>2. /\ found' \in [Ifaces -> 0..MaxAdds] /\ \A j \in Ifaces : found[j] <= found'[j]
        /\ <<i, k>> \in ObjectsOver(found') /\ ObjectsOver(found) \subseteq ObjectsOver(found')
        /\ NodesOver(found) \subseteq NodesOver(found')
        /\ events \in Seq(EventsOver(found')) /\ tasks \in Seq(TasksOver(found'))
        /\ ifaceUp' \subseteq Handles
    <3>1. CASE <<i, k>> \in Objects /\ UNCHANGED <<found, ifaceUp>>
      <4>1. <<i, k>> \in ObjectsOver(found) BY <3>1 DEF Objects, ObjectsOver
      <4>2. found' = found /\ ifaceUp' = ifaceUp BY <3>1
      <4>3. QED BY <4>1, <4>2
    <3>2. CASE k = found[i] + 1 /\ Create(i) /\ ifaceUp' = ifaceUp \union {<<i, k>>}
      <4>1. <<i, k>> \in Handles BY ObjectKinds
      <4>2. QED BY <1>0, <3>2, <4>1
    <3>3. QED BY <2>1, <3>1, <3>2
  <2>3. [type |-> "INCOMING", object |-> <<i, k>>, time |-> t] \in EventsOver(found')
    BY <2>2 DEF EventsOver, IncomingEvents
  <2>4. events' \in Seq(EventsOver(found')) BY <2>1, <2>2, <2>3
  <2>5. received' \in Nat /\ UNCHANGED <<stored, reporting, snooped, dying, receiving, tasks, database, nodes, contact, overtaken>>
    BY <1>5 DEF Arrive
  <2>6. \A j \in Ifaces : stored[j] <= found'[j] BY <2>2
  <2>7. QED BY <2>2, <2>4, <2>5, <2>6
<1>6. ASSUME NEW t \in Times, Relay(t) PROVE TypeOK'
  <2>1. [from |-> ThirdParty, time |-> t] \in [from : Sources, time : Times] BY DEF Sources
  <2>2. receiving' \subseteq [from : Sources, time : Times] /\ received' \in Nat BY <1>6, <2>1 DEF Relay
  <2>3. /\ UNCHANGED <<found, stored, ifaceUp, reporting, snooped, dying, events, tasks, database, nodes>>
        /\ UNCHANGED <<contact, overtaken>>
    BY <1>6 DEF Relay
  <2>4. QED BY <2>2, <2>3
<1>7. QED BY <1>1, <1>2, <1>3, <1>4, <1>5, <1>6

\* Every handler takes an event off the queue.
LEMMA HandleType ==
    ASSUME TypeOK, NEW type, Handle(type)
    PROVE  Head(events) \in EventsOver(found) /\ Head(events).type = type /\ Tail(events) \in Seq(EventsOver(found))
BY DEF TypeOK, Handle

\* A new task keeps the task queue well typed.
LEMMA AppendTask ==
    ASSUME TypeOK, NEW t \in TasksOver(found)
    PROVE  Append(tasks, t) \in Seq(TasksOver(found)) /\ tasks \in Seq(TasksOver(found))
BY DEF TypeOK

\* Events of a type are about interfaces.
LEMMA AnnouncedType == ASSUME TypeOK PROVE Announced("INTERFACE_DOWN") \subseteq Ifaces
<1>1. \A p \in DOMAIN events : events[p] \in EventsOver(found) BY DEF TypeOK
<1>2. \A p \in DOMAIN events : events[p].type = "INTERFACE_DOWN" => events[p].object[1] \in Ifaces
  BY <1>1, EventKinds, ObjectKinds
<1>3. QED BY <1>2 DEF Announced

\* A node's identity for contact events is an interface or the device.
LEMMA IdType == ASSUME NEW f, NEW n \in NodesOver(f) PROVE Id(n) \in Ifaces \union {Peer}
<1>1. CASE n.time = Undefined
  <2>1. \E i \in Ifaces : n.ifaces = {i} BY <1>1, NodeFields
  <2>2. Id(n) = CHOOSE i \in Ifaces : n.ifaces = {i} BY <1>1 DEF Id
  <2>3. QED BY <2>1, <2>2
<1>2. CASE n.time # Undefined BY <1>2 DEF Id
<1>3. QED BY <1>1, <1>2

\* What a description makes is a described node, before and after the interfaces in
\* the interface store are marked.
LEMMA MadeType ==
    ASSUME TypeOK, Unused # {}, NEW e \in DescriptionEvents,
           NEW n, n = IF e.from = ThirdParty THEN Described(Fresh, e.time, Own)
                      ELSE Marked(Described(Fresh, e.time, Own), {e.from}),
           NEW s, s = Marked(n, {i \in Ifaces : stored[i] # 0})
    PROVE  /\ n \in NodesOver(found) /\ n.id = Fresh /\ n.time = e.time /\ n.object = Own /\ n.ifaces = Ifaces
           /\ s \in NodesOver(found) /\ s.id = Fresh /\ s.time = e.time /\ s.object = Own /\ s.ifaces = Ifaces
           /\ n.up = IF e.from = ThirdParty THEN {} ELSE {e.from}
           /\ s.up = n.up \union {i \in Ifaces : stored[i] # 0}
           /\ e.time # Undefined
<1>1. e.from \in Sources /\ e.time \in Nat \ {0} BY DEF DescriptionEvents
<1>2. PICK made : made = Described(Fresh, e.time, Own) OBVIOUS
<1>3. /\ made \in DescribedOver(found) /\ made.object = Own /\ made.up = {} /\ made.id = Fresh
      /\ made.time = e.time /\ made.ifaces = Ifaces
  <2>1. /\ Fresh \in Nat \ {0} /\ found \in [Ifaces -> 0..MaxAdds] /\ Own \in [Ifaces -> 0..MaxAdds]
        /\ \A i \in Ifaces : Own[i] <= found[i]
    BY FreshType DEF TypeOK, Own
  <2>2. QED BY <1>1, <1>2, <2>1, NodeKinds
<1>4. \A i \in Ifaces : Own[i] = 0 BY DEF Own
<1>5. /\ n \in NodesOver(found) /\ n.id = Fresh /\ n.time = e.time /\ n.object = Own /\ n.ifaces = Ifaces
      /\ n.up = IF e.from = ThirdParty THEN {} ELSE {e.from}
  <2>1. CASE e.from = ThirdParty BY <1>2, <1>3, <2>1 DEF DescribedOver
  <2>2. CASE e.from # ThirdParty
    <3>1. {e.from} \in SUBSET Ifaces /\ made \in NodesOver(found) BY <1>1, <1>3, <2>2 DEF Sources, DescribedOver
    <3>2. n = Marked(made, {e.from}) BY <1>2, <2>2
    <3>3. n.up = {e.from} BY <1>3, <1>4, <3>1, <3>2, MarkedType
    <3>4. n \in NodesOver(found) /\ n.id = made.id /\ n.time = made.time /\ n.object = made.object /\ n.ifaces = made.ifaces
      BY <3>1, <3>2, MarkedType
    <3>5. QED BY <1>3, <2>2, <3>3, <3>4
  <2>3. QED BY <2>1, <2>2
<1>6. {i \in Ifaces : stored[i] # 0} \in SUBSET Ifaces OBVIOUS
<1>7. s.up = n.up \union {i \in Ifaces : stored[i] # 0} BY <1>4, <1>5, <1>6, MarkedType
<1>8. s \in NodesOver(found) /\ s.id = n.id /\ s.time = n.time /\ s.object = n.object /\ s.ifaces = n.ifaces
  BY <1>5, <1>6, MarkedType
<1>9. QED BY <1>1, <1>5, <1>7, <1>8 DEF Undefined

\* The handlers of the kernel thread keep the types.
LEMMA KernelType == ASSUME TypeOK, KernelStep PROVE TypeOK'
<1>0. CASE onIncomingDataObject
  <2> DEFINE o == Head(events).object
  <2>1. Head(events) \in EventsOver(found) /\ Head(events).type = "INCOMING" /\ Tail(events) \in Seq(EventsOver(found))
    BY <1>0, HandleType DEF onIncomingDataObject
  <2>2. o \in ObjectsOver(found) /\ Head(events).time \in Times \union {Undefined} BY <2>1, EventKinds
  <2>3. o \in Handles /\ o[1] \in Ifaces /\ o[2] \in 1..MaxAdds /\ o[2] <= found[o[1]] BY <2>2, ObjectKinds DEF ObjectsOver
  <2>4. /\ ifaceUp' = ifaceUp \union {o}
        /\ \/ UNCHANGED <<stored, snooped>>
           \/ stored' = [stored EXCEPT ![o[1]] = o[2]] /\ snooped' = {o}
        /\ receiving' = receiving \/ /\ Head(events).time # Undefined
                                     /\ receiving' = receiving \union {[from |-> o[1], time |-> Head(events).time]}
        /\ overtaken' = overtaken \/ overtaken' = overtaken \union {o[1]}
    BY <1>0 DEF onIncomingDataObject
  <2> HIDE DEF o
  <2>5. stored' \in [Ifaces -> 0..MaxAdds] /\ \A i \in Ifaces : stored'[i] <= found[i]
    <3>1. stored \in [Ifaces -> 0..MaxAdds] /\ \A i \in Ifaces : stored[i] <= found[i] BY DEF TypeOK
    <3>2. CASE stored' = stored BY <3>1, <3>2
    <3>3. CASE stored' = [stored EXCEPT ![o[1]] = o[2]]
      <4>1. stored' \in [Ifaces -> 0..MaxAdds] BY <2>3, <3>1, <3>3
      <4>2. \A i \in Ifaces : stored'[i] = IF i = o[1] THEN o[2] ELSE stored[i] BY <3>1, <3>3
      <4>3. QED BY <2>3, <3>1, <4>1, <4>2
    <3>4. QED BY <2>4, <3>2, <3>3
  <2>6. ifaceUp' \subseteq Handles /\ snooped' \subseteq ObjectsOver(found) /\ overtaken' \subseteq Ifaces
    BY <2>2, <2>3, <2>4 DEF TypeOK
  <2>7. receiving' \subseteq [from : Sources, time : Times] BY <2>2, <2>3, <2>4 DEF TypeOK, Sources
  <2>8. events' = Tail(events) /\ UNCHANGED <<found, reporting, dying, tasks, database, nodes, received, contact>>
    BY <1>0 DEF onIncomingDataObject
  <2>9. QED BY <2>1, <2>5, <2>6, <2>7, <2>8 DEF TypeOK
<1>1. ASSUME NEW d \in receiving, onVerifiedDataObject(d) PROVE TypeOK'
  <2>1. [type |-> "DESCRIBE", from |-> d.from, time |-> d.time] \in TasksOver(found)
    BY DEF TypeOK, TasksOver, DescribeTasks
  <2>2. tasks' \in Seq(TasksOver(found)) BY <1>1, <2>1, AppendTask DEF onVerifiedDataObject
  <2>3. receiving' \subseteq [from : Sources, time : Times] BY <1>1 DEF onVerifiedDataObject, TypeOK
  <2>4. UNCHANGED <<found, stored, ifaceUp, reporting, snooped, dying, events, database, nodes, received, contact, overtaken>>
    BY <1>1 DEF onVerifiedDataObject
  <2>5. QED BY <2>2, <2>3, <2>4 DEF TypeOK
<1>2. CASE onNeighborInterfaceUp
  <2> DEFINE o == Head(events).object
  <2>1. Head(events) \in EventsOver(found) /\ Head(events).type = "INTERFACE_UP" /\ Tail(events) \in Seq(EventsOver(found))
    BY <1>2, HandleType DEF onNeighborInterfaceUp
  <2>2. o \in ObjectsOver(found) BY <2>1, EventKinds
  <2>3. [type |-> "RETRIEVE", object |-> o] \in TasksOver(found) BY <2>2 DEF TasksOver, RetrieveTasks
  <2>4. {o[1]} \in SUBSET Ifaces BY <2>2, ObjectKinds
  <2>5. \/ tasks' = Append(tasks, [type |-> "RETRIEVE", object |-> o]) /\ UNCHANGED <<nodes, ifaceUp>>
        \/ \E n \in nodes :
             /\ nodes' = (nodes \ {n}) \union {Marked(n, {o[1]})}
             /\ ifaceUp' = ifaceUp \union Shared(n, {o[1]})
             /\ UNCHANGED tasks
    BY <1>2 DEF onNeighborInterfaceUp
  <2> HIDE DEF o
  <2>6. nodes' \subseteq NodesOver(found) /\ ifaceUp' \subseteq Handles BY <2>4, <2>5, MarkedType DEF TypeOK
  <2>7. tasks' \in Seq(TasksOver(found)) BY <2>3, <2>5, AppendTask
  <2>8. /\ events' = Tail(events)
        /\ UNCHANGED <<found, stored, reporting, snooped, dying, receiving, database, received, contact, overtaken>>
    BY <1>2 DEF onNeighborInterfaceUp
  <2>9. QED BY <2>1, <2>6, <2>7, <2>8 DEF TypeOK
<1>3. CASE onRetrieveNode
  <2> DEFINE o == Head(events).object
             n == IF Head(events).node = NoNode THEN Nameless(o) ELSE Current(Head(events).node)
  <2>1. Head(events) \in EventsOver(found) /\ Head(events).type = "RETRIEVED" /\ Tail(events) \in Seq(EventsOver(found))
    BY <1>3, HandleType DEF onRetrieveNode
  <2>2. Head(events) \in RetrievedEvents(found) /\ o \in ObjectsOver(found) BY <2>1, EventKinds
  <2>3. n \in NodesOver(found) BY <2>2, AnswerType
  <2>4. o[1] \in Ifaces BY <2>2, ObjectKinds
  <2>5. /\ nodes' = update(n) /\ ifaceUp' = updateFlags(n)
        /\ events' = Part(Tail(events), Replaced(n) \ {n})
        /\ contact' = [contact EXCEPT ![Id(n)] = "new"]
        /\ overtaken' = overtaken \union Outdated(o, n)
    BY <1>3 DEF onRetrieveNode
  <2> HIDE DEF o, n
  <2>6. Outdated(o, n) \subseteq Ifaces
    <3>1. UpIn(n, ifaceUp) \subseteq Ifaces BY <2>3, NodeFields DEF UpIn
    <3>2. \A m \in nodes : m.ifaces \subseteq Ifaces BY NodeFields DEF TypeOK
    <3>3. QED BY <2>4, <3>1, <3>2 DEF Outdated, Replaced
  <2>7. Replaced(n) \ {n} \in SUBSET NodesOver(found) BY DEF Replaced, TypeOK
  <2>8. events' \in Seq(EventsOver(found)) BY <2>1, <2>5, <2>7, PartType
  <2>9. contact' \in [Ifaces \union {Peer} -> {"none", "new", "end"}] BY <2>3, <2>5, IdType DEF TypeOK
  <2>10. UNCHANGED <<found, stored, reporting, snooped, dying, receiving, tasks, database, received>>
    BY <1>3 DEF onRetrieveNode
  <2>11. QED BY <2>3, <2>5, <2>6, <2>8, <2>9, <2>10, UpdateType DEF TypeOK
<1>4. CASE onNeighborInterfaceDown
  <2> DEFINE i == Head(events).object[1]
  <2>1. Head(events) \in EventsOver(found) /\ Head(events).type = "INTERFACE_DOWN" /\ Tail(events) \in Seq(EventsOver(found))
    BY <1>4, HandleType DEF onNeighborInterfaceDown
  <2>2. {i} \in SUBSET Ifaces BY <2>1, EventKinds, ObjectKinds
  <2>3. /\ nodes' \subseteq NodesOver(found) /\ ifaceUp' \subseteq Handles /\ tasks' \in Seq(TasksOver(found))
        /\ contact' \in [Ifaces \union {Peer} -> {"none", "new", "end"}]
    <3>1. CASE UNCHANGED <<nodes, ifaceUp, tasks, contact>> BY <3>1 DEF TypeOK
    <3>2. ASSUME NEW n \in nodes,
                 nodes' = (nodes \ {n}) \union {Unmarked(n, {i})}, ifaceUp' = ifaceUp \ Shared(n, {i}),
                 \/ UNCHANGED <<tasks, contact>>
                 \/ /\ tasks' = Append(tasks, [type |-> "INSERT", time |-> n.time])
                    /\ contact' = [contact EXCEPT ![Id(n)] = "end"]
          PROVE  /\ nodes' \subseteq NodesOver(found) /\ ifaceUp' \subseteq Handles /\ tasks' \in Seq(TasksOver(found))
                 /\ contact' \in [Ifaces \union {Peer} -> {"none", "new", "end"}]
      <4>1. n \in NodesOver(found) /\ n.time \in Nat BY NodeFields DEF TypeOK
      <4>2. Unmarked(n, {i}) \in NodesOver(found) BY <2>2, <4>1, MarkedType
      <4>3. [type |-> "INSERT", time |-> n.time] \in TasksOver(found) BY <4>1 DEF TasksOver, InsertTasks
      <4>4. nodes' \subseteq NodesOver(found) BY <3>2, <4>2 DEF TypeOK
      <4>5. ifaceUp' \subseteq Handles BY <3>2 DEF TypeOK
      <4>6. tasks' \in Seq(TasksOver(found)) BY <3>2, <4>3, AppendTask
      <4>7. Id(n) \in Ifaces \union {Peer} BY <4>1, IdType
      <4>8. contact' \in [Ifaces \union {Peer} -> {"none", "new", "end"}] BY <3>2, <4>7 DEF TypeOK
      <4>9. QED BY <4>4, <4>5, <4>6, <4>8
    <3>3. QED BY <1>4, <3>1, <3>2 DEF onNeighborInterfaceDown
  <2>4. /\ events' = Tail(events)
        /\ UNCHANGED <<found, stored, reporting, snooped, dying, receiving, database, received, overtaken>>
    BY <1>4 DEF onNeighborInterfaceDown
  <2>5. QED BY <2>1, <2>3, <2>4 DEF TypeOK
<1>5. CASE onReceiveNodeDescription
  <2> DEFINE e == Head(events)
             made == Described(Fresh, e.time, Own)
             n == IF e.from = ThirdParty THEN made ELSE Marked(made, {e.from})
             synced == Marked(n, {i \in Ifaces : stored[i] # 0})
             new == IF Replaced(n) = {} THEN synced ELSE n
  <2>1. e \in EventsOver(found) /\ e.type = "DESCRIPTION" /\ Tail(events) \in Seq(EventsOver(found)) /\ Unused # {}
    BY <1>5, HandleType DEF onReceiveNodeDescription
  <2>2. e \in DescriptionEvents BY <2>1, EventKinds
  <2>3. n \in NodesOver(found) /\ synced \in NodesOver(found) BY <2>1, <2>2, MadeType
  <2>4. new \in NodesOver(found) BY <2>3
  <2>5. [type |-> "INSERT", time |-> e.time] \in TasksOver(found) BY <2>2 DEF TasksOver, InsertTasks, DescriptionEvents
  <2>6. {e.from} \intersect OutOfStep \subseteq Ifaces BY DEF OutOfStep
  <2>7. /\ nodes' = nodes \/ nodes' = update(new)
        /\ contact' = contact \/ contact' = [contact EXCEPT ![Peer] = "new"]
        /\ tasks' = tasks \/ tasks' = Append(tasks, [type |-> "INSERT", time |-> e.time])
        /\ overtaken' = overtaken \/ overtaken' = overtaken \union ({e.from} \intersect OutOfStep)
        /\ events' = Tail(events) \/ events' = Part(Tail(events), Replaced(n))
    BY <1>5 DEF onReceiveNodeDescription
  <2> HIDE DEF e, made, n, synced, new
  <2>8. nodes' \subseteq NodesOver(found) BY <2>4, <2>7, UpdateType DEF TypeOK
  <2>9. contact' \in [Ifaces \union {Peer} -> {"none", "new", "end"}] BY <2>7 DEF TypeOK
  <2>10. tasks' \in Seq(TasksOver(found)) BY <2>5, <2>7, AppendTask
  <2>11. overtaken' \subseteq Ifaces BY <2>6, <2>7 DEF TypeOK
  <2>12. Replaced(n) \in SUBSET NodesOver(found) BY DEF Replaced, TypeOK
  <2>13. Part(Tail(events), Replaced(n)) \in Seq(EventsOver(found)) BY <2>1, <2>12, PartType
  <2>14. UNCHANGED <<found, stored, ifaceUp, reporting, snooped, dying, receiving, database, received>>
    BY <1>5 DEF onReceiveNodeDescription
  <2>15. QED BY <2>1, <2>7, <2>8, <2>9, <2>10, <2>11, <2>13, <2>14 DEF TypeOK
<1>6. CASE Purge
  <2>1. PICK n \in nodes : /\ nodes' = nodes \ {n} /\ events' = Part(events, {n})
                           /\ tasks' = Append(tasks, [type |-> "INSERT", time |-> n.time])
    BY <1>6 DEF Purge
  <2>2. n \in NodesOver(found) /\ n.time \in Nat BY NodeFields DEF TypeOK
  <2>3. [type |-> "INSERT", time |-> n.time] \in TasksOver(found) BY <2>2 DEF TasksOver, InsertTasks
  <2>4. tasks' \in Seq(TasksOver(found)) BY <2>1, <2>3, AppendTask
  <2>5. {n} \in SUBSET NodesOver(found) /\ events \in Seq(EventsOver(found)) BY <2>2 DEF TypeOK
  <2>6. events' \in Seq(EventsOver(found)) BY <2>1, <2>5, PartType
  <2>7. overtaken' \subseteq Ifaces BY <1>6, AnnouncedType DEF Purge, TypeOK
  <2>8. UNCHANGED <<found, stored, ifaceUp, reporting, snooped, dying, receiving, database, received, contact>>
    BY <1>6 DEF Purge
  <2>9. QED BY <2>1, <2>4, <2>6, <2>7, <2>8 DEF TypeOK
<1>7. QED BY <1>0, <1>1, <1>2, <1>3, <1>4, <1>5, <1>6 DEF KernelStep

\* A node made from the database shares the objects of the interface store.
LEMMA CreateType ==
    ASSUME TypeOK, Unused # {}, database # Undefined
    PROVE  /\ createNode \in DescribedOver(found) /\ createNode.object = stored /\ createNode.up = {}
           /\ createNode.id = Fresh /\ createNode.time = database /\ createNode.ifaces = Ifaces
<1>1. database \in Nat \ {0} /\ stored \in [Ifaces -> 0..MaxAdds] /\ found \in [Ifaces -> 0..MaxAdds]
      /\ \A i \in Ifaces : stored[i] <= found[i]
  BY DEF TypeOK, Undefined
<1>2. Fresh \in Nat \ {0} BY FreshType
<1>3. createNode = Described(Fresh, database, stored) BY DEF createNode
<1>4. QED BY <1>1, <1>2, <1>3, NodeKinds

\* The data store thread keeps the types.
LEMMA DataStoreType == ASSUME TypeOK, DataStoreStep PROVE TypeOK'
<1>0. tasks # <<>> /\ Head(tasks) \in TasksOver(found) /\ Tail(tasks) \in Seq(TasksOver(found))
  <2>1. tasks # <<>> BY DEF DataStoreStep, _insertNode, _retrieveNode, InsertDescription
  <2>2. QED BY <2>1 DEF TypeOK
<1>1. CASE _insertNode
  <2>1. Head(tasks).time \in Nat BY <1>0, <1>1, TaskKinds DEF _insertNode
  <2>2. database' \in Nat /\ tasks' = Tail(tasks) BY <1>1, <2>1 DEF _insertNode, TypeOK
  <2>3. UNCHANGED <<found, stored, ifaceUp, reporting, snooped, dying, events, receiving, nodes, received, contact, overtaken>>
    BY <1>1 DEF _insertNode
  <2>4. QED BY <1>0, <2>2, <2>3 DEF TypeOK
<1>2. CASE _retrieveNode
  <2> DEFINE o == Head(tasks).object
             up == {o[1]} \intersect {i \in Ifaces : o \in ifaceUp}
  <2>1. o \in ObjectsOver(found) BY <1>0, <1>2, TaskKinds DEF _retrieveNode
  <2>2. up \in SUBSET Ifaces OBVIOUS
  <2>3. \/ /\ events' = Append(events, [type |-> "RETRIEVED", object |-> o, node |-> NoNode])
           /\ UNCHANGED <<nodes, ifaceUp>>
        \/ /\ database # Undefined /\ Unused # {}
           /\ events' = Append(events, [type |-> "RETRIEVED", object |-> o, node |-> Marked(createNode, up)])
           /\ ifaceUp' = ifaceUp \union Shared(createNode, up) /\ UNCHANGED nodes
        \/ \E m \in nodes :
             /\ m.time # Undefined
             /\ nodes' = (nodes \ {m}) \union {Marked(m, up)}
             /\ ifaceUp' = ifaceUp \union Shared(m, up)
             /\ events' = Append(events, [type |-> "RETRIEVED", object |-> o, node |-> [m EXCEPT !.up = {}]])
    BY <1>2 DEF _retrieveNode
  <2> HIDE DEF o, up
  <2>4. ASSUME NEW r \in DescribedOver(found) \union {NoNode},
               events' = Append(events, [type |-> "RETRIEVED", object |-> o, node |-> r])
        PROVE  events' \in Seq(EventsOver(found))
    <3>1. [type |-> "RETRIEVED", object |-> o, node |-> r] \in EventsOver(found)
      BY <2>1 DEF EventsOver, RetrievedEvents
    <3>2. QED BY <2>4, <3>1 DEF TypeOK
  <2>5. nodes' \subseteq NodesOver(found) /\ ifaceUp' \subseteq Handles /\ events' \in Seq(EventsOver(found))
    <3>1. CASE /\ events' = Append(events, [type |-> "RETRIEVED", object |-> o, node |-> NoNode])
               /\ UNCHANGED <<nodes, ifaceUp>>
      BY <2>4, <3>1 DEF TypeOK
    <3>2. CASE /\ database # Undefined /\ Unused # {}
               /\ events' = Append(events, [type |-> "RETRIEVED", object |-> o, node |-> Marked(createNode, up)])
               /\ ifaceUp' = ifaceUp \union Shared(createNode, up) /\ UNCHANGED nodes
      <4>1. createNode \in NodesOver(found) /\ createNode.time # Undefined BY <3>2, CreateType DEF DescribedOver
      <4>2. Marked(createNode, up) \in DescribedOver(found) /\ Shared(createNode, up) \subseteq Handles
        BY <2>2, <4>1, MarkedType DEF DescribedOver
      <4>3. QED BY <2>4, <3>2, <4>2 DEF TypeOK
    <3>3. ASSUME NEW m \in nodes, m.time # Undefined,
                 nodes' = (nodes \ {m}) \union {Marked(m, up)}, ifaceUp' = ifaceUp \union Shared(m, up),
                 events' = Append(events, [type |-> "RETRIEVED", object |-> o, node |-> [m EXCEPT !.up = {}]])
          PROVE  nodes' \subseteq NodesOver(found) /\ ifaceUp' \subseteq Handles /\ events' \in Seq(EventsOver(found))
      <4>1. m \in NodesOver(found) BY DEF TypeOK
      <4>2. Marked(m, up) \in NodesOver(found) /\ Shared(m, up) \subseteq Handles BY <2>2, <4>1, MarkedType
      <4>3. m.up \ Ifaces = {} BY <4>1, NodeFields
      <4>4. Unmarked(m, Ifaces) = [m EXCEPT !.up = {}] BY <4>3 DEF Unmarked
      <4>5. Unmarked(m, Ifaces) \in DescribedOver(found) BY <3>3, <4>1, MarkedType DEF DescribedOver
      <4>6. QED BY <2>4, <3>3, <4>2, <4>4, <4>5 DEF TypeOK
    <3>4. QED BY <2>3, <3>1, <3>2, <3>3
  <2>6. /\ tasks' = Tail(tasks)
        /\ UNCHANGED <<found, stored, reporting, snooped, dying, receiving, database, received, contact, overtaken>>
    BY <1>2 DEF _retrieveNode
  <2>7. QED BY <1>0, <2>5, <2>6 DEF TypeOK
<1>3. CASE InsertDescription
  <2>1. Head(tasks) \in DescribeTasks BY <1>0, <1>3, TaskKinds DEF InsertDescription
  <2>2. [Head(tasks) EXCEPT !.type = "DESCRIPTION"] \in EventsOver(found)
    BY <2>1 DEF DescribeTasks, EventsOver, DescriptionEvents
  <2>3. events' \in Seq(EventsOver(found)) BY <1>3, <2>2 DEF InsertDescription, TypeOK
  <2>4. /\ tasks' = Tail(tasks)
        /\ UNCHANGED <<found, stored, ifaceUp, reporting, snooped, dying, receiving, database, nodes, received, contact, overtaken>>
    BY <1>3 DEF InsertDescription
  <2>5. QED BY <1>0, <2>3, <2>4 DEF TypeOK
<1>4. QED BY <1>1, <1>2, <1>3 DEF DataStoreStep

\* A step keeps the types.
LEMMA TypeStep == ASSUME TypeOK, [Next]_vars PROVE TypeOK'
<1>1. CASE UNCHANGED vars BY <1>1 DEF vars, TypeOK
<1>2. CASE Next BY <1>2, ConnectivityType, KernelType, DataStoreType DEF Next
<1>3. QED BY <1>1, <1>2

\* Type correctness of the interface store, the node store and the queues: whatever an
\* event, a task, an answer or a node refers to is an interface object there is.
THEOREM TypeCorrect == Spec => []TypeOK
<1>1. Init => TypeOK
  <2> SUFFICES ASSUME Init PROVE TypeOK OBVIOUS
  <2>1. Own \in [Ifaces -> 0..MaxAdds] BY DEF Own
  <2>2. QED BY <2>1 DEF Init, TypeOK
<1>2. QED BY <1>1, TypeStep, PTL DEF Spec

-----------------------------------------------------------------------------
(* The node store.                                                         *)

\* What is the same node does not depend on what is up.
LEMMA EqualUp ==
    ASSUME NEW m, NEW n, NEW l, l.time = n.time, l.ifaces = n.ifaces
    PROVE  (Equal(m, l) <=> Equal(m, n)) /\ (Equal(l, m) <=> Equal(m, n))
<1>1. Equal(l, m) <=> Equal(m, l) BY DEF Equal
<1>2. QED BY <1>1 DEF Equal

\* update removes all records of the node it adds.
LEMMA UpdateOneRecord ==
    ASSUME TypeOK, OneRecord, NEW n \in NodesOver(found), nodes' = update(n)
    PROVE  OneRecord'
<1>1. PICK l : l = Marked(n, Inherited(n)) OBVIOUS
<1>2. nodes' = (nodes \ Replaced(n)) \union {l} BY <1>1 DEF update
<1>3. l.time = n.time /\ l.ifaces = n.ifaces BY <1>1, UpdateType, MarkedType
<1>4. \A m \in nodes \ Replaced(n) : ~Equal(m, l) /\ ~Equal(l, m) BY <1>3, EqualUp DEF Replaced
<1>5. QED BY <1>2, <1>4 DEF OneRecord

\* Changing what is up in one node changes no node for another.
LEMMA ReplaceOneRecord ==
    ASSUME OneRecord, NEW n \in nodes, NEW l, l.time = n.time, l.ifaces = n.ifaces,
           nodes' = (nodes \ {n}) \union {l}
    PROVE  OneRecord'
<1>1. \A m \in nodes \ {n} : ~Equal(m, l) /\ ~Equal(l, m) BY EqualUp DEF OneRecord
<1>2. QED BY <1>1 DEF OneRecord

\* A step leaves one record of a node at most.
LEMMA OneRecordStep == ASSUME TypeOK, OneRecord, [Next]_vars PROVE OneRecord'
<1>0. \A n \in nodes : n \in NodesOver(found) BY DEF TypeOK
<1>1. CASE nodes' \subseteq nodes BY <1>1 DEF OneRecord
<1>2. ASSUME NEW n \in nodes, NEW is \in SUBSET Ifaces, nodes' = (nodes \ {n}) \union {Marked(n, is)}
      PROVE  OneRecord'
  BY <1>0, <1>2, MarkedType, ReplaceOneRecord
<1>3. ASSUME NEW n \in nodes, NEW is \in SUBSET Ifaces, nodes' = (nodes \ {n}) \union {Unmarked(n, is)}
      PROVE  OneRecord'
  BY <1>0, <1>3, MarkedType, ReplaceOneRecord
<1>4. CASE onNeighborInterfaceUp
  <2>1. {Head(events).object[1]} \in SUBSET Ifaces
    <3>1. Head(events) \in EventsOver(found) BY <1>4, HandleType DEF onNeighborInterfaceUp
    <3>2. Head(events).object \in ObjectsOver(found) BY <1>4, <3>1, EventKinds DEF onNeighborInterfaceUp, Handle
    <3>3. QED BY <3>2, ObjectKinds
  <2>2. \/ nodes' = nodes
        \/ \E n \in nodes : nodes' = (nodes \ {n}) \union {Marked(n, {Head(events).object[1]})}
    BY <1>4 DEF onNeighborInterfaceUp
  <2>3. QED BY <1>1, <1>2, <2>1, <2>2
<1>5. CASE onRetrieveNode
  <2>1. Head(events) \in RetrievedEvents(found) BY <1>5, HandleType, EventKinds DEF onRetrieveNode
  <2>2. QED BY <1>5, <2>1, AnswerType, UpdateOneRecord DEF onRetrieveNode
<1>6. CASE onNeighborInterfaceDown
  <2>1. {Head(events).object[1]} \in SUBSET Ifaces
    <3>1. Head(events) \in EventsOver(found) BY <1>6, HandleType DEF onNeighborInterfaceDown
    <3>2. Head(events).object \in ObjectsOver(found) BY <1>6, <3>1, EventKinds DEF onNeighborInterfaceDown, Handle
    <3>3. QED BY <3>2, ObjectKinds
  <2>2. \/ nodes' = nodes
        \/ \E n \in nodes : nodes' = (nodes \ {n}) \union {Unmarked(n, {Head(events).object[1]})}
    BY <1>6 DEF onNeighborInterfaceDown
  <2>3. QED BY <1>1, <1>3, <2>1, <2>2
<1>7. CASE onReceiveNodeDescription
  <2> DEFINE e == Head(events)
             made == Described(Fresh, e.time, Own)
             n == IF e.from = ThirdParty THEN made ELSE Marked(made, {e.from})
             synced == Marked(n, {i \in Ifaces : stored[i] # 0})
             new == IF Replaced(n) = {} THEN synced ELSE n
  <2>1. e \in DescriptionEvents /\ Unused # {} BY <1>7, HandleType, EventKinds DEF onReceiveNodeDescription
  <2>2. n \in NodesOver(found) /\ synced \in NodesOver(found) BY <2>1, MadeType
  <2>3. new \in NodesOver(found) BY <2>2
  <2>4. nodes' = nodes \/ nodes' = update(new) BY <1>7 DEF onReceiveNodeDescription
  <2> HIDE DEF e, made, n, synced, new
  <2>5. QED BY <1>1, <2>3, <2>4, UpdateOneRecord
<1>8. CASE _retrieveNode
  <2> DEFINE o == Head(tasks).object
             up == {o[1]} \intersect {i \in Ifaces : o \in ifaceUp}
  <2>1. up \in SUBSET Ifaces OBVIOUS
  <2>2. nodes' = nodes \/ \E m \in nodes : nodes' = (nodes \ {m}) \union {Marked(m, up)} BY <1>8 DEF _retrieveNode
  <2> HIDE DEF o, up
  <2>3. QED BY <1>1, <1>2, <2>1, <2>2
<1>9. QED
  BY <1>1, <1>4, <1>5, <1>6, <1>7, <1>8
  DEF Next, KernelStep, DataStoreStep, addupdate, remove, ReportUp, report_dead, Arrive, Relay,
      onIncomingDataObject, onVerifiedDataObject, Purge, _insertNode, InsertDescription, vars

\* The node store never has two records for one node: not for the nameless nodes of
\* an interface, and not for a nameless node and the described one.
THEOREM OneRecordEach == Spec => []OneRecord
<1>1. Init => OneRecord BY DEF Init, OneRecord
<1>2. QED BY <1>1, OneRecordStep, TypeCorrect, PTL DEF Spec

-----------------------------------------------------------------------------
(* What a queue of events says of an interface.                            *)

IsUp(e, i) == e.type = "INTERFACE_UP" /\ e.object[1] = i
IsDown(e, i) == e.type = "INTERFACE_DOWN" /\ e.object[1] = i
IsAnswer(e, o) == e.type = "RETRIEVED" /\ e.object = o
Shares(n, o) == n # NoNode /\ o[1] \in n.ifaces /\ n.object[o[1]] = o[2]

NoUp(s, i) == \A p \in DOMAIN s : ~IsUp(s[p], i)
NoDown(s, i) == \A p \in DOMAIN s : ~IsDown(s[p], i)
Answered(s, o) == \E p \in DOMAIN s : IsAnswer(s[p], o)

\* The object is announced after every loss, the loss after every announcement.
UpLast(s, o) ==
    \E p \in DOMAIN s :
      s[p].type = "INTERFACE_UP" /\ s[p].object = o /\ \A q \in DOMAIN s : IsDown(s[q], o[1]) => q < p
DownLast(s, i) == \E p \in DOMAIN s : IsDown(s[p], i) /\ \A q \in DOMAIN s : IsUp(s[q], i) => q < p

\* No answer that is handled before a loss shares the object.
Early(s, o) ==
    \A p, q \in DOMAIN s :
      IsDown(s[p], o[1]) /\ q < p /\ s[q].type = "RETRIEVED" => s[q].object # o /\ ~Shares(s[q].node, o)

\* The queue t says the same of the interface as s, or more.
SaysAlike(s, t, i) ==
    /\ NoUp(s, i) => NoUp(t, i)
    /\ NoDown(s, i) <=> NoDown(t, i)
    /\ DownLast(s, i) => DownLast(t, i)
    /\ \A k : /\ UpLast(s, <<i, k>>) => UpLast(t, <<i, k>>)
              /\ Answered(s, <<i, k>>) => Answered(t, <<i, k>>)
              /\ Early(s, <<i, k>>) => Early(t, <<i, k>>)

\* An event is put at the end of the queue.
LEMMA QueuePut ==
    ASSUME NEW S, NEW s \in Seq(S), NEW e \in S, NEW t, t = Append(s, e), NEW i
    PROVE  /\ ~IsUp(e, i) /\ ~IsDown(e, i) => SaysAlike(s, t, i)
           /\ IsUp(e, i) => /\ UpLast(t, e.object) /\ (NoDown(t, i) <=> NoDown(s, i))
                            /\ \A k : /\ Answered(s, <<i, k>>) => Answered(t, <<i, k>>)
                                      /\ Early(s, <<i, k>>) => Early(t, <<i, k>>)
           /\ IsDown(e, i) => DownLast(t, i) /\ \A k : Answered(s, <<i, k>>) => Answered(t, <<i, k>>)
           /\ e.type = "RETRIEVED" => Answered(t, e.object)
<1>1. /\ Len(s) \in Nat /\ DOMAIN s = 1..Len(s) /\ DOMAIN t = 1..(Len(s) + 1)
      /\ \A p \in DOMAIN s : p \in DOMAIN t /\ t[p] = s[p] /\ p < Len(s) + 1 /\ p \in Int
      /\ t[Len(s) + 1] = e /\ Len(s) + 1 \in DOMAIN t
      /\ \A p \in DOMAIN t : p \in DOMAIN s \/ p = Len(s) + 1
  OBVIOUS
<1> PICK z : z = Len(s) + 1 OBVIOUS
<1>2. /\ \A p \in DOMAIN s : p \in DOMAIN t /\ t[p] = s[p] /\ p < z /\ p \in Int /\ ~(z < p)
      /\ t[z] = e /\ z \in DOMAIN t /\ z \in Int /\ ~(z < z)
      /\ \A p \in DOMAIN t : p \in DOMAIN s \/ p = z
  BY <1>1
<1>3. \A k : Answered(s, <<i, k>>) => Answered(t, <<i, k>>) BY <1>2 DEF Answered
<1>4. ~IsUp(e, i) /\ NoUp(s, i) => NoUp(t, i) BY <1>2 DEF NoUp
<1>5. ~IsDown(e, i) => (NoDown(s, i) <=> NoDown(t, i)) BY <1>2 DEF NoDown
<1>6. ~IsUp(e, i) /\ DownLast(s, i) => DownLast(t, i) BY <1>2 DEF DownLast
<1>7. ASSUME NEW k, ~IsDown(e, i), UpLast(s, <<i, k>>) PROVE UpLast(t, <<i, k>>)
  <2>1. <<i, k>>[1] = i OBVIOUS
  <2>2. QED BY <1>2, <1>7, <2>1 DEF UpLast
<1>8. ASSUME NEW k, ~IsDown(e, i), Early(s, <<i, k>>) PROVE Early(t, <<i, k>>)
  <2>1. <<i, k>>[1] = i OBVIOUS
  <2> SUFFICES ASSUME NEW p \in DOMAIN t, NEW q \in DOMAIN t, IsDown(t[p], i), q < p, t[q].type = "RETRIEVED"
               PROVE  t[q].object # <<i, k>> /\ ~Shares(t[q].node, <<i, k>>)
    BY <2>1 DEF Early
  <2>2. p \in DOMAIN s /\ t[p] = s[p] BY <1>2, <1>8
  <2>3. q \in DOMAIN s /\ t[q] = s[q] BY <1>2, <2>2
  <2>4. QED BY <1>8, <2>1, <2>2, <2>3 DEF Early
<1>9. ASSUME IsUp(e, i) PROVE UpLast(t, e.object) /\ ~IsDown(e, i)
  <2>1. e.object[1] = i /\ e.type = "INTERFACE_UP" /\ ~IsDown(e, i) BY <1>9 DEF IsUp, IsDown
  <2>2. QED BY <1>2, <2>1 DEF UpLast
<1>10. IsDown(e, i) => DownLast(t, i)
  <2>1. IsDown(e, i) => ~IsUp(e, i) BY DEF IsUp, IsDown
  <2>2. QED BY <1>2, <2>1 DEF DownLast
<1>11. e.type = "RETRIEVED" => Answered(t, e.object) BY <1>2 DEF Answered, IsAnswer
<1>12. QED BY <1>3, <1>4, <1>5, <1>6, <1>7, <1>8, <1>9, <1>10, <1>11 DEF SaysAlike

\* The last announcement of an object is taken off the queue, or stays there.
LEMMA TakeUp ==
    ASSUME NEW S, NEW s \in Seq(S), s # <<>>, NEW i, NEW k, UpLast(s, <<i, k>>)
    PROVE  \/ UpLast(Tail(s), <<i, k>>)
           \/ Head(s).type = "INTERFACE_UP" /\ Head(s).object = <<i, k>> /\ NoDown(Tail(s), i)
<1>1. PICK t : t = Tail(s) OBVIOUS
<1>2. /\ Len(s) \in Nat /\ Len(s) >= 1 /\ DOMAIN s = 1..Len(s) /\ DOMAIN t = 1..(Len(s) - 1)
      /\ \A q \in DOMAIN t : t[q] = s[q + 1] /\ q + 1 \in DOMAIN s /\ q \in Int
      /\ s[1] = Head(s)
  BY <1>1
<1>3. <<i, k>>[1] = i OBVIOUS
<1>4. PICK p \in DOMAIN s : /\ s[p].type = "INTERFACE_UP" /\ s[p].object = <<i, k>>
                            /\ \A q \in DOMAIN s : IsDown(s[q], i) => q < p
  BY <1>3 DEF UpLast
<1>5. CASE p = 1
  <2>1. \A q \in DOMAIN t : ~IsDown(t[q], i) BY <1>2, <1>4, <1>5
  <2>2. QED BY <1>1, <1>2, <1>4, <1>5, <2>1 DEF NoDown
<1>6. CASE p # 1
  <2>1. p - 1 \in DOMAIN t /\ t[p - 1] = s[p] BY <1>2, <1>6
  <2>2. \A q \in DOMAIN t : IsDown(t[q], i) => q < p - 1 BY <1>2, <1>4, <1>6
  <2>3. QED BY <1>1, <1>3, <1>4, <2>1, <2>2 DEF UpLast
<1>7. QED BY <1>5, <1>6

\* The first event is taken off the queue.
LEMMA QueueTake ==
    ASSUME NEW S, NEW s \in Seq(S), s # <<>>, NEW t, t = Tail(s), NEW h, h = Head(s), NEW i
    PROVE  /\ ~IsUp(h, i) /\ ~IsDown(h, i) /\ (\A k : ~IsAnswer(h, <<i, k>>)) => SaysAlike(s, t, i)
           /\ NoUp(s, i) => NoUp(t, i) /\ ~IsUp(h, i)
           /\ NoDown(s, i) => NoDown(t, i)
           /\ NoDown(t, i) /\ ~IsDown(h, i) => NoDown(s, i)
           /\ DownLast(s, i) => DownLast(t, i) \/ (IsDown(h, i) /\ NoUp(t, i))
           /\ \A k : /\ Answered(s, <<i, k>>) => Answered(t, <<i, k>>) \/ IsAnswer(h, <<i, k>>)
                     /\ Early(s, <<i, k>>) =>
                          /\ Early(t, <<i, k>>)
                          /\ h.type = "RETRIEVED" /\ ~NoDown(t, i) => h.object # <<i, k>> /\ ~Shares(h.node, <<i, k>>)
<1>1. /\ Len(s) \in Nat /\ Len(s) >= 1 /\ DOMAIN s = 1..Len(s) /\ DOMAIN t = 1..(Len(s) - 1)
      /\ \A p \in DOMAIN t : t[p] = s[p + 1]
      /\ s[1] = h
  OBVIOUS
<1>2. /\ \A p \in DOMAIN t : p + 1 \in DOMAIN s /\ t[p] = s[p + 1] /\ p \in Int /\ 1 < p + 1
      /\ \A p \in DOMAIN s : p \in Int /\ (p = 1 \/ (p - 1 \in DOMAIN t /\ t[p - 1] = s[p] /\ ~(p < 1)))
      /\ s[1] = h /\ 1 \in DOMAIN s /\ ~(1 < 1)
  <2>1. ASSUME NEW p \in DOMAIN t PROVE p + 1 \in DOMAIN s /\ t[p] = s[p + 1] /\ p \in Int /\ 1 < p + 1 BY <1>1
  <2>2. ASSUME NEW p \in DOMAIN s
        PROVE  p \in Int /\ (p = 1 \/ (p - 1 \in DOMAIN t /\ t[p - 1] = s[p] /\ ~(p < 1)))
    <3>1. p \in 1..Len(s) /\ (p = 1 \/ p - 1 \in 1..(Len(s) - 1)) BY <1>1
    <3>2. p - 1 \in DOMAIN t => t[p - 1] = s[(p - 1) + 1] BY <1>1
    <3>3. (p - 1) + 1 = p BY <3>1
    <3>4. QED BY <1>1, <3>1, <3>2, <3>3
  <2>3. s[1] = h /\ 1 \in DOMAIN s /\ ~(1 < 1) BY <1>1
  <2>4. QED BY <2>1, <2>2, <2>3
<1>3. NoUp(s, i) => NoUp(t, i) /\ ~IsUp(h, i) BY <1>2 DEF NoUp
<1>4. NoDown(s, i) => NoDown(t, i) BY <1>2 DEF NoDown
<1>5. NoDown(t, i) /\ ~IsDown(h, i) => NoDown(s, i) BY <1>2 DEF NoDown
<1>6. ASSUME DownLast(s, i) PROVE DownLast(t, i) \/ (IsDown(h, i) /\ NoUp(t, i))
  <2>1. PICK p \in DOMAIN s : IsDown(s[p], i) /\ \A q \in DOMAIN s : IsUp(s[q], i) => q < p BY <1>6 DEF DownLast
  <2>2. CASE p = 1
    <3>1. \A q \in DOMAIN t : ~IsUp(t[q], i) BY <1>2, <2>1, <2>2
    <3>2. QED BY <1>2, <2>1, <2>2, <3>1 DEF NoUp
  <2>3. CASE p # 1
    <3>1. p - 1 \in DOMAIN t /\ IsDown(t[p - 1], i) BY <1>2, <2>1, <2>3
    <3>2. \A q \in DOMAIN t : IsUp(t[q], i) => q < p - 1 BY <1>2, <2>1, <2>3
    <3>3. QED BY <3>1, <3>2 DEF DownLast
  <2>4. QED BY <2>2, <2>3
<1>7. \A k : Answered(s, <<i, k>>) => Answered(t, <<i, k>>) \/ IsAnswer(h, <<i, k>>) BY <1>2 DEF Answered
<1>8. ASSUME NEW k, Early(s, <<i, k>>)
      PROVE  /\ Early(t, <<i, k>>)
             /\ h.type = "RETRIEVED" /\ ~NoDown(t, i) => h.object # <<i, k>> /\ ~Shares(h.node, <<i, k>>)
  <2>0. <<i, k>>[1] = i OBVIOUS
  <2>1. \A p, q \in DOMAIN s :
          IsDown(s[p], i) /\ q < p /\ s[q].type = "RETRIEVED" => s[q].object # <<i, k>> /\ ~Shares(s[q].node, <<i, k>>)
    BY <1>8, <2>0 DEF Early
  <2>2. ASSUME NEW p \in DOMAIN t, NEW q \in DOMAIN t, IsDown(t[p], i), q < p, t[q].type = "RETRIEVED"
        PROVE  t[q].object # <<i, k>> /\ ~Shares(t[q].node, <<i, k>>)
    <3>1. p + 1 \in DOMAIN s /\ q + 1 \in DOMAIN s /\ q + 1 < p + 1 /\ t[p] = s[p + 1] /\ t[q] = s[q + 1]
      BY <1>2, <2>2
    <3>2. QED BY <2>1, <2>2, <3>1
  <2>3. ASSUME h.type = "RETRIEVED", NEW p \in DOMAIN t, IsDown(t[p], i)
        PROVE  h.object # <<i, k>> /\ ~Shares(h.node, <<i, k>>)
    <3>1. p + 1 \in DOMAIN s /\ IsDown(s[p + 1], i) /\ 1 < p + 1 BY <1>2, <2>3
    <3>2. 1 \in DOMAIN s /\ s[1].type = "RETRIEVED" /\ s[1] = h BY <1>2, <2>3
    <3>3. QED BY <2>1, <3>1, <3>2
  <2>4. QED BY <2>0, <2>2, <2>3 DEF Early, NoDown
<1>9. ASSUME ~IsUp(h, i), ~IsDown(h, i), \A k : ~IsAnswer(h, <<i, k>>) PROVE SaysAlike(s, t, i)
  <2>1. \A k : ~(h.type = "INTERFACE_UP" /\ h.object = <<i, k>>) BY <1>9 DEF IsUp
  <2>2. \A k : UpLast(s, <<i, k>>) => UpLast(t, <<i, k>>) BY <2>1, TakeUp
  <2>3. QED BY <1>3, <1>4, <1>5, <1>6, <1>7, <1>8, <1>9, <2>2 DEF SaysAlike
<1>10. QED BY <1>3, <1>4, <1>5, <1>6, <1>7, <1>8, <1>9

\* Answers part from nodes: of an interface the queue says the same, when none of the
\* nodes that are gone shares its object.
LEMMA QueuePart ==
    ASSUME NEW f, NEW s \in Seq(EventsOver(f)), NEW gone \in SUBSET NodesOver(f), NEW t, t = Part(s, gone), NEW i
    PROVE  /\ NoUp(s, i) => NoUp(t, i)
           /\ NoDown(s, i) <=> NoDown(t, i)
           /\ DownLast(s, i) => DownLast(t, i)
           /\ \A k : /\ UpLast(s, <<i, k>>) => UpLast(t, <<i, k>>)
                     /\ Answered(s, <<i, k>>) => Answered(t, <<i, k>>)
                     /\ Early(s, <<i, k>>) /\ (\A m \in gone : ~Shares(m, <<i, k>>)) => Early(t, <<i, k>>)
<1>1. /\ DOMAIN t = DOMAIN s
      /\ \A p \in DOMAIN s :
           /\ t[p].type = s[p].type
           /\ s[p].type # "RETRIEVED" => t[p] = s[p]
           /\ s[p].type = "RETRIEVED" => t[p].object = s[p].object /\ (t[p] = s[p] \/ t[p].node \in gone)
  BY PartType
<1>2. \A p \in DOMAIN s : (IsUp(s[p], i) <=> IsUp(t[p], i)) /\ (IsDown(s[p], i) <=> IsDown(t[p], i))
  BY <1>1 DEF IsUp, IsDown
<1>3. (NoUp(s, i) => NoUp(t, i)) /\ (NoDown(s, i) <=> NoDown(t, i)) BY <1>1, <1>2 DEF NoUp, NoDown
<1>4. DownLast(s, i) => DownLast(t, i) BY <1>1, <1>2 DEF DownLast
<1>5. ASSUME NEW k
      PROVE  /\ UpLast(s, <<i, k>>) => UpLast(t, <<i, k>>)
             /\ Answered(s, <<i, k>>) => Answered(t, <<i, k>>)
             /\ Early(s, <<i, k>>) /\ (\A m \in gone : ~Shares(m, <<i, k>>)) => Early(t, <<i, k>>)
  <2>0. <<i, k>>[1] = i OBVIOUS
  <2>1. UpLast(s, <<i, k>>) => UpLast(t, <<i, k>>)
    <3>1. \A p \in DOMAIN s : s[p].type = "INTERFACE_UP" => t[p] = s[p] BY <1>1
    <3>2. QED BY <1>1, <1>2, <2>0, <3>1 DEF UpLast
  <2>2. Answered(s, <<i, k>>) => Answered(t, <<i, k>>) BY <1>1 DEF Answered, IsAnswer
  <2>3. ASSUME Early(s, <<i, k>>), \A m \in gone : ~Shares(m, <<i, k>>) PROVE Early(t, <<i, k>>)
    <3> SUFFICES ASSUME NEW p \in DOMAIN s, NEW q \in DOMAIN s, IsDown(t[p], i), q < p, t[q].type = "RETRIEVED"
                 PROVE  t[q].object # <<i, k>> /\ ~Shares(t[q].node, <<i, k>>)
      BY <1>1, <2>0 DEF Early
    <3>1. IsDown(s[p], i) /\ s[q].type = "RETRIEVED" BY <1>1, <1>2
    <3>2. s[q].object # <<i, k>> /\ ~Shares(s[q].node, <<i, k>>) BY <2>0, <2>3, <3>1 DEF Early
    <3>3. QED BY <1>1, <2>3, <3>1, <3>2
  <2>4. QED BY <2>1, <2>2, <2>3
<1>6. QED BY <1>3, <1>4, <1>5

-----------------------------------------------------------------------------
(* Agreement of interface store and node store.                            *)

Obj(i) == <<i, stored[i]>>
Unreported(o) == o \in reporting \union snooped
Dying(i) == \E k \in 1..MaxAdds : dying[<<i, k>>] > 0
Asked(q, o) == \E p \in DOMAIN q : q[p].type = "RETRIEVE" /\ q[p].object = o
UpAmong(ns, flags, i) == \E n \in ns : i \in UpIn(n, flags)
Ids(ns) == {m.id : m \in ns}

\* An answer for the object brings a node with the interface up: a nameless one, or
\* one that no other answer and no node of the node store is.
Sure(s, o, ids, flags) ==
    \E p \in DOMAIN s :
      /\ IsAnswer(s[p], o)
      /\ \/ s[p].node = NoNode
         \/ /\ s[p].node # NoNode /\ o[1] \in UpIn(s[p].node, flags) /\ s[p].node.id \notin ids
            /\ \A q \in DOMAIN s : q # p /\ s[q].type = "RETRIEVED" => s[q].node.id # s[p].node.id

\* The object in the interface store is up, and nodes share it only after all losses.
StoredUp(i) == stored[i] # 0 => Obj(i) \in ifaceUp
Apart(i) ==
    stored[i] # 0 /\ ~NoDown(events, i) => (\A n \in nodes : ~Shares(n, Obj(i))) /\ Early(events, Obj(i))

\* A report or an answer about an object that is not stored is on its way: it will be late.
Doomed(i) ==
    \E k \in 1..MaxAdds :
      k # stored[i] /\ (Unreported(<<i, k>>) \/ Asked(tasks, <<i, k>>) \/ Answered(events, <<i, k>>))

\* A stored interface is up in the node store or will be.
There(i) ==
    stored[i] # 0 =>
      \/ Unreported(Obj(i)) \/ UpLast(events, Obj(i))
      \/ /\ NoDown(events, i)
         /\ Asked(tasks, Obj(i)) \/ Sure(events, Obj(i), Ids(nodes), ifaceUp) \/ UpAmong(nodes, ifaceUp, i)

\* An interface that is not stored is down in the node store or will be.
Gone(i) == stored[i] = 0 => Dying(i) \/ DownLast(events, i) \/ (~UpAmong(nodes, ifaceUp, i) /\ NoUp(events, i))

Agree(i) == StoredUp(i) /\ Apart(i) /\ (Doomed(i) \/ (There(i) /\ Gone(i)))

\* A step that changes nothing of the interface.
LEMMA Kept ==
    ASSUME NEW i \in Ifaces, Agree(i), stored'[i] = stored[i],
           Obj(i) \in ifaceUp => Obj(i) \in ifaceUp',
           \A k : Unreported(<<i, k>>) => Unreported(<<i, k>>)',
           \A k : Asked(tasks, <<i, k>>) => Asked(tasks', <<i, k>>),
           SaysAlike(events, events', i),
           Dying(i) => Dying(i)',
           UpAmong(nodes', ifaceUp', i) <=> UpAmong(nodes, ifaceUp, i),
           \A n \in nodes' : Shares(n, Obj(i)) => \E m \in nodes : Shares(m, Obj(i)),
           Sure(events, Obj(i), Ids(nodes), ifaceUp) => Sure(events', Obj(i), Ids(nodes'), ifaceUp')
    PROVE  Agree(i)'
<1>1. Obj(i)' = Obj(i) /\ Obj(i) = <<i, stored[i]>> BY DEF Obj
<1>2. StoredUp(i)' BY <1>1 DEF Agree, StoredUp
<1>3. Apart(i)' BY <1>1 DEF Agree, Apart, SaysAlike
<1>4. Doomed(i) => Doomed(i)' BY DEF Doomed, SaysAlike
<1>5. There(i) => There(i)' BY <1>1 DEF There, SaysAlike
<1>6. Gone(i) => Gone(i)' BY DEF Gone, SaysAlike
<1>7. QED BY <1>2, <1>3, <1>4, <1>5, <1>6 DEF Agree

\* Flags that come up and identities that are given up leave an answer sure.
LEMMA SureLess ==
    ASSUME NEW f, NEW s \in Seq(EventsOver(f)), NEW o, NEW ids, NEW flags, Sure(s, o, ids, flags),
           NEW ids2, ids2 \subseteq ids \union {0},
           NEW flags2, \A k : <<o[1], k>> \in flags => <<o[1], k>> \in flags2
    PROVE  Sure(s, o, ids2, flags2)
<1>1. PICK p \in DOMAIN s :
        /\ IsAnswer(s[p], o)
        /\ \/ s[p].node = NoNode
           \/ /\ s[p].node # NoNode /\ o[1] \in UpIn(s[p].node, flags) /\ s[p].node.id \notin ids
              /\ \A q \in DOMAIN s : q # p /\ s[q].type = "RETRIEVED" => s[q].node.id # s[p].node.id
  BY DEF Sure
<1>2. s[p] \in EventsOver(f) /\ s[p].type = "RETRIEVED" BY <1>1 DEF IsAnswer
<1>3. s[p].node # NoNode => s[p].node.id # 0 BY <1>2, EventKinds, NodeFields DEF DescribedOver
<1>4. o[1] \in UpIn(s[p].node, flags) => o[1] \in UpIn(s[p].node, flags2) BY DEF UpIn
<1>5. s[p].node # NoNode /\ s[p].node.id \notin ids => s[p].node.id \notin ids2 BY <1>3
<1>6. QED BY <1>1, <1>4, <1>5 DEF Sure

\* An event that is put at the end of the queue leaves an answer sure, when it is no
\* answer with the same node.
LEMMA SurePut ==
    ASSUME NEW f, NEW s \in Seq(EventsOver(f)), NEW o, NEW ids, NEW flags, Sure(s, o, ids, flags),
           NEW e \in EventsOver(f), NEW t, t = Append(s, e),
           e.type = "RETRIEVED" =>
             \/ e.node.id = 0 \/ e.node.id \in ids
             \/ \A p \in DOMAIN s : s[p].type = "RETRIEVED" => s[p].node.id # e.node.id
    PROVE  Sure(t, o, ids, flags)
<1>1. PICK p \in DOMAIN s :
        /\ IsAnswer(s[p], o)
        /\ \/ s[p].node = NoNode
           \/ /\ s[p].node # NoNode /\ o[1] \in UpIn(s[p].node, flags) /\ s[p].node.id \notin ids
              /\ \A q \in DOMAIN s : q # p /\ s[q].type = "RETRIEVED" => s[q].node.id # s[p].node.id
  BY DEF Sure
<1>2. s[p] \in EventsOver(f) /\ s[p].type = "RETRIEVED" BY <1>1 DEF IsAnswer
<1>3. s[p].node # NoNode => s[p].node.id # 0 BY <1>2, EventKinds, NodeFields DEF DescribedOver
<1>4. PICK z : z = Len(s) + 1 OBVIOUS
<1>5. /\ \A q \in DOMAIN s : q \in DOMAIN t /\ t[q] = s[q]
      /\ \A q \in DOMAIN t : q \in DOMAIN s \/ q = z
      /\ t[z] = e
  BY <1>4
<1>6. CASE s[p].node = NoNode BY <1>1, <1>5, <1>6 DEF Sure
<1>7. CASE s[p].node # NoNode
  <2>1. e.type = "RETRIEVED" => e.node.id # s[p].node.id BY <1>1, <1>2, <1>3, <1>7
  <2>2. \A q \in DOMAIN t : q # p /\ t[q].type = "RETRIEVED" => t[q].node.id # s[p].node.id
    BY <1>1, <1>5, <1>7, <2>1
  <2>3. QED BY <1>1, <1>5, <1>7, <2>2 DEF Sure
<1>8. QED BY <1>6, <1>7

\* The sure answer is the first event, or it stays when that one is taken, and is no
\* node of an answer that is taken.
LEMMA SureTake ==
    ASSUME NEW f, NEW s \in Seq(EventsOver(f)), s # <<>>, NEW o, NEW ids, NEW flags, Sure(s, o, ids, flags),
           NEW t, t = Tail(s), NEW h, h = Head(s)
    PROVE  \/ /\ IsAnswer(h, o)
              /\ h.node = NoNode \/ (h.node # NoNode /\ o[1] \in UpIn(h.node, flags) /\ h.node.id \notin ids)
           \/ Sure(t, o, IF h.type = "RETRIEVED" THEN ids \union {h.node.id} ELSE ids, flags)
<1>1. PICK p \in DOMAIN s :
        /\ IsAnswer(s[p], o)
        /\ \/ s[p].node = NoNode
           \/ /\ s[p].node # NoNode /\ o[1] \in UpIn(s[p].node, flags) /\ s[p].node.id \notin ids
              /\ \A q \in DOMAIN s : q # p /\ s[q].type = "RETRIEVED" => s[q].node.id # s[p].node.id
  BY DEF Sure
<1>2. /\ Len(s) \in Nat /\ Len(s) >= 1 /\ DOMAIN s = 1..Len(s) /\ DOMAIN t = 1..(Len(s) - 1)
      /\ \A q \in DOMAIN t : t[q] = s[q + 1] /\ q + 1 \in DOMAIN s /\ q + 1 # 1 /\ q \in Int
      /\ s[1] = h /\ 1 \in DOMAIN s
  OBVIOUS
<1>3. CASE p = 1 BY <1>1, <1>2, <1>3
<1>4. CASE p # 1
  <2>1. PICK r : r = p - 1 OBVIOUS
  <2>2. r \in DOMAIN t /\ t[r] = s[p] /\ p = r + 1 BY <1>2, <1>4, <2>1
  <2>3. CASE s[p].node = NoNode BY <1>1, <2>2, <2>3 DEF Sure
  <2>4. CASE s[p].node # NoNode
    <3>1. h.type = "RETRIEVED" => h.node.id # s[p].node.id BY <1>1, <1>2, <1>4, <2>4
    <3>2. \A q \in DOMAIN t : q # r /\ t[q].type = "RETRIEVED" => t[q].node.id # s[p].node.id
      BY <1>1, <1>2, <2>2, <2>4
    <3>3. QED BY <1>1, <2>2, <2>4, <3>1, <3>2 DEF Sure
  <2>5. QED BY <2>3, <2>4
<1>5. QED BY <1>3, <1>4

\* An answer with a node that is not in the node store is not concerned when nodes leave it.
LEMMA SurePart ==
    ASSUME NEW f, NEW s \in Seq(EventsOver(f)), NEW o, NEW ids, NEW flags, Sure(s, o, ids, flags),
           NEW gone \in SUBSET NodesOver(f), Ids(gone) \subseteq ids, NEW t, t = Part(s, gone)
    PROVE  Sure(t, o, ids, flags)
<1>1. PICK p \in DOMAIN s :
        /\ IsAnswer(s[p], o)
        /\ \/ s[p].node = NoNode
           \/ /\ s[p].node # NoNode /\ o[1] \in UpIn(s[p].node, flags) /\ s[p].node.id \notin ids
              /\ \A q \in DOMAIN s : q # p /\ s[q].type = "RETRIEVED" => s[q].node.id # s[p].node.id
  BY DEF Sure
<1>2. /\ DOMAIN t = DOMAIN s
      /\ \A q \in DOMAIN s :
           /\ t[q].type = s[q].type
           /\ s[q].type = "RETRIEVED" =>
                /\ t[q].node.id = s[q].node.id
                /\ t[q] = s[q] \/ (t[q].node \in gone /\ s[q].node # NoNode)
  BY PartType
<1>3. s[p].type = "RETRIEVED" BY <1>1 DEF IsAnswer
<1>4. t[p] = s[p]
  <2>1. \A m \in gone : m.id \in ids BY DEF Ids
  <2>2. QED BY <1>1, <1>2, <1>3, <2>1
<1>5. QED BY <1>1, <1>2, <1>4 DEF Sure

\* A node that changes, but not in what is up of the interface, changes nothing of it.
LEMMA UpElsewhere ==
    ASSUME NEW n \in nodes, NEW l, nodes' = (nodes \ {n}) \union {l},
           l.id = n.id, l.ifaces = n.ifaces, l.object = n.object, l # NoNode, n # NoNode,
           NEW i, i \in l.up <=> i \in n.up, \A k : <<i, k>> \in ifaceUp <=> <<i, k>> \in ifaceUp'
    PROVE  /\ UpAmong(nodes', ifaceUp', i) <=> UpAmong(nodes, ifaceUp, i)
           /\ \A o : (\E m \in nodes' : Shares(m, o)) => \E m \in nodes : Shares(m, o)
           /\ Ids(nodes') \subseteq Ids(nodes)
<1>1. \A m : i \in UpIn(m, ifaceUp) <=> i \in UpIn(m, ifaceUp') BY DEF UpIn
<1>2. i \in UpIn(l, ifaceUp') <=> i \in UpIn(n, ifaceUp') BY DEF UpIn
<1>3. UpAmong(nodes', ifaceUp', i) <=> UpAmong(nodes, ifaceUp, i) BY <1>1, <1>2 DEF UpAmong
<1>4. \A o : Shares(l, o) => Shares(n, o) BY DEF Shares
<1>5. \A o : (\E m \in nodes' : Shares(m, o)) => \E m \in nodes : Shares(m, o) BY <1>4
<1>6. Ids(nodes') \subseteq Ids(nodes) BY DEF Ids
<1>7. QED BY <1>3, <1>5, <1>6

\* What is asked of the data store.
LEMMA AskedQueue ==
    ASSUME NEW S, NEW q \in Seq(S), NEW o
    PROVE  /\ \A e \in S : Asked(q, o) => Asked(Append(q, e), o)
           /\ \A e \in S : e.type = "RETRIEVE" /\ e.object = o => Asked(Append(q, e), o)
           /\ q # <<>> /\ Asked(q, o) => Asked(Tail(q), o) \/ (Head(q).type = "RETRIEVE" /\ Head(q).object = o)
           /\ q # <<>> /\ Head(q).type = "RETRIEVE" => Asked(q, Head(q).object)
<1>1. ASSUME NEW e \in S
      PROVE  /\ Asked(q, o) => Asked(Append(q, e), o)
             /\ e.type = "RETRIEVE" /\ e.object = o => Asked(Append(q, e), o)
  <2>1. PICK t : t = Append(q, e) OBVIOUS
  <2>2. /\ \A p \in DOMAIN q : p \in DOMAIN t /\ t[p] = q[p]
        /\ Len(q) + 1 \in DOMAIN t /\ t[Len(q) + 1] = e
    BY <2>1
  <2>3. QED BY <2>1, <2>2 DEF Asked
<1>2. ASSUME q # <<>>, Asked(q, o) PROVE Asked(Tail(q), o) \/ (Head(q).type = "RETRIEVE" /\ Head(q).object = o)
  <2>1. PICK p \in DOMAIN q : q[p].type = "RETRIEVE" /\ q[p].object = o BY <1>2 DEF Asked
  <2>2. CASE p = 1 BY <1>2, <2>1, <2>2
  <2>3. CASE p # 1
    <3>1. PICK t : t = Tail(q) OBVIOUS
    <3>2. p - 1 \in DOMAIN t /\ t[p - 1] = q[p] BY <1>2, <2>3, <3>1
    <3>3. QED BY <2>1, <3>1, <3>2 DEF Asked
  <2>4. QED BY <2>2, <2>3
<1>3. ASSUME q # <<>>, Head(q).type = "RETRIEVE" PROVE Asked(q, Head(q).object)
  <2>1. 1 \in DOMAIN q /\ q[1] = Head(q) BY <1>3
  <2>2. QED BY <1>3, <2>1 DEF Asked
<1>4. QED BY <1>1, <1>2, <1>3

\* Nobody knows of an interface object that is new.
LEMMA NewObject ==
    ASSUME TypeOK, NEW i \in Ifaces, NEW k \in Nat, k > found[i]
    PROVE  /\ \A n \in NodesOver(found) : n.object[i] # k /\ ~Shares(n, <<i, k>>)
           /\ Early(events, <<i, k>>)
<1>0. found[i] \in Nat /\ <<i, k>>[1] = i /\ <<i, k>>[2] = k BY DEF TypeOK
<1>1. ASSUME NEW n \in NodesOver(found) PROVE n.object[i] # k /\ ~Shares(n, <<i, k>>)
  <2>1. n.object[i] <= found[i] /\ n.object[i] \in Nat BY NodeFields
  <2>2. n.object[i] # k BY <1>0, <2>1
  <2>3. QED BY <1>0, <2>2 DEF Shares
<1>2. ASSUME NEW q \in DOMAIN events, events[q].type = "RETRIEVED"
      PROVE  events[q].object # <<i, k>> /\ ~Shares(events[q].node, <<i, k>>)
  <2>1. events[q] \in EventsOver(found) BY DEF TypeOK
  <2>2. events[q].object \in ObjectsOver(found) /\ events[q].node \in DescribedOver(found) \union {NoNode}
    BY <1>2, <2>1, EventKinds
  <2>3. events[q].object # <<i, k>>
    <3>1. ~(k <= found[i]) BY <1>0
    <3>2. QED BY <2>2, <3>1, ObjectKinds
  <2>4. ~Shares(events[q].node, <<i, k>>)
    <3>1. CASE events[q].node = NoNode BY <3>1 DEF Shares
    <3>2. CASE events[q].node \in DescribedOver(found) BY <1>1, <3>2 DEF DescribedOver
    <3>3. QED BY <2>2, <3>1, <3>2
  <2>5. QED BY <2>3, <2>4
<1>3. QED BY <1>1, <1>2 DEF Early

\* A step that changes neither the node store nor what is up of the interface.
LEMMA KeptAside ==
    ASSUME TypeOK, TypeOK', NEW i \in Ifaces, Agree(i), stored'[i] = stored[i], nodes' = nodes,
           \A n \in NodesOver(found) : i \in UpIn(n, ifaceUp') <=> i \in UpIn(n, ifaceUp),
           \A k : <<i, k>> \in ifaceUp => <<i, k>> \in ifaceUp',
           \A k : Unreported(<<i, k>>) => Unreported(<<i, k>>)',
           \A k : Asked(tasks, <<i, k>>) => Asked(tasks', <<i, k>>),
           Dying(i) => Dying(i)',
           SaysAlike(events, events', i),
           Sure(events, Obj(i), Ids(nodes), ifaceUp) => Sure(events', Obj(i), Ids(nodes), ifaceUp)
    PROVE  Agree(i)'
<1>1. \A n \in nodes : n \in NodesOver(found) BY DEF TypeOK
<1>2. UpAmong(nodes', ifaceUp', i) <=> UpAmong(nodes, ifaceUp, i) BY <1>1 DEF UpAmong
<1>3. Obj(i) \in ifaceUp => Obj(i) \in ifaceUp' BY DEF Obj
<1>4. Sure(events', Obj(i), Ids(nodes), ifaceUp) => Sure(events', Obj(i), Ids(nodes'), ifaceUp')
  <2>1. events' \in Seq(EventsOver(found')) BY DEF TypeOK
  <2>2. Obj(i)[1] = i /\ Ids(nodes') \subseteq Ids(nodes) \union {0} BY DEF Obj
  <2>3. QED BY <2>1, <2>2, SureLess
<1>5. QED BY <1>2, <1>3, <1>4, Kept

\* An event about something else is put at the end of the queue.
LEMMA PutAside ==
    ASSUME TypeOK', NEW i, NEW e, events \in Seq(EventsOver(found')), events' = Append(events, e),
           ~IsUp(e, i), ~IsDown(e, i), e.type # "RETRIEVED"
    PROVE  /\ SaysAlike(events, events', i)
           /\ \A o, ids, flags : Sure(events, o, ids, flags) => Sure(events', o, ids, flags)
<1>1. e \in EventsOver(found')
  <2>1. events' \in Seq(EventsOver(found')) /\ Len(events) + 1 \in DOMAIN events' /\ events'[Len(events) + 1] = e
    BY DEF TypeOK
  <2>2. QED BY <2>1
<1>2. SaysAlike(events, events', i) BY <1>1, QueuePut
<1>3. ASSUME NEW o, NEW ids, NEW flags, Sure(events, o, ids, flags) PROVE Sure(events', o, ids, flags)
  BY <1>1, <1>3, SurePut
<1>4. QED BY <1>2, <1>3

\* Nothing happens to the queue.
LEMMA QueueSame ==
    ASSUME NEW s, NEW i PROVE SaysAlike(s, s, i)
BY DEF SaysAlike

\* An interface that comes into the store is up, and is going to be reported.
LEMMA addupdateAgree ==
    ASSUME TypeOK, TypeOK', NEW j \in Ifaces, addupdate(j), NEW i \in Ifaces, Agree(i)
    PROVE  Agree(i)'
<1>1. /\ stored[j] = 0 /\ found' = [found EXCEPT ![j] = @ + 1] /\ found[j] < MaxAdds
      /\ stored' = [stored EXCEPT ![j] = found'[j]]
      /\ ifaceUp' = ifaceUp \union {<<j, found'[j]>>} /\ reporting' = reporting \union {<<j, found'[j]>>}
      /\ UNCHANGED <<snooped, dying, events, tasks, nodes>>
  BY DEF addupdate, Create
<1>2. found[j] \in Nat /\ found'[j] = found[j] + 1 /\ stored \in [Ifaces -> 0..MaxAdds] BY <1>1 DEF TypeOK
<1>3. CASE j = i
  <2>1. stored'[i] = found'[i] /\ Obj(i)' = <<i, found'[i]>> /\ stored'[i] # 0 BY <1>1, <1>2, <1>3 DEF Obj
  <2>2. StoredUp(i)' BY <1>1, <1>3, <2>1 DEF StoredUp
  <2>3. Apart(i)'
    <3>1. found'[i] \in Nat /\ found'[i] > found[i] BY <1>2, <1>3
    <3>2. \A n \in nodes : n \in NodesOver(found) BY DEF TypeOK
    <3>3. (\A n \in nodes : ~Shares(n, <<i, found'[i]>>)) /\ Early(events, <<i, found'[i]>>)
      BY <3>1, <3>2, NewObject
    <3>4. QED BY <1>1, <2>1, <3>3 DEF Apart
  <2>4. There(i)' BY <1>1, <1>3, <2>1 DEF There, Unreported
  <2>5. Gone(i)' BY <2>1 DEF Gone
  <2>6. QED BY <2>2, <2>3, <2>4, <2>5 DEF Agree
<1>4. CASE j # i
  <2>1. stored'[i] = stored[i] BY <1>1, <1>2, <1>4
  <2>2. \A k : <<i, k>> \in ifaceUp' <=> <<i, k>> \in ifaceUp BY <1>1, <1>4
  <2>3. \A n \in NodesOver(found) : i \in UpIn(n, ifaceUp') <=> i \in UpIn(n, ifaceUp) BY <2>2 DEF UpIn
  <2>4. \A k : Unreported(<<i, k>>) => Unreported(<<i, k>>)' BY <1>1 DEF Unreported
  <2>5. Dying(i) => Dying(i)' BY <1>1 DEF Dying
  <2>6. SaysAlike(events, events', i) BY <1>1, QueueSame
  <2>7. QED BY <1>1, <2>1, <2>2, <2>3, <2>4, <2>5, <2>6, KeptAside
<1>5. QED BY <1>3, <1>4

\* A removed interface is going to be reported.
LEMMA removeAgree ==
    ASSUME TypeOK, TypeOK', NEW j \in Ifaces, remove(j), NEW i \in Ifaces, Agree(i)
    PROVE  Agree(i)'
<1>1. /\ stored[j] # 0 /\ stored' = [stored EXCEPT ![j] = 0]
      /\ dying' = [dying EXCEPT ![<<j, stored[j]>>] = @ + 1]
      /\ UNCHANGED <<ifaceUp, reporting, snooped, events, tasks, nodes>>
  BY DEF remove
<1>2. stored \in [Ifaces -> 0..MaxAdds] /\ dying \in [Handles -> Nat] BY DEF TypeOK
<1>3. stored[j] \in 1..MaxAdds /\ <<j, stored[j]>> \in Handles BY <1>1, <1>2, ObjectKinds
<1>4. CASE j = i
  <2>1. stored'[i] = 0 BY <1>1, <1>2, <1>4
  <2>2. dying'[<<i, stored[i]>>] > 0 BY <1>1, <1>2, <1>3, <1>4
  <2>3. Dying(i)' BY <1>3, <1>4, <2>2 DEF Dying
  <2>4. QED BY <2>1, <2>3 DEF Agree, StoredUp, Apart, There, Gone
<1>5. CASE j # i
  <2>1. stored'[i] = stored[i] BY <1>1, <1>2, <1>5
  <2>2. \A k : Unreported(<<i, k>>) => Unreported(<<i, k>>)' BY <1>1 DEF Unreported
  <2>3. Dying(i) => Dying(i)'
    <3>1. \A k \in 1..MaxAdds : dying'[<<i, k>>] = dying[<<i, k>>]
      <4> SUFFICES ASSUME NEW k \in 1..MaxAdds PROVE dying'[<<i, k>>] = dying[<<i, k>>] OBVIOUS
      <4>1. <<i, k>> \in Handles /\ <<i, k>> # <<j, stored[j]>> BY <1>5, ObjectKinds
      <4>2. QED BY <1>1, <1>2, <4>1
    <3>2. QED BY <3>1 DEF Dying
  <2>4. SaysAlike(events, events', i) BY <1>1, QueueSame
  <2>5. QED BY <1>1, <2>1, <2>2, <2>3, <2>4, KeptAside
<1>6. QED BY <1>4, <1>5

\* A report that is not late is about the object in the interface store.
LEMMA ReportUpAgree ==
    ASSUME TypeOK, TypeOK', NEW o \in reporting \union snooped, ReportUp(o),
           NEW i \in Ifaces, Agree(i), i \notin overtaken'
    PROVE  Agree(i)'
<1>1. /\ \A u : u # o /\ Unreported(u) => Unreported(u)'
      /\ ifaceUp' = ifaceUp \union {o}
      /\ events' = Append(events, [type |-> "INTERFACE_UP", object |-> o])
      /\ stored[o[1]] # o[2] => o[1] \in overtaken'
      /\ UNCHANGED <<found, stored, dying, tasks, nodes>>
  BY DEF ReportUp, Unreported
<1>2. o \in Handles /\ o[1] \in Ifaces /\ o[2] \in 1..MaxAdds /\ o = <<o[1], o[2]>> BY ObjectKinds DEF TypeOK
<1>3. PICK e : e = [type |-> "INTERFACE_UP", object |-> o] OBVIOUS
<1>4. e.type = "INTERFACE_UP" /\ e.object = o /\ events' = Append(events, e) BY <1>1, <1>3
<1>5. events \in Seq(EventsOver(found')) BY <1>1 DEF TypeOK
<1>6. CASE o[1] = i
  <2>1. stored[i] = o[2] /\ Obj(i) = o /\ Obj(i)' = o /\ stored[i] # 0 BY <1>1, <1>2, <1>6 DEF Obj
  <2>2. StoredUp(i)' BY <1>1, <2>1 DEF StoredUp
  <2>3. e \in EventsOver(found') BY <1>2, <1>3, <1>1 DEF EventsOver, InterfaceEvents, TypeOK
  <2>4. IsUp(e, i) BY <1>4, <1>6 DEF IsUp
  <2>5. /\ UpLast(events', o) /\ (NoDown(events', i) <=> NoDown(events, i))
        /\ \A k : Early(events, <<i, k>>) => Early(events', <<i, k>>)
    BY <1>4, <1>5, <2>3, <2>4, QueuePut
  <2>6. Apart(i)' BY <1>1, <1>2, <1>6, <2>1, <2>5 DEF Apart, Agree
  <2>7. There(i)' BY <2>1, <2>5 DEF There
  <2>8. Gone(i)' BY <1>1, <2>1 DEF Gone
  <2>9. QED BY <2>2, <2>6, <2>7, <2>8 DEF Agree
<1>7. CASE o[1] # i
  <2>1. \A k : <<i, k>> # o BY <1>7
  <2>2. \A k : <<i, k>> \in ifaceUp' <=> <<i, k>> \in ifaceUp BY <1>1, <2>1
  <2>3. \A n \in NodesOver(found) : i \in UpIn(n, ifaceUp') <=> i \in UpIn(n, ifaceUp) BY <2>2 DEF UpIn
  <2>4. \A k : Unreported(<<i, k>>) => Unreported(<<i, k>>)' BY <1>1, <2>1
  <2>5. Dying(i) => Dying(i)' BY <1>1 DEF Dying
  <2>6. ~IsUp(e, i) /\ ~IsDown(e, i) /\ e.type # "RETRIEVED" BY <1>4, <1>7 DEF IsUp, IsDown
  <2>7. /\ SaysAlike(events, events', i)
        /\ Sure(events, Obj(i), Ids(nodes), ifaceUp) => Sure(events', Obj(i), Ids(nodes), ifaceUp)
    BY <1>4, <1>5, <2>6, PutAside
  <2>8. QED BY <1>1, <2>2, <2>3, <2>4, <2>5, <2>7, KeptAside
<1>8. QED BY <1>6, <1>7

\* A loss that is not late is about an interface that is not in the store.
LEMMA report_deadAgree ==
    ASSUME TypeOK, TypeOK', NEW o \in Objects, report_dead(o), NEW i \in Ifaces, Agree(i), i \notin overtaken'
    PROVE  Agree(i)'
<1>1. /\ dying' = [dying EXCEPT ![o] = @ - 1]
      /\ \A u : u # o => (u \in ifaceUp' <=> u \in ifaceUp)
      /\ events' = Append(events, [type |-> "INTERFACE_DOWN", object |-> o])
      /\ stored[o[1]] # 0 => o[1] \in overtaken'
      /\ UNCHANGED <<found, stored, reporting, snooped, tasks, nodes>>
  BY DEF report_dead
<1>2. o \in Handles /\ o[1] \in Ifaces /\ o \in ObjectsOver(found) BY ObjectKinds DEF Objects, ObjectsOver
<1>3. PICK e : e = [type |-> "INTERFACE_DOWN", object |-> o] OBVIOUS
<1>4. e.type = "INTERFACE_DOWN" /\ e.object = o /\ events' = Append(events, e) BY <1>1, <1>3
<1>5. events \in Seq(EventsOver(found')) BY <1>1 DEF TypeOK
<1>6. CASE o[1] = i
  <2>1. stored'[i] = 0 BY <1>1, <1>6
  <2>2. e \in EventsOver(found') BY <1>1, <1>2, <1>3 DEF EventsOver, InterfaceEvents
  <2>3. IsDown(e, i) BY <1>4, <1>6 DEF IsDown
  <2>4. DownLast(events', i) BY <1>4, <1>5, <2>2, <2>3, QueuePut
  <2>5. QED BY <2>1, <2>4 DEF Agree, StoredUp, Apart, There, Gone
<1>7. CASE o[1] # i
  <2>1. \A k : <<i, k>> # o BY <1>7
  <2>2. \A k : <<i, k>> \in ifaceUp' <=> <<i, k>> \in ifaceUp BY <1>1, <2>1
  <2>3. \A n \in NodesOver(found) : i \in UpIn(n, ifaceUp') <=> i \in UpIn(n, ifaceUp) BY <2>2 DEF UpIn
  <2>4. \A k : Unreported(<<i, k>>) => Unreported(<<i, k>>)' BY <1>1 DEF Unreported
  <2>5. Dying(i) => Dying(i)'
    <3>1. dying \in [Handles -> Nat] BY DEF TypeOK
    <3>2. \A k \in 1..MaxAdds : <<i, k>> \in Handles BY ObjectKinds
    <3>3. \A k \in 1..MaxAdds : dying'[<<i, k>>] = dying[<<i, k>>] BY <1>1, <2>1, <3>1, <3>2
    <3>4. QED BY <3>3 DEF Dying
  <2>6. ~IsUp(e, i) /\ ~IsDown(e, i) /\ e.type # "RETRIEVED" BY <1>4, <1>7 DEF IsUp, IsDown
  <2>7. /\ SaysAlike(events, events', i)
        /\ Sure(events, Obj(i), Ids(nodes), ifaceUp) => Sure(events', Obj(i), Ids(nodes), ifaceUp)
    BY <1>4, <1>5, <2>6, PutAside
  <2>8. QED BY <1>1, <2>2, <2>3, <2>4, <2>5, <2>7, KeptAside
<1>8. QED BY <1>6, <1>7

\* A data object that arrives changes nothing before it is handled.
LEMMA ArriveAgree ==
    ASSUME TypeOK, TypeOK', NEW j \in Ifaces, NEW t, Arrive(j, t), NEW i \in Ifaces, Agree(i)
    PROVE  Agree(i)'
<1>1. PICK k \in 1..MaxAdds :
        /\ \/ <<j, k>> \in Objects /\ UNCHANGED <<found, ifaceUp>>
           \/ k = found[j] + 1 /\ Create(j) /\ ifaceUp' = ifaceUp \union {<<j, k>>}
        /\ events' = Append(events, [type |-> "INCOMING", object |-> <<j, k>>, time |-> t])
  BY DEF Arrive
<1>2. UNCHANGED <<stored, reporting, snooped, dying, tasks, nodes>> BY DEF Arrive
<1>3. PICK e : e = [type |-> "INCOMING", object |-> <<j, k>>, time |-> t] OBVIOUS
<1>4. e.type = "INCOMING" /\ events' = Append(events, e) BY <1>1, <1>3
<1>5. /\ events \in Seq(EventsOver(found')) /\ \A c : <<i, c>> \in ifaceUp => <<i, c>> \in ifaceUp'
      /\ \A n \in NodesOver(found) : i \in UpIn(n, ifaceUp') <=> i \in UpIn(n, ifaceUp)
  <2>0. found \in [Ifaces -> 0..MaxAdds] /\ events \in Seq(EventsOver(found)) BY DEF TypeOK
  <2>1. CASE UNCHANGED <<found, ifaceUp>> BY <2>0, <2>1
  <2>2. CASE k = found[j] + 1 /\ Create(j) /\ ifaceUp' = ifaceUp \union {<<j, k>>}
    <3>1. found' \in [Ifaces -> 0..MaxAdds] /\ \A c \in Ifaces : found[c] <= found'[c]
      <4>1. found' = [found EXCEPT ![j] = found[j] + 1] BY <2>2 DEF Create
      <4>2. found' \in [Ifaces -> 0..MaxAdds] BY DEF TypeOK
      <4>3. ASSUME NEW c \in Ifaces PROVE found[c] <= found'[c]
        <5>1. found[c] \in Nat /\ found[j] \in Nat BY <2>0
        <5>2. CASE c = j BY <2>0, <4>1, <5>1, <5>2
        <5>3. CASE c # j BY <2>0, <4>1, <5>1, <5>3
        <5>4. QED BY <5>2, <5>3
      <4>4. QED BY <4>2, <4>3
    <3>2. events \in Seq(EventsOver(found')) BY <2>0, <3>1, Grows
    <3>3. k \in Nat /\ k > found[j] BY <2>0, <2>2
    <3>4. \A n \in NodesOver(found) : n.object[j] # k BY <3>3, NewObject
    <3>5. ASSUME NEW n \in NodesOver(found) PROVE i \in UpIn(n, ifaceUp') <=> i \in UpIn(n, ifaceUp)
      <4>1. <<i, n.object[i]>> # <<j, k>> BY <3>4
      <4>2. <<i, n.object[i]>> \in ifaceUp' <=> <<i, n.object[i]>> \in ifaceUp BY <2>2, <4>1
      <4>3. QED BY <4>2 DEF UpIn
    <3>6. QED BY <2>2, <3>2, <3>5
  <2>3. QED BY <1>1, <2>1, <2>2
<1>6. \A c : Unreported(<<i, c>>) => Unreported(<<i, c>>)' BY <1>2 DEF Unreported
<1>7. Dying(i) => Dying(i)' BY <1>2 DEF Dying
<1>8. ~IsUp(e, i) /\ ~IsDown(e, i) /\ e.type # "RETRIEVED" BY <1>4 DEF IsUp, IsDown
<1>9. /\ SaysAlike(events, events', i)
      /\ Sure(events, Obj(i), Ids(nodes), ifaceUp) => Sure(events', Obj(i), Ids(nodes), ifaceUp)
  BY <1>4, <1>5, <1>8, PutAside
<1>10. QED BY <1>2, <1>5, <1>6, <1>7, <1>9, KeptAside

\* An event about something else is taken off the queue.
LEMMA TakeAside ==
    ASSUME TypeOK, events # <<>>, events' = Tail(events), NEW i,
           ~IsUp(Head(events), i), ~IsDown(Head(events), i), Head(events).type # "RETRIEVED"
    PROVE  /\ SaysAlike(events, events', i)
           /\ \A o, ids, flags : Sure(events, o, ids, flags) => Sure(events', o, ids, flags)
<1>1. \A k : ~IsAnswer(Head(events), <<i, k>>) BY DEF IsAnswer
<1>2. SaysAlike(events, events', i) BY <1>1, QueueTake DEF TypeOK
<1>3. ASSUME NEW o, NEW ids, NEW flags, Sure(events, o, ids, flags) PROVE Sure(events', o, ids, flags)
  <2>1. ~IsAnswer(Head(events), o) BY DEF IsAnswer
  <2>2. QED BY <1>3, <2>1, SureTake DEF TypeOK
<1>4. QED BY <1>2, <1>3

\* Nobody shares an interface object that is not in use.
LEMMA NotInUse ==
    ASSUME TypeOK, NEW o \in ObjectsOver(found), ~InUse(o)
    PROVE  /\ \A n \in nodes : ~Shares(n, o)
           /\ Early(events, o)
<1>1. o[1] \in Ifaces /\ o[2] \in 1..MaxAdds /\ o = <<o[1], o[2]>> BY ObjectKinds
<1>2. ASSUME NEW n \in nodes PROVE ~Shares(n, o)
  <2>1. n \in NodesOver(found) /\ n.ifaces \in SUBSET Ifaces BY NodeFields DEF TypeOK
  <2>2. o \notin Shared(n, n.ifaces) BY DEF InUse
  <2>3. Shares(n, o) => o \in Shared(n, n.ifaces)
    <3>1. <<o[1], o[2]>> \in Shared(n, n.ifaces) <=> o[1] \in n.ifaces /\ o[2] # 0 /\ n.object[o[1]] = o[2]
      BY <2>1, MarkedType
    <3>2. QED BY <1>1, <3>1 DEF Shares
  <2>4. QED BY <2>2, <2>3
<1>3. ASSUME NEW q \in DOMAIN events, events[q].type = "RETRIEVED"
      PROVE  events[q].object # o /\ ~Shares(events[q].node, o)
  <2>1. events[q].object # o BY <1>3 DEF InUse
  <2>2. events[q].node = NoNode \/ o \notin Shared(events[q].node, Ifaces) BY <1>3 DEF InUse
  <2>3. events[q].node \in DescribedOver(found) \union {NoNode}
    <3>1. events[q] \in EventsOver(found) BY DEF TypeOK
    <3>2. QED BY <1>3, <3>1, EventKinds
  <2>4. CASE events[q].node = NoNode BY <2>1, <2>4 DEF Shares
  <2>5. CASE events[q].node \in DescribedOver(found) /\ o \notin Shared(events[q].node, Ifaces)
    <3>1. <<o[1], o[2]>> \in Shared(events[q].node, Ifaces) <=> o[1] \in Ifaces /\ o[2] # 0 /\ events[q].node.object[o[1]] = o[2]
      BY <2>5, MarkedType DEF DescribedOver
    <3>2. QED BY <1>1, <2>1, <2>5, <3>1 DEF Shares
  <2>6. QED BY <2>2, <2>3, <2>4, <2>5
<1>4. QED BY <1>2, <1>3 DEF Early

\* The interface of a data object comes into the store with an object nobody uses, or
\* is there already.
LEMMA onIncomingAgree ==
    ASSUME TypeOK, TypeOK', onIncomingDataObject, NEW i \in Ifaces, Agree(i), i \notin overtaken'
    PROVE  Agree(i)'
<1>1. PICK o : o = Head(events).object OBVIOUS
<1>2. /\ snooped = {} /\ events # <<>> /\ Head(events).type = "INCOMING"
      /\ ifaceUp' = ifaceUp \union {o}
      /\ \/ stored[o[1]] # 0 /\ UNCHANGED <<stored, snooped>>
         \/ /\ stored[o[1]] = 0
            /\ stored' = [stored EXCEPT ![o[1]] = o[2]] /\ snooped' = {o}
      /\ stored[o[1]] # o[2] /\ InUse(o) => o[1] \in overtaken'
      /\ events' = Tail(events)
      /\ UNCHANGED <<found, reporting, dying, tasks, nodes>>
  BY <1>1 DEF onIncomingDataObject, Handle
<1>3. o \in ObjectsOver(found)
  <2>1. Head(events) \in EventsOver(found) BY <1>2 DEF TypeOK
  <2>2. QED BY <1>1, <1>2, <2>1, EventKinds
<1>4. o[1] \in Ifaces /\ o[2] \in 1..MaxAdds /\ o = <<o[1], o[2]>> BY <1>3, ObjectKinds
<1>5. ~IsUp(Head(events), i) /\ ~IsDown(Head(events), i) /\ Head(events).type # "RETRIEVED" BY <1>2 DEF IsUp, IsDown
<1>6. /\ SaysAlike(events, events', i)
      /\ \A u, ids, flags : Sure(events, u, ids, flags) => Sure(events', u, ids, flags)
  BY <1>2, <1>5, TakeAside
<1>7. \A k : Unreported(<<i, k>>) => Unreported(<<i, k>>)' BY <1>2 DEF Unreported
<1>8. Dying(i) => Dying(i)' BY <1>2 DEF Dying
<1>9. stored \in [Ifaces -> 0..MaxAdds] BY DEF TypeOK
<1>10. CASE o[1] # i
  <2>1. stored'[i] = stored[i] BY <1>2, <1>9, <1>10
  <2>2. \A k : <<i, k>> # o BY <1>10
  <2>3. \A k : <<i, k>> \in ifaceUp' <=> <<i, k>> \in ifaceUp BY <1>2, <2>2
  <2>4. \A n \in NodesOver(found) : i \in UpIn(n, ifaceUp') <=> i \in UpIn(n, ifaceUp) BY <2>3 DEF UpIn
  <2>5. QED BY <1>2, <1>6, <1>7, <1>8, <2>1, <2>3, <2>4, KeptAside
<1>11. CASE o[1] = i /\ stored[i] = o[2]
  <2>1. stored[i] # 0 /\ stored'[i] = stored[i] BY <1>2, <1>4, <1>9, <1>11
  <2>2. o \in ifaceUp BY <1>4, <1>11, <2>1 DEF Agree, StoredUp, Obj
  <2>3. ifaceUp' = ifaceUp BY <1>2, <2>2
  <2>4. QED BY <1>2, <1>6, <1>7, <1>8, <2>1, <2>3, KeptAside
<1>12. CASE o[1] = i /\ stored[i] # o[2]
  <2>1. ~InUse(o) BY <1>2, <1>12
  <2>2. (\A n \in nodes : ~Shares(n, o)) /\ Early(events, o) BY <1>3, <2>1, NotInUse
  <2>3. CASE stored[i] = 0
    <3>1. stored'[i] = o[2] /\ Obj(i)' = o /\ stored'[i] # 0 /\ snooped' = {o} BY <1>2, <1>4, <1>9, <1>12, <2>3 DEF Obj
    <3>2. StoredUp(i)' BY <1>2, <3>1 DEF StoredUp
    <3>3. Early(events', o) BY <1>4, <1>6, <1>12, <2>2 DEF SaysAlike
    <3>4. Apart(i)' BY <1>2, <2>2, <3>1, <3>3 DEF Apart
    <3>5. There(i)' BY <3>1 DEF There, Unreported
    <3>6. Gone(i)' BY <3>1 DEF Gone
    <3>7. QED BY <3>2, <3>4, <3>5, <3>6 DEF Agree
  <2>4. CASE stored[i] # 0
    <3>1. stored'[i] = stored[i] BY <1>2, <1>12, <2>4
    <3>2. ASSUME NEW n \in nodes PROVE i \in UpIn(n, ifaceUp') <=> i \in UpIn(n, ifaceUp)
      <4>1. i \in n.ifaces => <<i, n.object[i]>> # o
        <5>1. n # NoNode BY NodeFields DEF TypeOK
        <5>2. QED BY <1>4, <1>12, <2>2, <5>1 DEF Shares
      <4>2. QED BY <1>2, <4>1 DEF UpIn
    <3>3. UpAmong(nodes', ifaceUp', i) <=> UpAmong(nodes, ifaceUp, i) BY <1>2, <3>2 DEF UpAmong
    <3>4. Sure(events', Obj(i), Ids(nodes), ifaceUp) => Sure(events', Obj(i), Ids(nodes'), ifaceUp')
      <4>1. events' \in Seq(EventsOver(found')) BY DEF TypeOK
      <4>2. QED BY <1>2, <4>1, SureLess
    <3>5. QED BY <1>2, <1>6, <1>7, <1>8, <3>1, <3>3, <3>4, Kept
  <2>5. QED BY <2>3, <2>4
<1>13. QED BY <1>10, <1>11, <1>12

\* The announcement of an interface marks it in the neighbour that has it, or asks the
\* data store.
LEMMA onUpAgree ==
    ASSUME TypeOK, TypeOK', onNeighborInterfaceUp, NEW i \in Ifaces, Agree(i)
    PROVE  Agree(i)'
<1>1. PICK o : o = Head(events).object OBVIOUS
<1>2. /\ events # <<>> /\ Head(events).type = "INTERFACE_UP" /\ events' = Tail(events)
      /\ UNCHANGED <<found, stored, reporting, snooped, dying>>
      /\ \/ /\ tasks' = Append(tasks, [type |-> "RETRIEVE", object |-> o])
            /\ UNCHANGED <<nodes, ifaceUp>>
         \/ \E n \in nodes :
              /\ o[1] \in n.ifaces
              /\ nodes' = (nodes \ {n}) \union {Marked(n, {o[1]})}
              /\ ifaceUp' = ifaceUp \union Shared(n, {o[1]})
              /\ UNCHANGED tasks
  BY <1>1 DEF onNeighborInterfaceUp, Handle
<1>3. o \in ObjectsOver(found)
  <2>1. Head(events) \in EventsOver(found) BY <1>2 DEF TypeOK
  <2>2. QED BY <1>1, <1>2, <2>1, EventKinds
<1>4. o[1] \in Ifaces /\ o[2] \in 1..MaxAdds /\ o = <<o[1], o[2]>> /\ {o[1]} \in SUBSET Ifaces BY <1>3, ObjectKinds
<1>5. Head(events).type # "RETRIEVED" /\ ~IsDown(Head(events), i) /\ (IsUp(Head(events), i) <=> o[1] = i)
  BY <1>1, <1>2 DEF IsUp, IsDown
<1>6. \A k : Unreported(<<i, k>>) <=> Unreported(<<i, k>>)' BY <1>2 DEF Unreported
<1>7. Dying(i) => Dying(i)' BY <1>2 DEF Dying
<1>8. [type |-> "RETRIEVE", object |-> o] \in TasksOver(found) BY <1>3 DEF TasksOver, RetrieveTasks
<1>9. /\ \A k : Asked(tasks, <<i, k>>) => Asked(tasks', <<i, k>>)
      /\ tasks' = Append(tasks, [type |-> "RETRIEVE", object |-> o]) => Asked(tasks', o)
  <2>1. PICK e : e = [type |-> "RETRIEVE", object |-> o] OBVIOUS
  <2>2. e \in TasksOver(found) /\ e.type = "RETRIEVE" /\ e.object = o BY <1>8, <2>1
  <2>3. tasks \in Seq(TasksOver(found)) BY DEF TypeOK
  <2>4. tasks' = tasks \/ tasks' = Append(tasks, e) BY <1>2, <2>1
  <2>5. \A u : Asked(tasks, u) => Asked(Append(tasks, e), u) BY <2>2, <2>3, AskedQueue
  <2>6. Asked(Append(tasks, e), o) BY <2>2, <2>3, AskedQueue
  <2>7. QED BY <2>1, <2>4, <2>5, <2>6
<1>10. ASSUME NEW n \in nodes,
              nodes' = (nodes \ {n}) \union {Marked(n, {o[1]})}, ifaceUp' = ifaceUp \union Shared(n, {o[1]})
       PROVE  /\ n \in NodesOver(found) /\ Marked(n, {o[1]}) \in NodesOver(found)
              /\ Marked(n, {o[1]}).id = n.id /\ Marked(n, {o[1]}).ifaces = n.ifaces
              /\ Marked(n, {o[1]}).object = n.object
              /\ Marked(n, {o[1]}).up = n.up \union {j \in {o[1]} : n.object[j] = 0}
              /\ \A c, k : <<c, k>> \in Shared(n, {o[1]}) <=> c \in {o[1]} /\ k # 0 /\ n.object[c] = k
              /\ n # NoNode /\ Marked(n, {o[1]}) # NoNode
              /\ \A u : (\E m \in nodes' : Shares(m, u)) => \E m \in nodes : Shares(m, u)
              /\ ifaceUp \subseteq ifaceUp'
  <2>1. n \in NodesOver(found) BY DEF TypeOK
  <2>2. /\ Marked(n, {o[1]}) \in NodesOver(found) /\ Marked(n, {o[1]}).id = n.id /\ Marked(n, {o[1]}).ifaces = n.ifaces
        /\ Marked(n, {o[1]}).object = n.object
        /\ Marked(n, {o[1]}).up = n.up \union {j \in {o[1]} : n.object[j] = 0}
        /\ \A c, k : <<c, k>> \in Shared(n, {o[1]}) <=> c \in {o[1]} /\ k # 0 /\ n.object[c] = k
    BY <1>4, <2>1, MarkedType
  <2>3. n # NoNode /\ Marked(n, {o[1]}) # NoNode BY <2>1, <2>2, NodeFields
  <2>4. \A u : Shares(Marked(n, {o[1]}), u) => Shares(n, u) BY <2>2, <2>3 DEF Shares
  <2>5. \A u : (\E m \in nodes' : Shares(m, u)) => \E m \in nodes : Shares(m, u) BY <1>10, <2>4
  <2>6. ifaceUp \subseteq ifaceUp' BY <1>10
  <2>7. QED BY <2>1, <2>2, <2>3, <2>5, <2>6
<1>11. CASE o[1] # i
  <2>1. /\ SaysAlike(events, events', i)
        /\ \A u, ids, flags : Sure(events, u, ids, flags) => Sure(events', u, ids, flags)
    BY <1>2, <1>5, <1>11, TakeAside
  <2>2. CASE UNCHANGED <<nodes, ifaceUp>> BY <1>2, <1>6, <1>7, <1>9, <2>1, <2>2, KeptAside
  <2>3. ASSUME NEW n \in nodes,
               nodes' = (nodes \ {n}) \union {Marked(n, {o[1]})}, ifaceUp' = ifaceUp \union Shared(n, {o[1]})
        PROVE  Agree(i)'
    <3>1. PICK l : l = Marked(n, {o[1]}) OBVIOUS
    <3>2. l.id = n.id /\ l.ifaces = n.ifaces /\ l.object = n.object /\ l # NoNode /\ n # NoNode
      BY <1>10, <2>3, <3>1
    <3>3. i \in l.up <=> i \in n.up BY <1>10, <1>11, <2>3, <3>1
    <3>4. \A k : <<i, k>> \in ifaceUp <=> <<i, k>> \in ifaceUp' BY <1>10, <1>11, <2>3
    <3>5. nodes' = (nodes \ {n}) \union {l} BY <2>3, <3>1
    <3>6. /\ UpAmong(nodes', ifaceUp', i) <=> UpAmong(nodes, ifaceUp, i)
          /\ \A u : (\E m \in nodes' : Shares(m, u)) => \E m \in nodes : Shares(m, u)
          /\ Ids(nodes') \subseteq Ids(nodes)
      BY <3>2, <3>3, <3>4, <3>5, UpElsewhere
    <3>7. Sure(events', Obj(i), Ids(nodes), ifaceUp) => Sure(events', Obj(i), Ids(nodes'), ifaceUp')
      <4>1. events' \in Seq(EventsOver(found')) /\ Obj(i)[1] = i BY DEF TypeOK, Obj
      <4>2. Ids(nodes') \subseteq Ids(nodes) \union {0} BY <3>6
      <4>3. QED BY <3>4, <4>1, <4>2, SureLess
    <3>8. Obj(i) \in ifaceUp => Obj(i) \in ifaceUp' BY <3>4 DEF Obj
    <3>9. QED BY <1>2, <1>6, <1>7, <1>9, <2>1, <3>6, <3>7, <3>8, Kept
  <2>4. QED BY <1>2, <2>2, <2>3
<1>12. CASE o[1] = i
  <2>0. Obj(i)' = Obj(i) /\ Obj(i) = <<i, stored[i]>> /\ stored'[i] = stored[i] BY <1>2 DEF Obj
  <2>1. \A k : /\ UpLast(events, <<i, k>>) => UpLast(events', <<i, k>>) \/ (o = <<i, k>> /\ NoDown(events', i))
               /\ Answered(events, <<i, k>>) => Answered(events', <<i, k>>)
               /\ Early(events, <<i, k>>) => Early(events', <<i, k>>)
    <3>1. \A k : ~IsAnswer(Head(events), <<i, k>>) BY <1>5 DEF IsAnswer
    <3>2. events \in Seq(EventsOver(found)) /\ events # <<>> /\ events' = Tail(events) BY <1>2 DEF TypeOK
    <3>3. PICK h : h = Head(events) OBVIOUS
    <3>4. ASSUME NEW k, UpLast(events, <<i, k>>)
          PROVE  UpLast(events', <<i, k>>) \/ (h.object = <<i, k>> /\ NoDown(events', i))
      BY <3>2, <3>3, <3>4, TakeUp
    <3>5. \A k : Answered(events, <<i, k>>) => Answered(events', <<i, k>>) \/ IsAnswer(h, <<i, k>>)
      BY <3>2, <3>3, QueueTake
    <3>6. \A k : Early(events, <<i, k>>) => Early(events', <<i, k>>) BY <3>2, <3>3, QueueTake
    <3>7. QED BY <1>1, <3>1, <3>3, <3>4, <3>5, <3>6
  <2>2. /\ NoDown(events, i) <=> NoDown(events', i)
        /\ DownLast(events, i) => DownLast(events', i)
        /\ ~NoUp(events, i)
    <3>1. events \in Seq(EventsOver(found)) /\ events # <<>> /\ events' = Tail(events) BY <1>2 DEF TypeOK
    <3>2. PICK h : h = Head(events) OBVIOUS
    <3>3. /\ NoUp(events, i) => ~IsUp(h, i)
          /\ NoDown(events, i) => NoDown(events', i)
          /\ NoDown(events', i) /\ ~IsDown(h, i) => NoDown(events, i)
          /\ DownLast(events, i) => DownLast(events', i) \/ IsDown(h, i)
      BY <3>1, <3>2, QueueTake
    <3>4. QED BY <1>5, <1>12, <3>2, <3>3
  <2>3. ifaceUp \subseteq ifaceUp' BY <1>2
  <2>4. \A u : (\E m \in nodes' : Shares(m, u)) => \E m \in nodes : Shares(m, u) BY <1>2, <1>10
  <2>5. StoredUp(i)' BY <2>0, <2>3 DEF StoredUp, Agree
  <2>6. Apart(i)' BY <2>0, <2>1, <2>2, <2>4 DEF Apart, Agree
  <2>7. Doomed(i) => Doomed(i)' BY <1>6, <1>9, <2>0, <2>1 DEF Doomed
  <2>8. CASE tasks' = Append(tasks, [type |-> "RETRIEVE", object |-> o]) /\ UNCHANGED <<nodes, ifaceUp>>
    <3>1. Asked(tasks', o) BY <1>9, <2>8
    <3>2. CASE o[2] # stored[i]
      <4>1. Doomed(i)' BY <1>4, <1>12, <2>0, <3>1, <3>2 DEF Doomed
      <4>2. QED BY <2>5, <2>6, <4>1 DEF Agree
    <3>3. CASE o[2] = stored[i]
      <4>1. o = Obj(i) /\ stored[i] # 0 BY <1>4, <1>12, <3>3 DEF Obj
      <4>2. There(i) => There(i)' BY <1>6, <2>0, <2>1, <2>2, <3>1, <4>1 DEF There
      <4>3. Gone(i)' BY <2>0, <4>1 DEF Gone
      <4>4. QED BY <2>5, <2>6, <2>7, <4>2, <4>3 DEF Agree
    <3>4. QED BY <3>2, <3>3
  <2>9. ASSUME NEW n \in nodes, i \in n.ifaces,
               nodes' = (nodes \ {n}) \union {Marked(n, {o[1]})}, ifaceUp' = ifaceUp \union Shared(n, {o[1]})
        PROVE  Agree(i)'
    <3>1. i \in UpIn(Marked(n, {o[1]}), ifaceUp')
      <4>1. PICK l : l = Marked(n, {o[1]}) OBVIOUS
      <4>2. l.ifaces = n.ifaces /\ l.object = n.object /\ l.up = n.up \union {j \in {i} : n.object[j] = 0}
        BY <1>10, <1>12, <2>9, <4>1
      <4>3. CASE n.object[i] = 0 BY <2>9, <4>1, <4>2, <4>3 DEF UpIn
      <4>4. CASE n.object[i] # 0
        <5>1. <<i, n.object[i]>> \in Shared(n, {o[1]}) BY <1>10, <1>12, <2>9, <4>4
        <5>2. QED BY <2>9, <4>1, <4>2, <4>4, <5>1 DEF UpIn
      <4>5. QED BY <4>3, <4>4
    <3>2. UpAmong(nodes', ifaceUp', i) BY <2>9, <3>1 DEF UpAmong
    <3>3. There(i) => There(i)' BY <1>6, <2>0, <2>1, <2>2, <3>2 DEF There
    <3>4. Gone(i) => Gone(i)' BY <1>7, <2>0, <2>2 DEF Gone
    <3>5. QED BY <2>5, <2>6, <2>7, <3>3, <3>4 DEF Agree
  <2>10. QED BY <1>2, <1>12, <2>8, <2>9
<1>13. QED BY <1>11, <1>12

\* What is up after update is what was up, and what is up in the node that is added.
LEMMA UpdateUp ==
    ASSUME TypeOK, NEW n \in NodesOver(found), nodes' = update(n), ifaceUp' = updateFlags(n),
           NEW i \in Ifaces, \A m \in Replaced(n) : i \in m.ifaces => i \in n.ifaces
    PROVE  /\ UpAmong(nodes', ifaceUp', i) <=> UpAmong(nodes, ifaceUp, i) \/ i \in UpIn(n, ifaceUp)
           /\ \A o : (\E m \in nodes' : Shares(m, o)) => Shares(n, o) \/ \E m \in nodes : Shares(m, o)
           /\ Ids(nodes') \subseteq Ids(nodes) \union {n.id}
           /\ ifaceUp \subseteq ifaceUp'
<1>1. PICK is : is = Inherited(n) OBVIOUS
<1>2. PICK l : l = Marked(n, is) OBVIOUS
<1>3. is \in SUBSET n.ifaces /\ is \in SUBSET Ifaces BY <1>1, UpdateType
<1>4. /\ l.id = n.id /\ l.ifaces = n.ifaces /\ l.object = n.object
      /\ l.up = n.up \union {j \in is : n.object[j] = 0} /\ l \in NodesOver(found)
      /\ \A c, k : <<c, k>> \in Shared(n, is) <=> c \in is /\ k # 0 /\ n.object[c] = k
  BY <1>2, <1>3, MarkedType
<1>5. nodes' = (nodes \ Replaced(n)) \union {l} /\ ifaceUp' = ifaceUp \union Shared(n, is)
  BY <1>1, <1>2 DEF update, updateFlags
<1>6. i \in is <=> i \in n.ifaces /\ \E m \in Replaced(n) : i \in UpIn(m, ifaceUp)
  BY <1>1 DEF Inherited
<1>7. i \in is => UpAmong(nodes, ifaceUp, i) BY <1>6 DEF UpAmong, Replaced
<1>8. \A m : i \in UpIn(m, ifaceUp) => i \in UpIn(m, ifaceUp') BY <1>5 DEF UpIn
<1>9. i \in is \/ i \in UpIn(n, ifaceUp) <=> i \in UpIn(l, ifaceUp')
  <2>1. i \in is => i \in UpIn(l, ifaceUp')
    <3> SUFFICES ASSUME i \in is PROVE i \in UpIn(l, ifaceUp') OBVIOUS
    <3>1. CASE n.object[i] = 0 BY <1>3, <1>4, <3>1 DEF UpIn
    <3>2. CASE n.object[i] # 0
      <4>1. <<i, n.object[i]>> \in ifaceUp' BY <1>4, <1>5, <3>2
      <4>2. QED BY <1>3, <1>4, <3>2, <4>1 DEF UpIn
    <3>3. QED BY <3>1, <3>2
  <2>2. i \in UpIn(n, ifaceUp) => i \in UpIn(l, ifaceUp') BY <1>4, <1>5 DEF UpIn
  <2>3. ASSUME i \in UpIn(l, ifaceUp'), i \notin is PROVE i \in UpIn(n, ifaceUp)
    <3>1. i \in n.ifaces /\ IF n.object[i] = 0 THEN i \in l.up ELSE <<i, n.object[i]>> \in ifaceUp'
      BY <1>4, <2>3 DEF UpIn
    <3>2. n.object[i] = 0 => i \in n.up BY <1>4, <2>3, <3>1
    <3>3. n.object[i] # 0 => <<i, n.object[i]>> \in ifaceUp BY <1>4, <1>5, <2>3, <3>1
    <3>4. QED BY <3>1, <3>2, <3>3 DEF UpIn
  <2>4. QED BY <2>1, <2>2, <2>3
<1>10. UpAmong(nodes, ifaceUp, i) => UpAmong(nodes', ifaceUp', i)
  <2> SUFFICES ASSUME NEW m \in nodes, i \in UpIn(m, ifaceUp) PROVE UpAmong(nodes', ifaceUp', i) BY DEF UpAmong
  <2>1. CASE m \notin Replaced(n) BY <1>5, <1>8, <2>1 DEF UpAmong
  <2>2. CASE m \in Replaced(n)
    <3>1. i \in m.ifaces BY DEF UpIn
    <3>2. i \in is BY <1>6, <2>2, <3>1
    <3>3. QED BY <1>5, <1>9, <3>2 DEF UpAmong
  <2>3. QED BY <2>1, <2>2
<1>11. i \in UpIn(n, ifaceUp) => UpAmong(nodes', ifaceUp', i) BY <1>5, <1>9 DEF UpAmong
<1>12. ASSUME NEW m \in nodes', i \in UpIn(m, ifaceUp') PROVE UpAmong(nodes, ifaceUp, i) \/ i \in UpIn(n, ifaceUp)
  <2>1. CASE m = l BY <1>7, <1>9, <1>12, <2>1
  <2>2. CASE m # l
    <3>1. m \in nodes BY <1>5, <2>2
    <3>2. CASE i \in UpIn(m, ifaceUp) BY <3>1, <3>2 DEF UpAmong
    <3>3. CASE i \notin UpIn(m, ifaceUp)
      <4>1. <<i, m.object[i]>> \in ifaceUp' /\ <<i, m.object[i]>> \notin ifaceUp BY <1>12, <3>3 DEF UpIn
      <4>2. i \in is BY <1>4, <1>5, <4>1
      <4>3. QED BY <1>7, <4>2
    <3>4. QED BY <3>2, <3>3
  <2>3. QED BY <2>1, <2>2
<1>13. \A o : Shares(l, o) => Shares(n, o)
  <2>1. n # NoNode BY NodeFields
  <2>2. QED BY <1>4, <2>1 DEF Shares
<1>14. \A o : (\E m \in nodes' : Shares(m, o)) => Shares(n, o) \/ \E m \in nodes : Shares(m, o) BY <1>5, <1>13
<1>15. Ids(nodes') \subseteq Ids(nodes) \union {n.id} BY <1>4, <1>5 DEF Ids
<1>16. UpAmong(nodes', ifaceUp', i) => UpAmong(nodes, ifaceUp, i) \/ i \in UpIn(n, ifaceUp) BY <1>12 DEF UpAmong
<1>17. QED BY <1>5, <1>10, <1>11, <1>14, <1>15, <1>16

\* A node takes the place of others: what the interface store has must agree with what
\* is up in it.
LEMMA UpdateAgree ==
    ASSUME TypeOK, TypeOK', NEW i \in Ifaces, Agree(i),
           NEW n \in NodesOver(found), nodes' = update(n), ifaceUp' = updateFlags(n),
           \A m \in Replaced(n) : i \in m.ifaces => i \in n.ifaces,
           events # <<>>, NEW gone \in SUBSET nodes, events' = Part(Tail(events), gone),
           ~IsUp(Head(events), i), ~IsDown(Head(events), i),
           \A k : IsAnswer(Head(events), <<i, k>>) => k = stored[i],
           i \in UpIn(n, ifaceUp) => stored[i] # 0,
           stored[i] # 0 /\ ~NoDown(Tail(events), i) /\ Early(events, Obj(i)) /\ (\A m \in nodes : ~Shares(m, Obj(i)))
             => ~Shares(n, Obj(i)),
           stored[i] # 0 /\ Sure(events, Obj(i), Ids(nodes), ifaceUp) =>
             Sure(events', Obj(i), Ids(nodes'), ifaceUp') \/ i \in UpIn(n, ifaceUp),
           UNCHANGED <<stored, reporting, snooped, dying>>,
           \A k : Asked(tasks, <<i, k>>) => Asked(tasks', <<i, k>>)
    PROVE  Agree(i)'
<1>1. Obj(i)' = Obj(i) /\ Obj(i) = <<i, stored[i]>> /\ stored'[i] = stored[i] BY DEF Obj
<1>2. \A k : Unreported(<<i, k>>) <=> Unreported(<<i, k>>)' BY DEF Unreported
<1>3. Dying(i) => Dying(i)' BY DEF Dying
<1>4. /\ UpAmong(nodes', ifaceUp', i) <=> UpAmong(nodes, ifaceUp, i) \/ i \in UpIn(n, ifaceUp)
      /\ \A o : (\E m \in nodes' : Shares(m, o)) => Shares(n, o) \/ \E m \in nodes : Shares(m, o)
      /\ ifaceUp \subseteq ifaceUp'
  BY UpdateUp
<1>5. PICK s : s = Tail(events) OBVIOUS
<1>6. events \in Seq(EventsOver(found)) /\ s \in Seq(EventsOver(found)) BY <1>5 DEF TypeOK
<1>7. /\ NoUp(events, i) => NoUp(s, i)
      /\ NoDown(events, i) <=> NoDown(s, i)
      /\ DownLast(events, i) => DownLast(s, i)
  <2>1. PICK h : h = Head(events) OBVIOUS
  <2>2. /\ NoUp(events, i) => NoUp(s, i)
        /\ NoDown(events, i) => NoDown(s, i)
        /\ NoDown(s, i) /\ ~IsDown(h, i) => NoDown(events, i)
        /\ DownLast(events, i) => DownLast(s, i) \/ IsDown(h, i)
    BY <1>5, <1>6, <2>1, QueueTake
  <2>3. QED BY <2>1, <2>2
<1>8. \A k : UpLast(events, <<i, k>>) => UpLast(s, <<i, k>>)
  <2>1. \A k : ~(Head(events).type = "INTERFACE_UP" /\ Head(events).object = <<i, k>>) BY DEF IsUp
  <2>2. QED BY <1>5, <1>6, <2>1, TakeUp
<1>9. \A k : Answered(events, <<i, k>>) => Answered(s, <<i, k>>) \/ k = stored[i]
  <2>1. \A k : Answered(events, <<i, k>>) => Answered(s, <<i, k>>) \/ IsAnswer(Head(events), <<i, k>>)
    BY <1>5, <1>6, QueueTake
  <2>2. QED BY <2>1
<1>10. \A k : Early(events, <<i, k>>) => Early(s, <<i, k>>) BY <1>5, <1>6, QueueTake
<1>11. gone \in SUBSET NodesOver(found) /\ events' = Part(s, gone) BY <1>5 DEF TypeOK
<1>12. /\ NoUp(s, i) => NoUp(events', i)
       /\ NoDown(s, i) <=> NoDown(events', i)
       /\ DownLast(s, i) => DownLast(events', i)
  BY <1>6, <1>11, QueuePart
<1>13. \A k : UpLast(s, <<i, k>>) => UpLast(events', <<i, k>>) BY <1>6, <1>11, QueuePart
<1>14. \A k : Answered(s, <<i, k>>) => Answered(events', <<i, k>>) BY <1>6, <1>11, QueuePart
<1>15. ASSUME Early(s, Obj(i)), \A m \in gone : ~Shares(m, Obj(i)) PROVE Early(events', Obj(i))
  BY <1>1, <1>6, <1>11, <1>15, QueuePart
<1>16. StoredUp(i)' BY <1>1, <1>4 DEF StoredUp, Agree
<1>17. Apart(i)'
  <2> SUFFICES ASSUME stored[i] # 0, ~NoDown(events', i)
               PROVE  (\A m \in nodes' : ~Shares(m, Obj(i))) /\ Early(events', Obj(i))
    BY <1>1 DEF Apart
  <2>1. ~NoDown(s, i) /\ ~NoDown(events, i) BY <1>7, <1>12
  <2>2. (\A m \in nodes : ~Shares(m, Obj(i))) /\ Early(events, Obj(i)) BY <2>1 DEF Agree, Apart
  <2>3. Early(s, Obj(i)) BY <1>1, <1>10, <2>2
  <2>4. ~Shares(n, Obj(i)) BY <1>5, <2>1, <2>2
  <2>5. QED BY <1>4, <1>15, <2>2, <2>3, <2>4
<1>18. Doomed(i) => Doomed(i)' BY <1>1, <1>2, <1>9, <1>14 DEF Doomed
<1>19. There(i) => There(i)'
  <2> SUFFICES ASSUME There(i), stored[i] # 0 PROVE There(i)' BY <1>1 DEF There
  <2>1. CASE Unreported(Obj(i)) BY <1>1, <1>2, <2>1 DEF There
  <2>2. CASE UpLast(events, Obj(i)) BY <1>1, <1>8, <1>13, <2>2 DEF There
  <2>3. CASE NoDown(events, i) /\ Asked(tasks, Obj(i)) BY <1>1, <1>7, <1>12, <2>3 DEF There
  <2>4. CASE NoDown(events, i) /\ Sure(events, Obj(i), Ids(nodes), ifaceUp)
    BY <1>1, <1>4, <1>7, <1>12, <2>4 DEF There
  <2>5. CASE NoDown(events, i) /\ UpAmong(nodes, ifaceUp, i) BY <1>1, <1>4, <1>7, <1>12, <2>5 DEF There
  <2>6. QED BY <2>1, <2>2, <2>3, <2>4, <2>5 DEF There
<1>20. Gone(i) => Gone(i)' BY <1>1, <1>3, <1>4, <1>7, <1>12 DEF Gone
<1>21. QED BY <1>16, <1>17, <1>18, <1>19, <1>20 DEF Agree

\* A sure answer stays sure when an identity is taken that no answer has.
LEMMA SureFresh ==
    ASSUME NEW s, NEW o, NEW ids, NEW flags, Sure(s, o, ids, flags),
           NEW d, \A p \in DOMAIN s : s[p].type = "RETRIEVED" => s[p].node.id # d
    PROVE  Sure(s, o, ids \union {d}, flags)
<1>1. \A p \in DOMAIN s : IsAnswer(s[p], o) => s[p].node.id # d BY DEF IsAnswer
<1>2. QED BY <1>1 DEF Sure

\* An answer that is not late brings the interface up, or finds it as it should be.
LEMMA onRetrieveAgree ==
    ASSUME TypeOK, TypeOK', onRetrieveNode, NEW i \in Ifaces, Agree(i), i \notin overtaken'
    PROVE  Agree(i)'
<1>1. PICK h : h = Head(events) OBVIOUS
<1>2. PICK o : o = h.object OBVIOUS
<1>3. PICK n : n = IF h.node = NoNode THEN Nameless(o) ELSE Current(h.node) OBVIOUS
<1>4. /\ events # <<>> /\ h.type = "RETRIEVED"
      /\ nodes' = update(n) /\ ifaceUp' = updateFlags(n)
      /\ events' = Part(Tail(events), Replaced(n) \ {n})
      /\ overtaken' = overtaken \union Outdated(o, n)
      /\ UNCHANGED <<stored, reporting, snooped, dying, tasks>>
  BY <1>1, <1>2, <1>3 DEF onRetrieveNode, Handle
<1>5. h \in RetrievedEvents(found) /\ o \in ObjectsOver(found) /\ h.node \in DescribedOver(found) \union {NoNode}
  <2>1. h \in EventsOver(found) BY <1>1, <1>4 DEF TypeOK
  <2>2. QED BY <1>2, <1>4, <2>1, EventKinds
<1>nameless. ASSUME h.node = NoNode PROVE n.ifaces = {o[1]} /\ n.object[o[1]] = o[2] /\ n.id = 0
  <2>1. n = Nameless(o) BY <1>3, <1>nameless
  <2>2. found \in [Ifaces -> 0..MaxAdds] BY DEF TypeOK
  <2>3. Nameless(o).ifaces = {o[1]} /\ Nameless(o).object[o[1]] = o[2] /\ Nameless(o).id = 0
    BY <1>5, <2>2, NodeKinds
  <2>4. QED BY <2>1, <2>3
<1>6. n \in NodesOver(found) BY <1>2, <1>3, <1>5, AnswerType
<1>7. o[1] \in Ifaces /\ o[2] \in 1..MaxAdds /\ o = <<o[1], o[2]>> BY <1>5, ObjectKinds
<1>8. /\ o[1] = i => stored[i] = o[2]
      /\ i \in UpIn(n, ifaceUp) => stored[i] # 0
      /\ \A m \in Replaced(n) : m.time > n.time => i \notin m.ifaces
  BY <1>4 DEF Outdated
<1>9. ASSUME NEW m \in Replaced(n), i \in m.ifaces PROVE i \in n.ifaces
  <2>1. CASE n.time # Undefined BY <1>6, <2>1, NodeFields
  <2>2. CASE n.time = Undefined
    <3>1. m \in NodesOver(found) /\ Equal(m, n) BY DEF Replaced, TypeOK
    <3>2. m.time \in Nat /\ n.time = 0 BY <2>2, <3>1, NodeFields DEF Undefined
    <3>3. m.time = 0 BY <1>8, <1>9, <3>2
    <3>4. m.ifaces \intersect n.ifaces # {} BY <2>2, <3>1 DEF Equal
    <3>5. PICK j : m.ifaces = {j} BY <3>1, <3>3, NodeFields DEF Undefined
    <3>6. QED BY <1>9, <3>4, <3>5
  <2>3. QED BY <2>1, <2>2
<1>10. ~IsUp(Head(events), i) /\ ~IsDown(Head(events), i) BY <1>1, <1>4 DEF IsUp, IsDown
<1>11. \A k : IsAnswer(Head(events), <<i, k>>) => k = stored[i] BY <1>1, <1>2, <1>8 DEF IsAnswer
<1>12. ASSUME stored[i] # 0, ~NoDown(Tail(events), i), Early(events, Obj(i)), \A m \in nodes : ~Shares(m, Obj(i))
       PROVE  ~Shares(n, Obj(i))
  <2>1. events \in Seq(EventsOver(found)) /\ Obj(i) = <<i, stored[i]>> BY DEF TypeOK, Obj
  <2>2. o # Obj(i) /\ ~Shares(h.node, Obj(i))
    <3>1. PICK s : s = Tail(events) OBVIOUS
    <3>2. \A k : Early(events, <<i, k>>) =>
            (h.type = "RETRIEVED" /\ ~NoDown(s, i) => h.object # <<i, k>> /\ ~Shares(h.node, <<i, k>>))
      BY <1>1, <1>4, <2>1, <3>1, QueueTake
    <3>3. QED BY <1>2, <1>4, <1>12, <2>1, <3>1, <3>2
  <2>3. CASE h.node = NoNode
    <3>1. n.ifaces = {o[1]} /\ n.object[o[1]] = o[2] BY <1>nameless, <2>3
    <3>2. QED BY <1>7, <2>1, <2>2, <3>1 DEF Shares
  <2>4. CASE h.node # NoNode
    <3>1. n = Current(h.node) BY <1>3, <2>4
    <3>2. QED BY <1>12, <2>2, <3>1, CurrentType
  <2>5. QED BY <2>3, <2>4
<1>13. ASSUME stored[i] # 0, Sure(events, Obj(i), Ids(nodes), ifaceUp)
       PROVE  Sure(events', Obj(i), Ids(nodes'), ifaceUp') \/ i \in UpIn(n, ifaceUp)
  <2>0. Obj(i)[1] = i /\ Obj(i) = <<i, stored[i]>> /\ stored[i] \in 1..MaxAdds BY <1>13 DEF Obj, TypeOK
  <2>1. PICK s : s = Tail(events) OBVIOUS
  <2>2. events \in Seq(EventsOver(found)) /\ s \in Seq(EventsOver(found)) BY <1>4, <2>1 DEF TypeOK
  <2>3. CASE /\ IsAnswer(h, Obj(i))
             /\ h.node = NoNode \/ (h.node # NoNode /\ i \in UpIn(h.node, ifaceUp) /\ h.node.id \notin Ids(nodes))
    <3>1. o = Obj(i) BY <1>2, <2>3 DEF IsAnswer
    <3>2. CASE h.node = NoNode
      <4>1. n.ifaces = {i} /\ n.object[i] = stored[i]
        <5>1. n.ifaces = {o[1]} /\ n.object[o[1]] = o[2] BY <1>nameless, <3>2
        <5>2. QED BY <1>8, <2>0, <3>1, <5>1
      <4>2. <<i, stored[i]>> \in ifaceUp BY <1>13, <2>0 DEF Agree, StoredUp
      <4>3. QED BY <1>13, <4>1, <4>2 DEF UpIn
    <3>3. CASE h.node # NoNode
      <4>1. \A m \in nodes : m.id # h.node.id BY <2>3, <3>3 DEF Ids
      <4>2. n = h.node BY <1>3, <3>3, <4>1, CurrentType
      <4>3. QED BY <2>3, <3>3, <4>2
    <3>4. QED BY <3>2, <3>3
  <2>4. CASE Sure(s, Obj(i), Ids(nodes) \union {h.node.id}, ifaceUp)
    <3>1. PICK gone : gone = Replaced(n) \ {n} OBVIOUS
    <3>2. gone \in SUBSET NodesOver(found) /\ Ids(gone) \subseteq Ids(nodes) \union {h.node.id}
      BY <3>1 DEF Replaced, TypeOK, Ids
    <3>3. events' = Part(s, gone) BY <1>4, <2>1, <3>1
    <3>4. Sure(events', Obj(i), Ids(nodes) \union {h.node.id}, ifaceUp) BY <2>2, <2>4, <3>2, <3>3, SurePart
    <3>5. n.id = 0 \/ n.id = h.node.id
      <4>1. CASE h.node = NoNode BY <1>nameless, <4>1
      <4>2. CASE h.node # NoNode BY <1>3, <4>2, CurrentType
      <4>3. QED BY <4>1, <4>2
    <3>6. Ids(nodes') \subseteq Ids(nodes) \union {n.id} /\ ifaceUp \subseteq ifaceUp'
      BY <1>4, <1>6, <1>9, UpdateUp
    <3>7. Ids(nodes') \subseteq (Ids(nodes) \union {h.node.id}) \union {0} BY <3>5, <3>6
    <3>8. events' \in Seq(EventsOver(found')) /\ \A k : <<Obj(i)[1], k>> \in ifaceUp => <<Obj(i)[1], k>> \in ifaceUp'
      BY <3>6 DEF TypeOK
    <3>9. Sure(events', Obj(i), Ids(nodes'), ifaceUp') BY <3>4, <3>7, <3>8, SureLess
    <3>10. QED BY <3>9
  <2>5. QED BY <1>1, <1>4, <1>13, <2>0, <2>1, <2>2, <2>3, <2>4, SureTake
<1>14. Replaced(n) \ {n} \in SUBSET nodes BY DEF Replaced
<1>15. QED BY <1>4, <1>6, <1>8, <1>9, <1>10, <1>11, <1>12, <1>13, <1>14, UpdateAgree

\* A description replaces nodes by one with objects of its own.
LEMMA onDescriptionAgree ==
    ASSUME TypeOK, TypeOK', onReceiveNodeDescription, NEW i \in Ifaces, Agree(i), i \notin overtaken'
    PROVE  Agree(i)'
<1>1. PICK e : e = Head(events) OBVIOUS
<1>2. PICK n : n = IF e.from = ThirdParty THEN Described(Fresh, e.time, Own)
                   ELSE Marked(Described(Fresh, e.time, Own), {e.from}) OBVIOUS
<1>3. PICK synced : synced = Marked(n, {j \in Ifaces : stored[j] # 0}) OBVIOUS
<1>4. PICK new : new = IF Replaced(n) = {} THEN synced ELSE n OBVIOUS
<1>5. /\ events # <<>> /\ e.type = "DESCRIPTION" /\ Unused # {}
      /\ UNCHANGED <<found, stored, ifaceUp, reporting, snooped, dying>>
  BY <1>1 DEF onReceiveNodeDescription, Handle
<1>6. \/ events' = Tail(events) /\ UNCHANGED <<nodes, tasks>>
      \/ /\ tasks' = tasks \/ tasks' = Append(tasks, [type |-> "INSERT", time |-> e.time])
         /\ nodes' = update(new) /\ events' = Part(Tail(events), Replaced(n))
         /\ overtaken' = overtaken \union ({e.from} \intersect OutOfStep)
  BY <1>1, <1>2, <1>3, <1>4 DEF onReceiveNodeDescription
<1>7. e \in DescriptionEvents
  <2>1. e \in EventsOver(found) BY <1>1, <1>5 DEF TypeOK
  <2>2. QED BY <1>5, <2>1, EventKinds
<1>8. ~IsUp(Head(events), i) /\ ~IsDown(Head(events), i) /\ Head(events).type # "RETRIEVED"
  BY <1>1, <1>5 DEF IsUp, IsDown
<1>9. \A k : Unreported(<<i, k>>) <=> Unreported(<<i, k>>)' BY <1>5 DEF Unreported
<1>10. Dying(i) => Dying(i)' BY <1>5 DEF Dying
<1>11. CASE events' = Tail(events) /\ UNCHANGED <<nodes, tasks>>
  <2>1. /\ SaysAlike(events, events', i)
        /\ Sure(events, Obj(i), Ids(nodes), ifaceUp) => Sure(events', Obj(i), Ids(nodes), ifaceUp)
    BY <1>5, <1>8, <1>11, TakeAside
  <2>2. QED BY <1>5, <1>9, <1>10, <1>11, <2>1, KeptAside
<1>12. CASE /\ tasks' = tasks \/ tasks' = Append(tasks, [type |-> "INSERT", time |-> e.time])
            /\ nodes' = update(new) /\ events' = Part(Tail(events), Replaced(n))
            /\ overtaken' = overtaken \union ({e.from} \intersect OutOfStep)
  <2>1. /\ n \in NodesOver(found) /\ n.id = Fresh /\ n.object = Own /\ n.ifaces = Ifaces
        /\ synced \in NodesOver(found) /\ synced.id = Fresh /\ synced.object = Own /\ synced.ifaces = Ifaces
        /\ n.up = IF e.from = ThirdParty THEN {} ELSE {e.from}
        /\ synced.up = n.up \union {j \in Ifaces : stored[j] # 0}
    <3>1. n \in NodesOver(found) /\ n.id = Fresh /\ n.object = Own /\ n.ifaces = Ifaces
      BY <1>2, <1>3, <1>5, <1>7, MadeType
    <3>2. n.up = IF e.from = ThirdParty THEN {} ELSE {e.from} BY <1>2, <1>3, <1>5, <1>7, MadeType
    <3>3. PICK is : is = {j \in Ifaces : stored[j] # 0} OBVIOUS
    <3>4. is \in SUBSET Ifaces /\ synced = Marked(n, is) BY <1>3, <3>3
    <3>5. /\ synced \in NodesOver(found) /\ synced.id = n.id /\ synced.object = n.object /\ synced.ifaces = n.ifaces
          /\ synced.up = n.up \union {j \in is : n.object[j] = 0}
      BY <3>1, <3>4, MarkedType
    <3>6. {j \in is : n.object[j] = 0} = is BY <3>1, <3>4 DEF Own
    <3>7. QED BY <3>1, <3>2, <3>3, <3>5, <3>6
  <2>2. /\ new \in NodesOver(found) /\ new.id = Fresh /\ new.object = Own /\ new.ifaces = Ifaces
        /\ i \in new.up => i = e.from \/ stored[i] # 0
    BY <1>4, <2>1
  <2>3. Own[i] = 0 /\ \A j \in Ifaces : Own[j] = 0 BY DEF Own
  <2>4. i \in UpIn(new, ifaceUp) => stored[i] # 0
    <3> SUFFICES ASSUME i \in UpIn(new, ifaceUp), stored[i] = 0 PROVE FALSE OBVIOUS
    <3>1. i \in new.up BY <2>2, <2>3 DEF UpIn
    <3>2. i = e.from BY <2>2, <3>1
    <3>3. i \in OutOfStep BY DEF OutOfStep
    <3>4. QED BY <1>12, <3>2, <3>3
  <2>5. updateFlags(new) = ifaceUp
    <3>1. Inherited(new) \subseteq Ifaces BY <2>2, UpdateType
    <3>2. Shared(new, Inherited(new)) = {} BY <2>2, <2>3, <3>1 DEF Shared
    <3>3. QED BY <3>2 DEF updateFlags
  <2>6. ifaceUp' = updateFlags(new) BY <1>5, <2>5
  <2>7. stored[i] # 0 => ~Shares(new, Obj(i)) BY <2>2, <2>3 DEF Shares, Obj
  <2>8. \A k : ~IsAnswer(Head(events), <<i, k>>) BY <1>8 DEF IsAnswer
  <2>9. \A m \in Replaced(new) : i \in m.ifaces => i \in new.ifaces BY <2>2
  <2>10. Replaced(n) \in SUBSET nodes BY DEF Replaced
  <2>11. ASSUME Sure(events, Obj(i), Ids(nodes), ifaceUp) PROVE Sure(events', Obj(i), Ids(nodes'), ifaceUp')
    <3>1. PICK ids : ids = Ids(nodes) \union {Fresh} OBVIOUS
    <3>2. Sure(events, Obj(i), ids, ifaceUp) BY <1>5, <2>11, <3>1, FreshType, SureFresh
    <3>3. PICK s : s = Tail(events) OBVIOUS
    <3>4. events \in Seq(EventsOver(found)) /\ s \in Seq(EventsOver(found)) BY <1>5, <3>3 DEF TypeOK
    <3>5. ~IsAnswer(Head(events), Obj(i)) BY <1>8 DEF IsAnswer
    <3>6. Sure(s, Obj(i), ids, ifaceUp) BY <1>5, <1>8, <3>2, <3>3, <3>4, <3>5, SureTake
    <3>7. PICK gone : gone = Replaced(n) OBVIOUS
    <3>8. gone \in SUBSET NodesOver(found) /\ Ids(gone) \subseteq ids BY <3>1, <3>7 DEF Replaced, TypeOK, Ids
    <3>9. events' = Part(s, gone) BY <1>12, <3>3, <3>7
    <3>10. Sure(events', Obj(i), ids, ifaceUp) BY <3>4, <3>6, <3>8, <3>9, SurePart
    <3>11. Ids(nodes') \subseteq ids \union {0} BY <1>12, <2>2, <2>6, <2>9, <3>1, UpdateUp
    <3>12. events' \in Seq(EventsOver(found')) /\ ifaceUp' = ifaceUp BY <1>5 DEF TypeOK
    <3>13. QED BY <3>10, <3>11, <3>12, SureLess
  <2>12. \A k : Asked(tasks, <<i, k>>) => Asked(tasks', <<i, k>>)
    <3>1. PICK t : t = [type |-> "INSERT", time |-> e.time] OBVIOUS
    <3>2. t \in TasksOver(found) BY <1>7, <3>1 DEF TasksOver, InsertTasks, DescriptionEvents
    <3>3. tasks \in Seq(TasksOver(found)) BY DEF TypeOK
    <3>4. tasks' = tasks \/ tasks' = Append(tasks, t) BY <1>12, <3>1
    <3>5. \A u : Asked(tasks, u) => Asked(Append(tasks, t), u) BY <3>2, <3>3, AskedQueue
    <3>6. QED BY <3>4, <3>5
  <2>13. PICK gone : gone = Replaced(n) OBVIOUS
  <2>14. gone \in SUBSET nodes /\ events' = Part(Tail(events), gone) BY <1>12, <2>10, <2>13
  <2>15. QED BY <1>5, <1>8, <1>12, <2>2, <2>4, <2>6, <2>7, <2>8, <2>9, <2>11, <2>12, <2>14, UpdateAgree
<1>13. QED BY <1>6, <1>11, <1>12

\* A new task that asks for nothing leaves what is asked.
LEMMA AskedInsert ==
    ASSUME TypeOK, NEW t \in Nat, tasks' = tasks \/ tasks' = Append(tasks, [type |-> "INSERT", time |-> t]), NEW o
    PROVE  Asked(tasks, o) => Asked(tasks', o)
<1>1. PICK e : e = [type |-> "INSERT", time |-> t] OBVIOUS
<1>2. e \in TasksOver(found) BY <1>1 DEF TasksOver, InsertTasks
<1>3. tasks \in Seq(TasksOver(found)) BY DEF TypeOK
<1>4. Asked(tasks, o) => Asked(Append(tasks, e), o) BY <1>2, <1>3, AskedQueue
<1>5. QED BY <1>1, <1>4

\* A loss takes the interface down in the one node that has it, and not the object that
\* is in the interface store by then.
LEMMA onDownAgree ==
    ASSUME TypeOK, TypeOK', OneRecord, onNeighborInterfaceDown, NEW i \in Ifaces, Agree(i)
    PROVE  Agree(i)'
<1>1. PICK j : j = Head(events).object[1] OBVIOUS
<1>2. /\ events # <<>> /\ Head(events).type = "INTERFACE_DOWN" /\ events' = Tail(events)
      /\ UNCHANGED <<found, stored, reporting, snooped, dying>>
      /\ \/ (\A n \in nodes : j \notin n.ifaces) /\ UNCHANGED <<nodes, ifaceUp, tasks>>
         \/ \E n \in nodes :
              /\ j \in n.ifaces
              /\ nodes' = (nodes \ {n}) \union {Unmarked(n, {j})}
              /\ ifaceUp' = ifaceUp \ Shared(n, {j})
              /\ tasks' = tasks \/ tasks' = Append(tasks, [type |-> "INSERT", time |-> n.time])
  BY <1>1 DEF onNeighborInterfaceDown, Handle
<1>3. j \in Ifaces /\ {j} \in SUBSET Ifaces
  <2>1. Head(events) \in EventsOver(found) BY <1>2 DEF TypeOK
  <2>2. QED BY <1>1, <1>2, <2>1, EventKinds, ObjectKinds
<1>4. Head(events).type # "RETRIEVED" /\ ~IsUp(Head(events), i) /\ (IsDown(Head(events), i) <=> j = i)
  BY <1>1, <1>2 DEF IsUp, IsDown
<1>5. \A k : Unreported(<<i, k>>) <=> Unreported(<<i, k>>)' BY <1>2 DEF Unreported
<1>6. Dying(i) => Dying(i)' BY <1>2 DEF Dying
<1>7. \A k : Asked(tasks, <<i, k>>) => Asked(tasks', <<i, k>>)
  <2>1. \A n \in nodes : n.time \in Nat BY NodeFields DEF TypeOK
  <2>2. QED BY <1>2, <2>1, AskedInsert
<1>8. ASSUME NEW n \in nodes,
             nodes' = (nodes \ {n}) \union {Unmarked(n, {j})}, ifaceUp' = ifaceUp \ Shared(n, {j})
      PROVE  /\ n \in NodesOver(found) /\ Unmarked(n, {j}) \in NodesOver(found)
             /\ Unmarked(n, {j}).id = n.id /\ Unmarked(n, {j}).ifaces = n.ifaces /\ Unmarked(n, {j}).object = n.object
             /\ Unmarked(n, {j}).up = n.up \ {j}
             /\ \A c, k : <<c, k>> \in Shared(n, {j}) <=> c \in {j} /\ k # 0 /\ n.object[c] = k
             /\ n # NoNode /\ Unmarked(n, {j}) # NoNode
             /\ \A u : (\E m \in nodes' : Shares(m, u)) => \E m \in nodes : Shares(m, u)
  <2>1. n \in NodesOver(found) BY DEF TypeOK
  <2>2. /\ Unmarked(n, {j}) \in NodesOver(found) /\ Unmarked(n, {j}).id = n.id /\ Unmarked(n, {j}).ifaces = n.ifaces
        /\ Unmarked(n, {j}).object = n.object /\ Unmarked(n, {j}).up = n.up \ {j}
        /\ \A c, k : <<c, k>> \in Shared(n, {j}) <=> c \in {j} /\ k # 0 /\ n.object[c] = k
    BY <1>3, <2>1, MarkedType
  <2>3. n # NoNode /\ Unmarked(n, {j}) # NoNode BY <2>1, <2>2, NodeFields
  <2>4. \A u : Shares(Unmarked(n, {j}), u) => Shares(n, u) BY <2>2, <2>3 DEF Shares
  <2>5. QED BY <1>8, <2>1, <2>2, <2>3, <2>4
<1>9. CASE j # i
  <2>1. /\ SaysAlike(events, events', i)
        /\ \A u, ids, flags : Sure(events, u, ids, flags) => Sure(events', u, ids, flags)
    BY <1>2, <1>4, <1>9, TakeAside
  <2>2. CASE UNCHANGED <<nodes, ifaceUp>> BY <1>2, <1>5, <1>6, <1>7, <2>1, <2>2, KeptAside
  <2>3. ASSUME NEW n \in nodes,
               nodes' = (nodes \ {n}) \union {Unmarked(n, {j})}, ifaceUp' = ifaceUp \ Shared(n, {j})
        PROVE  Agree(i)'
    <3>1. PICK l : l = Unmarked(n, {j}) OBVIOUS
    <3>2. l.id = n.id /\ l.ifaces = n.ifaces /\ l.object = n.object /\ l # NoNode /\ n # NoNode
      BY <1>8, <2>3, <3>1
    <3>3. i \in l.up <=> i \in n.up BY <1>8, <1>9, <2>3, <3>1
    <3>4. \A k : <<i, k>> \in ifaceUp <=> <<i, k>> \in ifaceUp' BY <1>8, <1>9, <2>3
    <3>5. nodes' = (nodes \ {n}) \union {l} BY <2>3, <3>1
    <3>6. /\ UpAmong(nodes', ifaceUp', i) <=> UpAmong(nodes, ifaceUp, i)
          /\ \A u : (\E m \in nodes' : Shares(m, u)) => \E m \in nodes : Shares(m, u)
          /\ Ids(nodes') \subseteq Ids(nodes)
      BY <3>2, <3>3, <3>4, <3>5, UpElsewhere
    <3>7. Sure(events', Obj(i), Ids(nodes), ifaceUp) => Sure(events', Obj(i), Ids(nodes'), ifaceUp')
      <4>1. events' \in Seq(EventsOver(found')) /\ Obj(i)[1] = i BY DEF TypeOK, Obj
      <4>2. Ids(nodes') \subseteq Ids(nodes) \union {0} BY <3>6
      <4>3. QED BY <3>4, <4>1, <4>2, SureLess
    <3>8. Obj(i) \in ifaceUp => Obj(i) \in ifaceUp' BY <3>4 DEF Obj
    <3>9. QED BY <1>2, <1>5, <1>6, <1>7, <2>1, <3>6, <3>7, <3>8, Kept
  <2>4. QED BY <1>2, <2>2, <2>3
<1>10. CASE j = i
  <2>0. Obj(i)' = Obj(i) /\ Obj(i) = <<i, stored[i]>> /\ stored'[i] = stored[i] BY <1>2 DEF Obj
  <2>1. events \in Seq(EventsOver(found)) BY DEF TypeOK
  <2>2. PICK h : h = Head(events) OBVIOUS
  <2>3. /\ ~NoDown(events, i)
        /\ NoUp(events, i) => NoUp(events', i)
        /\ DownLast(events, i) => DownLast(events', i) \/ NoUp(events', i)
        /\ NoDown(events', i) \/ ~NoDown(events', i)
    <3>1. /\ NoUp(events, i) => NoUp(events', i)
          /\ DownLast(events, i) => DownLast(events', i) \/ (IsDown(h, i) /\ NoUp(events', i))
      BY <1>2, <2>1, <2>2, QueueTake
    <3>2. 1 \in DOMAIN events /\ events[1] = Head(events) BY <1>2, <2>1
    <3>3. ~NoDown(events, i) BY <1>4, <1>10, <3>2 DEF NoDown
    <3>4. QED BY <3>1, <3>3
  <2>4. \A k : UpLast(events, <<i, k>>) => UpLast(events', <<i, k>>)
    <3>1. Head(events).type # "INTERFACE_UP" BY <1>2
    <3>2. QED BY <1>2, <2>1, <3>1, TakeUp
  <2>5. \A k : Answered(events, <<i, k>>) => Answered(events', <<i, k>>)
    <3>1. \A k : Answered(events, <<i, k>>) => Answered(events', <<i, k>>) \/ IsAnswer(h, <<i, k>>)
      BY <1>2, <2>1, <2>2, QueueTake
    <3>2. \A k : ~IsAnswer(h, <<i, k>>) BY <1>4, <2>2 DEF IsAnswer
    <3>3. QED BY <3>1, <3>2
  <2>6. \A k : Early(events, <<i, k>>) => Early(events', <<i, k>>) BY <1>2, <2>1, <2>2, QueueTake
  <2>7. \A u : (\E m \in nodes' : Shares(m, u)) => \E m \in nodes : Shares(m, u) BY <1>2, <1>8
  <2>8. stored[i] # 0 => (\A n \in nodes : ~Shares(n, Obj(i))) /\ Early(events, Obj(i)) BY <2>3 DEF Agree, Apart
  <2>9. StoredUp(i)'
    <3> SUFFICES ASSUME stored[i] # 0 PROVE Obj(i) \in ifaceUp' BY <2>0 DEF StoredUp
    <3>1. Obj(i) \in ifaceUp BY DEF Agree, StoredUp
    <3>2. ASSUME NEW n \in nodes, i \in n.ifaces, nodes' = (nodes \ {n}) \union {Unmarked(n, {j})},
                 ifaceUp' = ifaceUp \ Shared(n, {j})
          PROVE  Obj(i) \in ifaceUp'
      <4>1. ~Shares(n, Obj(i)) /\ n # NoNode BY <1>8, <2>8, <3>2
      <4>2. n.object[i] # stored[i] BY <2>0, <3>2, <4>1 DEF Shares
      <4>3. Obj(i) \notin Shared(n, {j}) BY <1>8, <2>0, <3>2, <4>2
      <4>4. QED BY <3>1, <3>2, <4>3
    <3>3. QED BY <1>2, <1>10, <3>1, <3>2
  <2>10. Apart(i)' BY <2>0, <2>6, <2>7, <2>8 DEF Apart
  <2>11. Doomed(i) => Doomed(i)' BY <1>5, <1>7, <2>0, <2>5 DEF Doomed
  <2>12. There(i) => There(i)' BY <1>5, <2>0, <2>3, <2>4 DEF There
  <2>13. ~UpAmong(nodes', ifaceUp', i)
    <3> SUFFICES ASSUME NEW m \in nodes', i \in UpIn(m, ifaceUp') PROVE FALSE BY DEF UpAmong
    <3>1. i \in m.ifaces BY DEF UpIn
    <3>2. PICK n \in nodes : /\ i \in n.ifaces /\ nodes' = (nodes \ {n}) \union {Unmarked(n, {j})}
                             /\ ifaceUp' = ifaceUp \ Shared(n, {j})
      BY <1>2, <1>10, <3>1
    <3>3. CASE m = Unmarked(n, {j})
      <4>1. i \notin m.up /\ m.object = n.object BY <1>8, <1>10, <3>2, <3>3
      <4>2. n.object[i] # 0 => <<i, n.object[i]>> \notin ifaceUp' BY <1>8, <1>10, <3>2
      <4>3. QED BY <4>1, <4>2 DEF UpIn
    <3>4. CASE m # Unmarked(n, {j})
      <4>1. m \in nodes /\ m # n BY <3>2, <3>4
      <4>2. m \in NodesOver(found) /\ n \in NodesOver(found) BY <4>1 DEF TypeOK
      <4>3. Equal(m, n) BY <3>1, <3>2 DEF Equal
      <4>4. QED BY <4>1, <4>3 DEF OneRecord
    <3>5. QED BY <3>3, <3>4
  <2>14. Gone(i) => Gone(i)' BY <1>6, <2>0, <2>3, <2>13 DEF Gone
  <2>15. QED BY <2>9, <2>10, <2>11, <2>12, <2>14 DEF Agree
<1>11. QED BY <1>9, <1>10

\* A node is purged when nothing in it is up and no loss is on its way.
LEMMA PurgeAgree ==
    ASSUME TypeOK, TypeOK', Purge, NEW i \in Ifaces, Agree(i), i \notin overtaken'
    PROVE  Agree(i)'
<1>1. PICK n \in nodes :
        /\ UpIn(n, ifaceUp) = {} /\ nodes' = nodes \ {n} /\ events' = Part(events, {n})
        /\ tasks' = Append(tasks, [type |-> "INSERT", time |-> n.time])
  BY DEF Purge, isAvailable
<1>2. UNCHANGED <<found, stored, ifaceUp, reporting, snooped, dying>> BY DEF Purge
<1>3. n \in NodesOver(found) /\ n.time \in Nat BY NodeFields DEF TypeOK
<1>4. PICK gone : gone = {n} OBVIOUS
<1>5. gone \in SUBSET NodesOver(found) /\ events' = Part(events, gone) /\ events \in Seq(EventsOver(found))
  BY <1>1, <1>3, <1>4 DEF TypeOK
<1>6. NoDown(events, i)
  <2>1. i \notin Announced("INTERFACE_DOWN") BY DEF Purge
  <2>2. QED BY <2>1 DEF Announced, NoDown, IsDown
<1>7. SaysAlike(events, events', i)
  <2>1. /\ NoUp(events, i) => NoUp(events', i)
        /\ NoDown(events, i) <=> NoDown(events', i)
        /\ DownLast(events, i) => DownLast(events', i)
    BY <1>5, QueuePart
  <2>2. \A k : UpLast(events, <<i, k>>) => UpLast(events', <<i, k>>) BY <1>5, QueuePart
  <2>3. \A k : Answered(events, <<i, k>>) => Answered(events', <<i, k>>) BY <1>5, QueuePart
  <2>4. \A k : Early(events', <<i, k>>)
    <3>1. \A k : <<i, k>>[1] = i OBVIOUS
    <3>2. QED BY <1>6, <2>1, <3>1 DEF Early, NoDown
  <2>5. QED BY <2>1, <2>2, <2>3, <2>4 DEF SaysAlike
<1>8. \A k : Unreported(<<i, k>>) => Unreported(<<i, k>>)' BY <1>2 DEF Unreported
<1>9. Dying(i) => Dying(i)' BY <1>2 DEF Dying
<1>10. \A k : Asked(tasks, <<i, k>>) => Asked(tasks', <<i, k>>) BY <1>1, <1>3, AskedInsert
<1>11. UpAmong(nodes', ifaceUp', i) <=> UpAmong(nodes, ifaceUp, i) BY <1>1, <1>2 DEF UpAmong
<1>12. Sure(events, Obj(i), Ids(nodes), ifaceUp) => Sure(events', Obj(i), Ids(nodes'), ifaceUp')
  <2>1. Ids(gone) \subseteq Ids(nodes) BY <1>4 DEF Ids
  <2>2. Sure(events, Obj(i), Ids(nodes), ifaceUp) => Sure(events', Obj(i), Ids(nodes), ifaceUp)
    BY <1>5, <2>1, SurePart
  <2>3. Ids(nodes') \subseteq Ids(nodes) \union {0} BY <1>1 DEF Ids
  <2>4. events' \in Seq(EventsOver(found')) BY DEF TypeOK
  <2>5. QED BY <1>2, <2>2, <2>3, <2>4, SureLess
<1>13. stored'[i] = stored[i] /\ ifaceUp' = ifaceUp BY <1>2
<1>14. \A m \in nodes' : Shares(m, Obj(i)) => \E l \in nodes : Shares(l, Obj(i)) BY <1>1
<1>15. QED BY <1>7, <1>8, <1>9, <1>10, <1>11, <1>12, <1>13, <1>14, Kept

\* A description that is on its way, and a node that is inserted, change nothing.
LEMMA AsideAgree ==
    ASSUME TypeOK, TypeOK', NEW i \in Ifaces, Agree(i),
           \/ \E t \in Times : Relay(t)
           \/ \E d \in receiving : onVerifiedDataObject(d)
           \/ _insertNode \/ InsertDescription
    PROVE  Agree(i)'
<1>1. UNCHANGED <<found, stored, ifaceUp, reporting, snooped, dying, nodes>>
  BY DEF Relay, onVerifiedDataObject, _insertNode, InsertDescription
<1>2. /\ events' = events \/ (tasks # <<>> /\ events' = Append(events, [Head(tasks) EXCEPT !.type = "DESCRIPTION"]) /\ Head(tasks).type = "DESCRIBE")
      /\ \/ tasks' = tasks
         \/ \E d \in receiving : tasks' = Append(tasks, [type |-> "DESCRIBE", from |-> d.from, time |-> d.time])
         \/ tasks # <<>> /\ tasks' = Tail(tasks) /\ Head(tasks).type # "RETRIEVE"
  BY DEF Relay, onVerifiedDataObject, _insertNode, InsertDescription
<1>3. tasks \in Seq(TasksOver(found)) /\ events \in Seq(EventsOver(found')) BY <1>1 DEF TypeOK
<1>4. ASSUME NEW o, Asked(tasks, o) PROVE Asked(tasks', o)
  <2>1. CASE tasks' = tasks BY <1>4, <2>1
  <2>2. ASSUME NEW d \in receiving, tasks' = Append(tasks, [type |-> "DESCRIBE", from |-> d.from, time |-> d.time])
        PROVE  Asked(tasks', o)
    <3>1. PICK e : e = [type |-> "DESCRIBE", from |-> d.from, time |-> d.time] OBVIOUS
    <3>2. d.from \in Sources /\ d.time \in Times BY DEF TypeOK
    <3>3. e \in TasksOver(found) BY <3>1, <3>2 DEF TasksOver, DescribeTasks
    <3>4. Asked(Append(tasks, e), o) BY <1>3, <1>4, <3>3, AskedQueue
    <3>5. QED BY <2>2, <3>1, <3>4
  <2>3. CASE tasks # <<>> /\ tasks' = Tail(tasks) /\ Head(tasks).type # "RETRIEVE"
    <3>1. Asked(Tail(tasks), o) BY <1>3, <1>4, <2>3, AskedQueue
    <3>2. QED BY <2>3, <3>1
  <2>4. QED BY <1>2, <2>1, <2>2, <2>3
<1>5. /\ SaysAlike(events, events', i)
      /\ Sure(events, Obj(i), Ids(nodes), ifaceUp) => Sure(events', Obj(i), Ids(nodes), ifaceUp)
  <2>1. CASE events' = events BY <2>1, QueueSame
  <2>2. CASE tasks # <<>> /\ events' = Append(events, [Head(tasks) EXCEPT !.type = "DESCRIPTION"]) /\ Head(tasks).type = "DESCRIBE"
    <3>1. PICK e : e = [Head(tasks) EXCEPT !.type = "DESCRIPTION"] OBVIOUS
    <3>2. Head(tasks) \in DescribeTasks
      <4>1. Head(tasks) \in TasksOver(found) BY <1>3, <2>2
      <4>2. QED BY <2>2, <4>1, TaskKinds
    <3>3. e.type = "DESCRIPTION" BY <3>1, <3>2 DEF DescribeTasks
    <3>4. ~IsUp(e, i) /\ ~IsDown(e, i) /\ e.type # "RETRIEVED" BY <3>3 DEF IsUp, IsDown
    <3>5. QED BY <1>3, <2>2, <3>1, <3>4, PutAside
  <2>3. QED BY <1>2, <2>1, <2>2
<1>6. \A k : Unreported(<<i, k>>) => Unreported(<<i, k>>)' BY <1>1 DEF Unreported
<1>7. Dying(i) => Dying(i)' BY <1>1 DEF Dying
<1>8. QED BY <1>1, <1>4, <1>5, <1>6, <1>7, KeptAside

\* The data store's answer takes the place of the question: it brings a node with the
\* interface up, or is the node of the node store, where the interface is up now.
LEMMA retrieveAgree ==
    ASSUME TypeOK, TypeOK', _retrieveNode, NEW i \in Ifaces, Agree(i)
    PROVE  Agree(i)'
<1>1. PICK o, up : o = Head(tasks).object /\ up = {o[1]} \intersect {j \in Ifaces : o \in ifaceUp} OBVIOUS
<1>2. /\ tasks # <<>> /\ Head(tasks).type = "RETRIEVE" /\ tasks' = Tail(tasks)
      /\ UNCHANGED <<found, stored, reporting, snooped, dying>>
  BY DEF _retrieveNode
<1>3. o \in ObjectsOver(found)
  <2>1. Head(tasks) \in TasksOver(found) BY <1>2 DEF TypeOK
  <2>2. QED BY <1>1, <1>2, <2>1, TaskKinds
<1>4. o[1] \in Ifaces /\ o[2] \in 1..MaxAdds /\ o = <<o[1], o[2]>> /\ up \in SUBSET Ifaces
      /\ (\A j : j \in up => j = o[1]) /\ (o \in ifaceUp => o[1] \in up)
  BY <1>1, <1>3, ObjectKinds
<1>5. PICK r :
        /\ events' = Append(events, [type |-> "RETRIEVED", object |-> o, node |-> r])
        /\ \/ r = NoNode /\ UNCHANGED <<nodes, ifaceUp>>
           \/ /\ database # Undefined /\ Unused # {} /\ r = Marked(createNode, up)
              /\ ifaceUp' = ifaceUp \union Shared(createNode, up) /\ UNCHANGED nodes
           \/ \E m \in nodes :
                /\ m.time # Undefined /\ r = [m EXCEPT !.up = {}]
                /\ nodes' = (nodes \ {m}) \union {Marked(m, up)}
                /\ ifaceUp' = ifaceUp \union Shared(m, up)
  <2>1. \/ /\ events' = Append(events, [type |-> "RETRIEVED", object |-> o, node |-> NoNode])
           /\ UNCHANGED <<nodes, ifaceUp>>
        \/ /\ database # Undefined /\ Unused # {}
           /\ events' = Append(events, [type |-> "RETRIEVED", object |-> o, node |-> Marked(createNode, up)])
           /\ ifaceUp' = ifaceUp \union Shared(createNode, up) /\ UNCHANGED nodes
        \/ \E m \in nodes :
             /\ m.time # Undefined
             /\ nodes' = (nodes \ {m}) \union {Marked(m, up)}
             /\ ifaceUp' = ifaceUp \union Shared(m, up)
             /\ events' = Append(events, [type |-> "RETRIEVED", object |-> o, node |-> [m EXCEPT !.up = {}]])
    BY <1>1 DEF _retrieveNode
  <2>2. QED BY <2>1
<1>6. PICK e : e = [type |-> "RETRIEVED", object |-> o, node |-> r] OBVIOUS
<1>7. e.type = "RETRIEVED" /\ e.object = o /\ e.node = r /\ events' = Append(events, e) BY <1>5, <1>6
<1>8. events \in Seq(EventsOver(found)) /\ e \in EventsOver(found)
  <2>1. events \in Seq(EventsOver(found)) /\ events' \in Seq(EventsOver(found)) BY <1>2 DEF TypeOK
  <2>2. Len(events) + 1 \in DOMAIN events' /\ events'[Len(events) + 1] = e BY <1>7, <2>1
  <2>3. QED BY <2>1, <2>2
<1>9. SaysAlike(events, events', i) /\ Answered(events', o)
  <2>1. ~IsUp(e, i) /\ ~IsDown(e, i) BY <1>7 DEF IsUp, IsDown
  <2>2. SaysAlike(events, events', i) BY <1>7, <1>8, <2>1, QueuePut
  <2>3. Answered(events', o) BY <1>7, <1>8, QueuePut
  <2>4. QED BY <2>2, <2>3
<1> DEFINE Sures == /\ r # NoNode /\ i \in UpIn(r, ifaceUp') /\ r.id \notin Ids(nodes')
                    /\ \A p \in DOMAIN events : events[p].type = "RETRIEVED" => events[p].node.id # r.id
           Facts == /\ \A k : <<i, k>> \in ifaceUp => <<i, k>> \in ifaceUp'
                    /\ \A u : (\E m \in nodes' : Shares(m, u)) => \E m \in nodes : Shares(m, u)
                    /\ Ids(nodes') \subseteq Ids(nodes)
                    /\ \/ r.id = 0 \/ r.id \in Ids(nodes)
                       \/ \A p \in DOMAIN events : events[p].type = "RETRIEVED" => events[p].node.id # r.id
                    /\ UpAmong(nodes, ifaceUp, i) => UpAmong(nodes', ifaceUp', i)
                    /\ o[1] # i => (UpAmong(nodes', ifaceUp', i) <=> UpAmong(nodes, ifaceUp, i))
                    /\ stored[i] # 0 /\ o = Obj(i) => r = NoNode \/ Sures \/ UpAmong(nodes', ifaceUp', i)
<1>10. stored[i] # 0 => <<i, stored[i]>> \in ifaceUp /\ Obj(i) = <<i, stored[i]>> BY DEF Agree, StoredUp, Obj
<1>11. ASSUME r = NoNode, UNCHANGED <<nodes, ifaceUp>> PROVE Facts
  <2>1. r.id = 0 BY <1>11 DEF NoNode
  <2>2. QED BY <1>11, <2>1
<1>12. ASSUME database # Undefined, Unused # {}, r = Marked(createNode, up),
              ifaceUp' = ifaceUp \union Shared(createNode, up), UNCHANGED nodes
       PROVE  Facts
  <2>1. PICK n : n = createNode OBVIOUS
  <2>2. n \in NodesOver(found) /\ n.object = stored /\ n.id = Fresh /\ n.ifaces = Ifaces
    BY <1>12, <2>1, CreateType DEF DescribedOver
  <2>3. r = Marked(n, up) /\ ifaceUp' = ifaceUp \union Shared(n, up) BY <1>12, <2>1
  <2>4. /\ r \in NodesOver(found) /\ r.id = Fresh /\ r.ifaces = Ifaces /\ r.object = stored
        /\ \A c, k : <<c, k>> \in Shared(n, up) <=> c \in up /\ k # 0 /\ n.object[c] = k
    BY <1>4, <2>2, <2>3, MarkedType
  <2>5. /\ \A m \in nodes : m.id # r.id
        /\ \A p \in DOMAIN events : events[p].type = "RETRIEVED" => events[p].node.id # r.id
    BY <1>12, <2>4, FreshType
  <2>6. r.id \notin Ids(nodes') BY <1>12, <2>5 DEF Ids
  <2>7. r # NoNode BY <2>4, NodeFields
  <2>8. \A k : <<i, k>> \in ifaceUp => <<i, k>> \in ifaceUp' BY <2>3
  <2>9. stored[i] # 0 => i \in UpIn(r, ifaceUp') BY <1>10, <2>3, <2>4 DEF UpIn
  \* An object of the store that comes up was up.
  <2>10. \A k : <<i, k>> \in ifaceUp' <=> <<i, k>> \in ifaceUp \/ (i \in up /\ k # 0 /\ stored[i] = k)
    BY <2>2, <2>3, <2>4
  <2>11. \A k : <<i, k>> \in ifaceUp' <=> <<i, k>> \in ifaceUp BY <1>10, <2>10
  <2>12. \A m : i \in UpIn(m, ifaceUp) <=> i \in UpIn(m, ifaceUp') BY <2>11 DEF UpIn
  <2>13. UpAmong(nodes', ifaceUp', i) <=> UpAmong(nodes, ifaceUp, i) BY <1>12, <2>12 DEF UpAmong
  <2>14. QED BY <1>12, <2>5, <2>6, <2>7, <2>8, <2>9, <2>13
<1>13. ASSUME NEW m \in nodes, m.time # Undefined, r = [m EXCEPT !.up = {}],
              nodes' = (nodes \ {m}) \union {Marked(m, up)}, ifaceUp' = ifaceUp \union Shared(m, up)
       PROVE  Facts
  <2>1. PICK l : l = Marked(m, up) OBVIOUS
  <2>2. m \in NodesOver(found) /\ m.ifaces = Ifaces /\ m # NoNode BY <1>13, NodeFields DEF TypeOK
  <2>3. /\ l.id = m.id /\ l.ifaces = m.ifaces /\ l.object = m.object /\ l \in NodesOver(found)
        /\ l.up = m.up \union {j \in up : m.object[j] = 0}
        /\ \A c, k : <<c, k>> \in Shared(m, up) <=> c \in up /\ k # 0 /\ m.object[c] = k
    BY <1>4, <2>1, <2>2, MarkedType
  <2>4. l # NoNode BY <2>3, NodeFields
  <2>5. nodes' = (nodes \ {m}) \union {l} BY <1>13, <2>1
  <2>6. \A k : <<i, k>> \in ifaceUp => <<i, k>> \in ifaceUp' BY <1>13
  <2>7. \A u : (\E n \in nodes' : Shares(n, u)) => \E n \in nodes : Shares(n, u)
    <3>1. \A u : Shares(l, u) => Shares(m, u) BY <2>2, <2>3, <2>4 DEF Shares
    <3>2. QED BY <2>5, <3>1
  <2>8. Ids(nodes') \subseteq Ids(nodes) BY <2>3, <2>5 DEF Ids
  <2>9. r.id \in Ids(nodes)
    <3>1. r.id = m.id
      <4>1. m.up \ Ifaces = {} BY <2>2, NodeFields
      <4>2. Unmarked(m, Ifaces) = r BY <1>13, <4>1 DEF Unmarked
      <4>3. Ifaces \in SUBSET Ifaces OBVIOUS
      <4>4. QED BY <2>2, <4>2, <4>3, MarkedType
    <3>2. QED BY <3>1 DEF Ids
  <2>10. \A n : i \in UpIn(n, ifaceUp) => i \in UpIn(n, ifaceUp') BY <2>6 DEF UpIn
  <2>11. i \in UpIn(m, ifaceUp') => i \in UpIn(l, ifaceUp') BY <2>3 DEF UpIn
  <2>12. UpAmong(nodes, ifaceUp, i) => UpAmong(nodes', ifaceUp', i) BY <2>5, <2>10, <2>11 DEF UpAmong
  <2>13. ASSUME o[1] # i PROVE UpAmong(nodes', ifaceUp', i) <=> UpAmong(nodes, ifaceUp, i)
    <3>1. i \notin up BY <1>4, <2>13
    <3>2. i \in l.up <=> i \in m.up BY <2>3, <3>1
    <3>3. \A k : <<i, k>> \in ifaceUp <=> <<i, k>> \in ifaceUp' BY <1>13, <2>3, <3>1
    <3>4. QED BY <2>2, <2>3, <2>4, <2>5, <3>2, <3>3, UpElsewhere
  <2>14. ASSUME stored[i] # 0, o = Obj(i) PROVE UpAmong(nodes', ifaceUp', i)
    <3>1. i \in up BY <1>4, <1>10, <2>14
    <3>2. CASE m.object[i] = 0 BY <2>2, <2>3, <2>5, <3>1, <3>2 DEF UpAmong, UpIn
    <3>3. CASE m.object[i] # 0
      <4>1. <<i, m.object[i]>> \in ifaceUp' BY <1>13, <2>3, <3>1, <3>3
      <4>2. i \in UpIn(l, ifaceUp') BY <2>2, <2>3, <3>3, <4>1 DEF UpIn
      <4>3. QED BY <2>5, <4>2 DEF UpAmong
    <3>4. QED BY <3>2, <3>3
  <2>15. QED BY <2>6, <2>7, <2>8, <2>9, <2>12, <2>13, <2>14
<1>14. Facts BY <1>5, <1>11, <1>12, <1>13
<1>15. Sure(events, Obj(i), Ids(nodes), ifaceUp) => Sure(events', Obj(i), Ids(nodes'), ifaceUp')
  <2>1. Sure(events, Obj(i), Ids(nodes), ifaceUp) => Sure(events', Obj(i), Ids(nodes), ifaceUp)
    BY <1>7, <1>8, <1>14, SurePut
  <2>2. events' \in Seq(EventsOver(found')) /\ Obj(i)[1] = i BY DEF TypeOK, Obj
  <2>3. Ids(nodes') \subseteq Ids(nodes) \union {0} BY <1>14
  <2>4. QED BY <1>14, <2>1, <2>2, <2>3, SureLess
<1>16. \A k : Unreported(<<i, k>>) => Unreported(<<i, k>>)' BY <1>2 DEF Unreported
<1>17. Dying(i) => Dying(i)' BY <1>2 DEF Dying
<1>18. \A u : Asked(tasks, u) => Asked(tasks', u) \/ u = o
  <2>1. tasks \in Seq(TasksOver(found)) BY DEF TypeOK
  <2>2. QED BY <1>1, <1>2, <2>1, AskedQueue
<1>19. Obj(i)' = Obj(i) /\ stored'[i] = stored[i] BY <1>2 DEF Obj
<1>20. Obj(i) \in ifaceUp => Obj(i) \in ifaceUp' BY <1>14 DEF Obj
<1>21. CASE o[1] # i
  <2>1. \A k : Asked(tasks, <<i, k>>) => Asked(tasks', <<i, k>>) BY <1>18, <1>21
  <2>2. \A n \in nodes' : Shares(n, Obj(i)) => \E m \in nodes : Shares(m, Obj(i)) BY <1>14
  <2>3. UpAmong(nodes', ifaceUp', i) <=> UpAmong(nodes, ifaceUp, i) BY <1>14, <1>21
  <2>4. QED BY <1>9, <1>15, <1>16, <1>17, <1>19, <1>20, <2>1, <2>2, <2>3, Kept
<1>22. CASE o[1] = i
  <2>1. StoredUp(i)' BY <1>19, <1>20 DEF Agree, StoredUp
  <2>2. Apart(i)'
    <3>1. Early(events, Obj(i)) => Early(events', Obj(i)) BY <1>9 DEF SaysAlike, Obj
    <3>2. NoDown(events, i) => NoDown(events', i) BY <1>9 DEF SaysAlike
    <3>3. QED BY <1>14, <1>19, <3>1, <3>2 DEF Agree, Apart
  <2>3. CASE o # Obj(i)
    <3>1. o[2] # stored[i] BY <1>4, <1>22, <2>3 DEF Obj
    <3>2. Answered(events', <<i, o[2]>>) BY <1>4, <1>9, <1>22
    <3>3. Doomed(i)' BY <1>4, <1>19, <3>1, <3>2 DEF Doomed
    <3>4. QED BY <2>1, <2>2, <3>3 DEF Agree
  <2>4. CASE o = Obj(i)
    <3>1. stored[i] # 0 BY <1>4, <2>4 DEF Obj
    <3>2. Gone(i)' BY <1>19, <3>1 DEF Gone
    <3>3. Doomed(i) => Doomed(i)'
      <4>1. \A k : k # stored[i] => <<i, k>> # o BY <2>4 DEF Obj
      <4>2. \A k : Answered(events, <<i, k>>) => Answered(events', <<i, k>>) BY <1>9 DEF SaysAlike
      <4>3. QED BY <1>16, <1>18, <1>19, <4>1, <4>2 DEF Doomed
    <3>4. Sure(events', Obj(i), Ids(nodes'), ifaceUp') \/ UpAmong(nodes', ifaceUp', i)
      <4>1. CASE UpAmong(nodes', ifaceUp', i) BY <4>1
      <4>2. CASE r = NoNode \/ Sures
        <5>1. PICK z : z = Len(events) + 1 OBVIOUS
        <5>2. /\ z \in DOMAIN events' /\ events'[z] = e
              /\ \A p \in DOMAIN events' : p # z => p \in DOMAIN events /\ events'[p] = events[p]
          BY <1>7, <1>8, <5>1
        <5>3. IsAnswer(events'[z], Obj(i)) /\ events'[z].node = r BY <1>7, <2>4, <5>2 DEF IsAnswer
        <5>4. CASE r = NoNode BY <5>2, <5>3, <5>4 DEF Sure
        <5>5. CASE Sures
          <6>1. \A p \in DOMAIN events' : p # z /\ events'[p].type = "RETRIEVED" => events'[p].node.id # r.id
            BY <5>2, <5>5
          <6>2. Obj(i)[1] = i BY DEF Obj
          <6>3. QED BY <5>2, <5>3, <5>5, <6>1, <6>2 DEF Sure
        <5>6. QED BY <4>2, <5>4, <5>5
      <4>3. QED BY <1>14, <2>4, <3>1, <4>1, <4>2
    <3>5. There(i) => There(i)'
      <4>1. NoDown(events, i) => NoDown(events', i) BY <1>9 DEF SaysAlike
      <4>2. UpLast(events, Obj(i)) => UpLast(events', Obj(i)) BY <1>9 DEF SaysAlike, Obj
      <4>3. Unreported(Obj(i)) => Unreported(Obj(i))' BY <1>16, <1>19 DEF Obj
      <4>4. QED BY <1>19, <3>4, <4>1, <4>2, <4>3 DEF There
    <3>6. QED BY <2>1, <2>2, <3>2, <3>3, <3>5 DEF Agree
  <2>5. QED BY <2>3, <2>4
<1>23. QED BY <1>21, <1>22

\* What nobody was late about agrees.
AllAgree == \A i \in Ifaces \ overtaken : Agree(i)

\* A step keeps the agreement, or something in it is late.
LEMMA AgreeStep == ASSUME TypeOK, TypeOK', OneRecord, AllAgree, [Next]_vars PROVE AllAgree'
<1>1. overtaken \subseteq overtaken'
  BY DEF Next, KernelStep, DataStoreStep, addupdate, remove, ReportUp, report_dead, Arrive, Relay,
         onIncomingDataObject, onVerifiedDataObject, onNeighborInterfaceUp, onRetrieveNode,
         onNeighborInterfaceDown, onReceiveNodeDescription, Purge, _insertNode, _retrieveNode, InsertDescription, vars
<1> SUFFICES ASSUME NEW i \in Ifaces, i \notin overtaken' PROVE Agree(i)' BY DEF AllAgree
<1>2. Agree(i) BY <1>1 DEF AllAgree
<1>3. ASSUME NEW j \in Ifaces, addupdate(j) PROVE Agree(i)' BY <1>2, <1>3, addupdateAgree
<1>4. ASSUME NEW j \in Ifaces, remove(j) PROVE Agree(i)' BY <1>2, <1>4, removeAgree
<1>5. ASSUME NEW o \in reporting \union snooped, ReportUp(o) PROVE Agree(i)' BY <1>2, <1>5, ReportUpAgree
<1>6. ASSUME NEW o \in Objects, report_dead(o) PROVE Agree(i)' BY <1>2, <1>6, report_deadAgree
<1>7. ASSUME NEW j \in Ifaces, NEW t \in Times \union {Undefined}, Arrive(j, t) PROVE Agree(i)' BY <1>2, <1>7, ArriveAgree
<1>8. CASE \/ \E t \in Times : Relay(t)
           \/ \E d \in receiving : onVerifiedDataObject(d)
           \/ _insertNode \/ InsertDescription
  BY <1>2, <1>8, AsideAgree
<1>9. CASE onIncomingDataObject BY <1>2, <1>9, onIncomingAgree
<1>10. CASE onNeighborInterfaceUp BY <1>2, <1>10, onUpAgree
<1>11. CASE onRetrieveNode BY <1>2, <1>11, onRetrieveAgree
<1>12. CASE onNeighborInterfaceDown BY <1>2, <1>12, onDownAgree
<1>13. CASE onReceiveNodeDescription BY <1>2, <1>13, onDescriptionAgree
<1>14. CASE Purge BY <1>2, <1>14, PurgeAgree
<1>15. CASE _retrieveNode BY <1>2, <1>15, retrieveAgree
<1>16. CASE UNCHANGED vars
  <2>1. UNCHANGED <<stored, ifaceUp, reporting, snooped, dying, events, tasks, nodes>> BY <1>16 DEF vars
  <2>2. QED
    BY <1>2, <2>1 DEF Agree, StoredUp, Apart, Doomed, There, Gone, Obj, Unreported, Dying
<1>17. QED
  BY <1>3, <1>4, <1>5, <1>6, <1>7, <1>8, <1>9, <1>10, <1>11, <1>12, <1>13, <1>14, <1>15, <1>16
  DEF Next, KernelStep, DataStoreStep

\* Nothing is known at the start.
LEMMA AgreeInit == ASSUME Init PROVE AllAgree
<1> SUFFICES ASSUME NEW i \in Ifaces PROVE Agree(i) BY DEF AllAgree
<1>1. stored[i] = 0 /\ nodes = {} /\ events = <<>> BY DEF Init, Own
<1>2. ~UpAmong(nodes, ifaceUp, i) /\ NoUp(events, i) BY <1>1 DEF UpAmong, NoUp
<1>3. QED BY <1>1, <1>2 DEF Agree, StoredUp, Apart, There, Gone

\* When nothing is on its way, agreement is all that is left.
LEMMA AgreeQuiet == ASSUME TypeOK, AllAgree PROVE NeighboursAgree
<1> SUFFICES ASSUME Quiet, NEW i \in Ifaces \ overtaken
             PROVE  stored[i] # 0 <=> \E n \in nodes : i \in UpIn(n, ifaceUp)
  BY DEF NeighboursAgree
<1>1. Agree(i) BY DEF AllAgree
<1>2. DOMAIN events = {} /\ DOMAIN tasks = {} BY DEF Quiet
<1>3. \A o : ~Unreported(o) /\ ~Asked(tasks, o) /\ ~Answered(events, o) /\ ~UpLast(events, o)
  BY <1>2 DEF Quiet, Unreported, Asked, Answered, UpLast
<1>4. \A o, ids, flags : ~Sure(events, o, ids, flags) BY <1>2 DEF Sure
<1>5. ~DownLast(events, i) BY <1>2 DEF DownLast
<1>6. ~Dying(i)
  <2>1. \A k \in 1..MaxAdds : <<i, k>> \in Handles BY ObjectKinds
  <2>2. \A o \in Handles : ~(dying[o] > 0) BY DEF Quiet
  <2>3. QED BY <2>1, <2>2 DEF Dying
<1>7. There(i) /\ Gone(i) BY <1>1, <1>3 DEF Agree, Doomed
<1>8. stored[i] # 0 => UpAmong(nodes, ifaceUp, i) BY <1>3, <1>4, <1>7 DEF There
<1>9. stored[i] = 0 => ~UpAmong(nodes, ifaceUp, i) BY <1>5, <1>6, <1>7 DEF Gone
<1>10. QED BY <1>8, <1>9 DEF UpAmong

\* Once everything is handled the node store and the interface store agree on each
\* interface that no report, answer or description was late about: however many
\* interfaces, descriptions and data objects, and whoever shares which object.
THEOREM NeighboursInAgreement == Spec => []NeighboursAgree
<1>1. Init => AllAgree BY AgreeInit
<1>2. TypeOK /\ TypeOK' /\ OneRecord /\ AllAgree /\ [Next]_vars => AllAgree' BY AgreeStep
<1>3. TypeOK /\ AllAgree => NeighboursAgree BY AgreeQuiet
<1>4. QED BY <1>1, <1>2, <1>3, TypeCorrect, OneRecordEach, PTL DEF Spec
=============================================================================
