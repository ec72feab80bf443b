------------------------------ MODULE SendOrder ------------------------------
(***************************************************************************)
(* The send queue of one destination node (SendQueue and TopologicalSorter *)
(* of SendPriorityManager.cpp).  Elements wait in a graph in which what    *)
(* has to go first is nearer the root; at most parallelFactor elements     *)
(* occupy a send station.  A wrapper (PartialOrderElement) holds elements  *)
(* that compare as equal and points to the wrappers below it.  The loop of *)
(* addElement is one step per strand; the handlers around it run to their  *)
(* end before another one starts, as they do in the kernel thread.         *)
(***************************************************************************)
EXTENDS Integers, Sequences, FiniteSets, SequencesExt

CONSTANTS
    Orders,          \* configurations of the partial order to be looked at
    Priorities,      \* values of the priority attribute
    MaxElements,     \* bound: elements that are ever queued
    ParallelFactors  \* numbers of send stations of a node to be looked at

NoPriority == 0

ASSUME SendOrderAssumption ==
    /\ Orders \subseteq {"FIFO", "Priority", "Attribute", "Configured", "AttributePriority"}
    /\ Priorities \subseteq Nat \ {NoPriority}
    /\ MaxElements \in Nat /\ ParallelFactors \subseteq Nat \ {0}

\* SendPriorityElement: what the orders look at.
Elements == [createTime : 1..MaxElements, bolo : BOOLEAN,
             priority : Priorities \union {NoPriority}]
NoElement == [createTime |-> 0]

Root == 0
Wrappers == 1..(MaxElements + 1)

VARIABLES
    order,      \* the configured partial order
    parallelFactor, \* the configured number of send stations
    created,    \* number of elements queued so far
    equivObjs,  \* the elements of each wrapper; <<>> when it does not exist
    children,   \* what the root and each wrapper point to
    po,         \* the wrapper addElement is placing; Root when no call is active
    strands,    \* its work list of pairs child, parent
    pc,         \* the handler: idle, about to call startSend, or holding an element
    held,       \* what startSend took from the graph
    sendStations,  \* elements being sent
    waiting     \* history: elements queued and not handed out yet

vars == <<order, parallelFactor, created, equivObjs, children, po, strands, pc, held, sendStations, waiting>>

-----------------------------------------------------------------------------
(* Partial orders.  What is greater is sent earlier.                       *)

PartialOrderFIFO(a, b) ==
    IF a.createTime < b.createTime THEN "GT"
    ELSE IF a.createTime = b.createTime THEN "EQ" ELSE "LT"

PartialOrderPriorityAttribute(a, b) ==
    IF a.priority = NoPriority \/ b.priority = NoPriority THEN "NC"
    ELSE IF a.priority = b.priority THEN "EQ"
    ELSE IF a.priority < b.priority THEN "LT" ELSE "GT"

PartialOrderAttribute(a, b) ==
    IF b.bolo /\ ~a.bolo THEN "LT" ELSE IF a.bolo /\ ~b.bolo THEN "GT" ELSE "NC"

\* Mutant: the low order decides first.
PartialOrderCombinerSwapped(high, low) == IF low # "NC" THEN low ELSE high

PartialOrderCombinerOrdered(high, low) == IF high # "NC" THEN high ELSE low

\* The single orders, the shipped configuration, and a combination without FIFO.
getPartialOrderForConfig(a, b) ==
    CASE order = "FIFO" -> PartialOrderFIFO(a, b)
      [] order = "Priority" -> PartialOrderPriorityAttribute(a, b)
      [] order = "Attribute" -> PartialOrderAttribute(a, b)
      [] order = "Configured" ->
            PartialOrderCombinerOrdered(PartialOrderAttribute(a, b),
                PartialOrderCombinerOrdered(PartialOrderPriorityAttribute(a, b),
                                            PartialOrderFIFO(a, b)))
      [] order = "AttributePriority" ->
            PartialOrderCombinerOrdered(PartialOrderAttribute(a, b),
                                        PartialOrderPriorityAttribute(a, b))

\* An element against a wrapper, which its first element stands for.
compare(e, w) == getPartialOrderForConfig(e, Head(equivObjs[w]))

-----------------------------------------------------------------------------
(* The graph.                                                              *)

addChild(list, w) == IF Contains(list, w) THEN list ELSE Append(list, w)

Comparable(e, w) == compare(e, w) # "NC"

\* What list has at the positions P, in its order.
Selected(list, P) ==
    LET n == Cardinality(P)
        at == CHOOSE f \in [1..n -> P] :
                 /\ \A i, j \in 1..n : i < j => f[i] < f[j]
                 /\ \A p \in P : \E i \in 1..n : f[i] = p
    IN  [i \in 1..n |-> list[at[i]]]

\* A list of children has nothing twice, so that the first w is the only one.
removeChild(list, w) == Selected(list, {i \in 1..Len(list) : list[i] # w})

\* addChild for each of more, which has nothing twice.
addChildren(list, more) == list \o Selected(more, {i \in 1..Len(more) : ~Contains(list, more[i])})

Strands(e, parent) ==
    LET list == children[parent]
        below == Selected(list, {i \in 1..Len(list) : Comparable(e, list[i])})
    IN  [i \in 1..Len(below) |-> [child |-> below[i], parent |-> parent]]

\* The element addElement is placing.
se == Head(equivObjs[po])

\* addElement up to its loop: an element that compares with none of the root's
\* children becomes another one.
addElement(e) ==
    LET v == CHOOSE w \in Wrappers : equivObjs[w] = <<>>
    IN  /\ equivObjs' = [equivObjs EXCEPT ![v] = <<e>>]
        /\ strands' = Strands(e, Root)
        /\ IF strands' = <<>>
              THEN po' = Root /\ children' = [children EXCEPT ![Root] = Append(@, v)]
              ELSE po' = v /\ UNCHANGED children

\* A wrapper that was put nowhere, because its element joined equals, is forgotten.
Placed(child) == \E w \in Wrappers \union {Root} : Contains(child[w], po)

EndStrand(rest) ==
    /\ strands' = rest
    /\ IF rest = <<>> THEN po' = Root ELSE UNCHANGED po

StrandEqual(s) ==
    /\ compare(se, s.child) = "EQ"
    /\ LET joined == [equivObjs EXCEPT ![s.child] = addChild(@, se)]
       IN  equivObjs' = IF Tail(strands) = <<>> /\ ~Placed(children)
                           THEN [joined EXCEPT ![po] = <<>>] ELSE joined
    /\ UNCHANGED children
    /\ EndStrand(Tail(strands))

StrandLess(s) ==
    /\ compare(se, s.child) = "LT"
    /\ children' = IF Strands(se, s.child) = <<>>
                      THEN [children EXCEPT ![s.child] = addChild(@, po)] ELSE children
    /\ UNCHANGED equivObjs
    /\ EndStrand(Tail(strands) \o Strands(se, s.child))

StrandGreater(s) ==
    /\ compare(se, s.child) = "GT"
    /\ children' = [children EXCEPT ![s.parent] = addChild(removeChild(@, s.child), po),
                                    ![po] = addChild(@, s.child)]
    /\ UNCHANGED equivObjs
    /\ EndStrand(Tail(strands))

\* One round of the loop of addElement.
placeElement ==
    /\ po # Root
    /\ \/ StrandEqual(Head(strands)) \/ StrandLess(Head(strands)) \/ StrandGreater(Head(strands))
    /\ UNCHANGED <<order, parallelFactor, created, pc, held, sendStations, waiting>>

\* Mutant: the children of an emptied wrapper are not handed to the root.
popTopForgets ==
    /\ equivObjs' = [equivObjs EXCEPT ![Head(children[Root])] = Tail(@)]
    /\ children' = IF Len(equivObjs[Head(children[Root])]) > 1 THEN children
                   ELSE [children EXCEPT ![Root] = Tail(@), ![Head(children[Root])] = <<>>]

\* popTop: the first element of the root's first child, which goes when it is
\* empty and leaves its children to the root.
top == Head(children[Root])

popTop ==
    /\ equivObjs' = [equivObjs EXCEPT ![top] = Tail(@)]
    /\ children' = IF Len(equivObjs[top]) > 1 THEN children
                   ELSE [children EXCEPT
                           ![Root] = Tail(addChildren(@, children[top])),
                           ![top] = <<>>]

-----------------------------------------------------------------------------
(* The queue around it.                                                    *)

Init ==
    /\ order \in Orders /\ parallelFactor \in ParallelFactors
    /\ created = 0
    /\ equivObjs = [w \in Wrappers |-> <<>>]
    /\ children = [w \in Wrappers \union {Root} |-> <<>>]
    /\ po = Root /\ strands = <<>>
    /\ pc = "idle" /\ held = NoElement
    /\ sendStations = {} /\ waiting = {}

\* onSendPriority
addSendPriorityElement(e) ==
    /\ pc = "idle" /\ po = Root
    /\ created < MaxElements /\ e.createTime = created + 1
    /\ created' = created + 1
    /\ waiting' = waiting \union {e}
    /\ addElement(e)
    /\ pc' = "start"
    /\ UNCHANGED <<order, parallelFactor, held, sendStations>>

\* Mutant: the free station is not filled.
removeSendPriorityElementOnly(e) ==
    /\ pc = "idle" /\ po = Root
    /\ sendStations # {}
    /\ sendStations' = sendStations \ {e}
    /\ UNCHANGED <<order, parallelFactor, created, equivObjs, children, po, strands, pc, held, waiting>>

\* onSendSuccessful, onSendFailure.  The verdict may be about what never went
\* through the queue (a control message, a late answer): nothing leaves a station
\* then.  A node without elements in its stations has no state.
removeSendPriorityElement(e) ==
    /\ pc = "idle" /\ po = Root
    /\ sendStations # {}
    /\ sendStations' = sendStations \ {e}
    /\ pc' = "start"
    /\ UNCHANGED <<order, parallelFactor, created, equivObjs, children, po, strands, held, waiting>>

\* startSend takes the top.
TakeTop ==
    /\ pc = "start" /\ po = Root
    /\ children[Root] # <<>>
    /\ popTop
    /\ held' = Head(equivObjs[top])
    /\ pc' = "held"
    /\ UNCHANGED <<order, parallelFactor, created, po, strands, sendStations, waiting>>

\* There is nothing to take.  When the stations are empty too the state of the
\* node is removed; a new one starts with an empty graph again.
QueueEmpty ==
    /\ pc = "start" /\ po = Root
    /\ children[Root] = <<>>
    /\ pc' = "idle"
    /\ UNCHANGED <<order, parallelFactor, created, equivObjs, children, po, strands, held, sendStations, waiting>>

StationFree == Cardinality(sendStations) < parallelFactor

Send ==
    /\ pc = "held" /\ StationFree
    /\ sendStations' = sendStations \union {held}
    /\ waiting' = waiting \ {held}
    /\ held' = NoElement
    /\ pc' = "idle"
    /\ UNCHANGED <<order, parallelFactor, created, equivObjs, children, po, strands>>

PutBack ==
    /\ pc = "held" /\ ~StationFree
    /\ addElement(held)
    /\ held' = NoElement
    /\ pc' = "idle"
    /\ UNCHANGED <<order, parallelFactor, created, sendStations, waiting>>

Next ==
    \/ \E e \in Elements : addSendPriorityElement(e)
    \/ \E e \in sendStations \union {NoElement} : removeSendPriorityElement(e)
    \/ placeElement
    \/ TakeTop \/ QueueEmpty \/ Send \/ PutBack

Spec == Init /\ [][Next]_vars

-----------------------------------------------------------------------------
(* Properties.                                                             *)

Idle == pc = "idle" /\ po = Root

Reachable == UNION {ToSet(children[w]) : w \in Wrappers \union {Root}}

\* Between two handlers the graph holds every element that waits in exactly one
\* wrapper, and points to wrappers that exist only.
EachHeldOnce ==
    Idle =>
      /\ Reachable = {w \in Wrappers : equivObjs[w] # <<>>}
      /\ \A w \in Wrappers : ToSet(equivObjs[w]) \subseteq waiting
      /\ \A e \in waiting : Cardinality({p \in Wrappers \X (1..MaxElements) :
            p[2] <= Len(equivObjs[p[1]]) /\ equivObjs[p[1]][p[2]] = e}) = 1

\* What the configurations promise of two elements that wait.
MustPrecede(a, b) ==
    \/ order = "FIFO" /\ a.createTime < b.createTime
    \/ order \in {"Attribute", "Configured", "AttributePriority"} /\ a.bolo /\ ~b.bolo
    \/ order = "Priority" /\ b.priority # NoPriority /\ a.priority > b.priority
    \/ /\ order \in {"Configured", "AttributePriority"}
       /\ a.bolo = b.bolo /\ b.priority # NoPriority /\ a.priority > b.priority
    \/ /\ order = "Configured"
       /\ a.bolo = b.bolo /\ a.priority = NoPriority /\ b.priority = NoPriority
       /\ a.createTime < b.createTime

\* An element is handed out only when none that has to go before it waits.
HighestFirst ==
    [][\A e \in waiting \ waiting' : \A f \in waiting' : ~MustPrecede(f, e)]_vars

\* Elements wait only while every station is taken: each handler fills at most one
\* station, and that is enough.
StationsBusy == Idle /\ waiting # {} => ~StationFree
=============================================================================
