--------------------------- MODULE SendOrderProofs ---------------------------
(***************************************************************************)
(* Proofs about the send queue of a destination, for any number of         *)
(* elements, priorities and stations, under each order but the combination *)
(* of attribute and priority without FIFO, under which an element can be   *)
(* placed twice.                                                           *)
(***************************************************************************)
EXTENDS SendOrder, FiniteSetTheorems, WellFoundedInduction, TLAPS

-----------------------------------------------------------------------------
(* Selecting from a list.                                                  *)

\* f lists the positions P in increasing order.
Lists(f, n, P) ==
    /\ f \in [1..n -> P]
    /\ \A i, j \in 1..n : i < j => f[i] < f[j]
    /\ \A p \in P : \E i \in 1..n : f[i] = p

\* A set of naturals that is not empty has a least element.
LEMMA LeastNatural ==
    ASSUME NEW T, T \subseteq Nat, T # {}
    PROVE  \E x \in T : \A y \in T : x <= y
<1>1. PICK R : R = OpToRel(<, Nat) OBVIOUS
<1>2. IsWellFoundedOn(R, Nat) BY <1>1, NatLessThanWellFounded
<1>3. PICK x \in T : \A y \in T : ~ (<<y, x>> \in R) BY <1>2, WFMin
<1>4. \A y \in T : ~(y < x) BY <1>1, <1>3 DEF OpToRel
<1>5. QED BY <1>4

\* Every set of positions up to m can be listed.
Listed(m) == \A Q \in SUBSET (1..m) : IsFiniteSet(Q) /\ \E f : Lists(f, Cardinality(Q), Q)

\* Every set of positions can be listed: the least length that disproves it is not 0,
\* and not one more than a length that does not.
LEMMA ListExists ==
    ASSUME NEW n \in Nat, NEW P \in SUBSET (1..n)
    PROVE  IsFiniteSet(P) /\ \E f : Lists(f, Cardinality(P), P)
<1>1. PICK Bad : Bad = {m \in Nat : ~Listed(m)} OBVIOUS
<1>2. Bad \subseteq Nat /\ \A m \in Nat : m \in Bad <=> ~Listed(m) BY <1>1
<1>3. SUFFICES ASSUME Bad # {} PROVE FALSE BY <1>2 DEF Listed
<1>4. PICK m \in Bad : \A k \in Bad : m <= k BY <1>2, <1>3, LeastNatural
<1>5. m \in Nat /\ ~Listed(m) BY <1>2, <1>4
<1>6. ASSUME NEW Q \in SUBSET (1..m) PROVE IsFiniteSet(Q) /\ \E f : Lists(f, Cardinality(Q), Q)
  <2>0. PICK I : I = 1..m OBVIOUS
  <2>1. IsFiniteSet(Q)
    <3>1. IsFiniteSet(I) BY <1>5, <2>0, FS_Interval
    <3>2. QED BY <2>0, <3>1, FS_Subset
  <2>2. CASE m = 0
    <3>0. I = {} BY <2>0, <2>2
    <3>1. Q = {} /\ Cardinality(Q) = 0 BY <2>0, <3>0, FS_EmptySet
    <3>2. Lists(<<>>, 0, Q) BY <3>1 DEF Lists
    <3>3. QED BY <2>1, <3>1, <3>2
  <2>3. CASE m # 0
    <3>1. m - 1 \in Nat /\ Listed(m - 1)
      <4>1. m - 1 \in Nat /\ ~(m <= m - 1) BY <2>3, <1>5
      <4>2. QED BY <4>1, <1>2, <1>4
    <3>2. PICK U : U = Q \ {m} OBVIOUS
    <3>3. U \in SUBSET (1..(m - 1)) BY <3>2, <1>5, <2>3
    <3>4. IsFiniteSet(U) /\ \E f : Lists(f, Cardinality(U), U) BY <3>1, <3>3 DEF Listed
    <3>5. PICK f : Lists(f, Cardinality(U), U) BY <3>4
    <3>6. PICK c : c = Cardinality(U) OBVIOUS
    <3>7. c \in Nat BY <3>4, <3>6, FS_CardinalityType
    <3>8. CASE m \notin Q
      <4>1. U = Q BY <3>2, <3>8
      <4>2. QED BY <2>1, <3>5, <4>1
    <3>9. CASE m \in Q
      <4>1. Cardinality(Q) = c + 1
        <5>1. Q = U \union {m} /\ m \notin U BY <3>2, <3>9
        <5>2. QED BY <3>4, <3>6, <5>1, FS_AddElement
      <4>2. PICK g : g = [i \in 1..(c + 1) |-> IF i = c + 1 THEN m ELSE f[i]] OBVIOUS
      <4>3. \A i \in 1..c : f[i] \in U /\ f[i] < m
        <5>1. \A i \in 1..c : f[i] \in U BY <3>5, <3>6 DEF Lists
        <5>2. \A p \in U : p \in 1..(m - 1) BY <3>3
        <5>3. QED BY <5>1, <5>2, <1>5
      <4>4. g \in [1..(c + 1) -> Q] BY <3>2, <3>7, <3>9, <4>2, <4>3
      <4>5. \A i, j \in 1..(c + 1) : i < j => g[i] < g[j] BY <3>5, <3>6, <3>7, <4>2, <4>3 DEF Lists
      <4>6. \A p \in Q : \E i \in 1..(c + 1) : g[i] = p
        <5>1. TAKE p \in Q
        <5>2. CASE p = m BY <3>7, <4>2, <5>2
        <5>3. CASE p # m
          <6>1. PICK i \in 1..c : f[i] = p BY <3>2, <3>5, <3>6, <5>3 DEF Lists
          <6>2. i \in 1..(c + 1) /\ g[i] = p BY <3>7, <4>2, <6>1
          <6>3. QED BY <6>2
        <5>4. QED BY <5>2, <5>3
      <4>7. Lists(g, Cardinality(Q), Q) BY <4>1, <4>4, <4>5, <4>6 DEF Lists
      <4>8. QED BY <2>1, <4>7
    <3>10. QED BY <3>8, <3>9
  <2>4. QED BY <2>2, <2>3
<1>7. QED BY <1>5, <1>6 DEF Listed

\* What Selected selects.
LEMMA SelectedIs ==
    ASSUME NEW S, NEW list \in Seq(S), NEW P \in SUBSET (1..Len(list))
    PROVE  /\ Selected(list, P) \in Seq(S)
           /\ \E f : /\ Lists(f, Len(Selected(list, P)), P)
                     /\ \A i \in 1..Len(Selected(list, P)) : Selected(list, P)[i] = list[f[i]]
<1>1. Len(list) \in Nat /\ \A i \in 1..Len(list) : list[i] \in S OBVIOUS
<1>2. PICK n : n = Cardinality(P) OBVIOUS
<1>3. PICK f : f = CHOOSE g \in [1..n -> P] :
                 /\ \A i, j \in 1..n : i < j => g[i] < g[j]
                 /\ \A p \in P : \E i \in 1..n : g[i] = p
  OBVIOUS
<1>4. IsFiniteSet(P) /\ \E g : Lists(g, n, P) BY <1>1, <1>2, ListExists
<1>5. n \in Nat BY <1>2, <1>4, FS_CardinalityType
<1>6. Lists(f, n, P) BY <1>3, <1>4 DEF Lists
<1>7. PICK r : r = Selected(list, P) OBVIOUS
<1>8. r = [i \in 1..n |-> list[f[i]]] BY <1>2, <1>3, <1>7 DEF Selected
<1>9. \A i \in 1..n : list[f[i]] \in S BY <1>1, <1>6 DEF Lists
<1>10. r \in Seq(S) /\ Len(r) = n BY <1>5, <1>8, <1>9
<1>11. \A i \in 1..n : r[i] = list[f[i]] BY <1>8
<1>12. QED BY <1>6, <1>7, <1>10, <1>11

-----------------------------------------------------------------------------
(* Lists without repetitions.                                              *)

Distinct(s) == \A i, j \in 1..Len(s) : s[i] = s[j] => i = j

\* Selecting keeps a list free of repetitions.
LEMMA SelectedMembers ==
    ASSUME NEW S, NEW list \in Seq(S), NEW P \in SUBSET (1..Len(list)), Distinct(list)
    PROVE  /\ Selected(list, P) \in Seq(S) /\ Distinct(Selected(list, P))
           /\ \A w : Contains(Selected(list, P), w) <=> \E p \in P : list[p] = w
<1>1. PICK r : r = Selected(list, P) OBVIOUS
<1>2. r \in Seq(S) /\ \E g : Lists(g, Len(r), P) /\ \A i \in 1..Len(r) : r[i] = list[g[i]]
  BY <1>1, SelectedIs
<1>3. PICK f : Lists(f, Len(r), P) /\ \A i \in 1..Len(r) : r[i] = list[f[i]] BY <1>2
<1>4. Len(r) \in Nat /\ Len(list) \in Nat BY <1>2
<1>5. \A i \in 1..Len(r) : f[i] \in P /\ f[i] \in 1..Len(list) /\ f[i] \in Int
  <2>1. \A i \in 1..Len(r) : f[i] \in P BY <1>3 DEF Lists
  <2>2. \A p \in P : p \in 1..Len(list) /\ p \in Int BY <1>4
  <2>3. QED BY <2>1, <2>2
<1>6. ASSUME NEW i \in 1..Len(r), NEW j \in 1..Len(r), r[i] = r[j] PROVE i = j
  <2>1. f[i] = f[j] BY <1>3, <1>5, <1>6 DEF Distinct
  <2>2. ~(i < j) /\ ~(j < i) BY <2>1, <1>3, <1>5 DEF Lists
  <2>3. QED BY <1>4, <2>2
<1>7. ASSUME NEW w PROVE Contains(r, w) <=> \E p \in P : list[p] = w
  <2>1. ASSUME Contains(r, w) PROVE \E p \in P : list[p] = w
    <3>1. PICK i \in 1..Len(r) : r[i] = w BY <2>1 DEF Contains
    <3>2. QED BY <3>1, <1>3, <1>5
  <2>2. ASSUME NEW p \in P, list[p] = w PROVE Contains(r, w)
    <3>1. PICK i \in 1..Len(r) : f[i] = p BY <1>3 DEF Lists
    <3>2. QED BY <3>1, <2>2, <1>3 DEF Contains
  <2>3. QED BY <2>1, <2>2
<1>8. QED BY <1>1, <1>2, <1>6, <1>7 DEF Distinct

\* PartialOrderElement::addChild.
LEMMA AddedChild ==
    ASSUME NEW S, NEW list \in Seq(S), NEW w \in S, Distinct(list)
    PROVE  /\ addChild(list, w) \in Seq(S) /\ Distinct(addChild(list, w))
           /\ \A x : Contains(addChild(list, w), x) <=> Contains(list, x) \/ x = w
<1>1. CASE Contains(list, w) BY <1>1 DEF addChild
<1>2. CASE ~Contains(list, w)
  <2>1. PICK r : r = addChild(list, w) OBVIOUS
  <2>2. /\ r \in Seq(S) /\ Len(list) \in Nat /\ Len(r) = Len(list) + 1 /\ r[Len(list) + 1] = w
        /\ \A i \in 1..Len(list) : r[i] = list[i]
    BY <1>2, <2>1 DEF addChild
  <2>3. Distinct(r) BY <1>2, <2>2 DEF Distinct, Contains
  <2>4. \A x : Contains(r, x) <=> Contains(list, x) \/ x = w
    <3>1. TAKE x
    <3>2. ASSUME Contains(r, x) PROVE Contains(list, x) \/ x = w
      <4>1. PICK i \in 1..Len(r) : r[i] = x BY <3>2 DEF Contains
      <4>2. i = Len(list) + 1 \/ i \in 1..Len(list) BY <2>2
      <4>3. QED BY <2>2, <4>1, <4>2 DEF Contains
    <3>3. ASSUME NEW i \in 1..Len(list), list[i] = x PROVE Contains(r, x)
      <4>1. i \in 1..Len(r) /\ r[i] = x BY <2>2, <3>3
      <4>2. QED BY <4>1 DEF Contains
    <3>4. Contains(r, w)
      <4>1. Len(list) + 1 \in 1..Len(r) BY <2>2
      <4>2. QED BY <2>2, <4>1 DEF Contains
    <3>5. QED BY <3>2, <3>3, <3>4 DEF Contains
  <2>5. QED BY <2>1, <2>2, <2>3, <2>4
<1>3. QED BY <1>1, <1>2

\* PartialOrderElement::removeChild.
LEMMA RemovedChild ==
    ASSUME NEW S, NEW list \in Seq(S), NEW w, Distinct(list)
    PROVE  /\ removeChild(list, w) \in Seq(S) /\ Distinct(removeChild(list, w))
           /\ \A x : Contains(removeChild(list, w), x) <=> Contains(list, x) /\ x # w
<1>1. PICK P : P = {i \in 1..Len(list) : list[i] # w} OBVIOUS
<1>2. P \in SUBSET (1..Len(list)) /\ removeChild(list, w) = Selected(list, P) BY <1>1 DEF removeChild
<1>3. /\ Selected(list, P) \in Seq(S) /\ Distinct(Selected(list, P))
      /\ \A x : Contains(Selected(list, P), x) <=> \E p \in P : list[p] = x
  BY <1>2, SelectedMembers
<1>4. \A x : (\E p \in P : list[p] = x) <=> Contains(list, x) /\ x # w BY <1>1 DEF Contains
<1>5. QED BY <1>2, <1>3, <1>4

\* A list after another one.
LEMMA Joined ==
    ASSUME NEW S, NEW s \in Seq(S), NEW t \in Seq(S), Distinct(s), Distinct(t),
           \A x : ~(Contains(s, x) /\ Contains(t, x))
    PROVE  /\ s \o t \in Seq(S) /\ Distinct(s \o t) /\ Len(s \o t) = Len(s) + Len(t)
           /\ \A i \in 1..Len(s) : (s \o t)[i] = s[i]
           /\ \A x : Contains(s \o t, x) <=> Contains(s, x) \/ Contains(t, x)
<1>1. PICK r : r = s \o t OBVIOUS
<1>2. /\ r \in Seq(S) /\ Len(s) \in Nat /\ Len(t) \in Nat /\ Len(r) = Len(s) + Len(t)
      /\ \A i \in 1..Len(s) : r[i] = s[i]
      /\ \A i \in 1..Len(t) : r[Len(s) + i] = t[i]
  BY <1>1
<1>3. \A i \in 1..Len(r) : i \in 1..Len(s) \/ (i - Len(s) \in 1..Len(t) /\ r[i] = t[i - Len(s)])
  <2>1. TAKE i \in 1..Len(r)
  <2>2. CASE i <= Len(s) BY <1>2, <2>2
  <2>3. CASE i > Len(s)
    <3>1. i - Len(s) \in 1..Len(t) /\ Len(s) + (i - Len(s)) = i BY <1>2, <2>3
    <3>2. QED BY <1>2, <3>1
  <2>4. QED BY <1>2, <2>2, <2>3
<1>4. ASSUME NEW i \in 1..Len(r), NEW j \in 1..Len(r), r[i] = r[j] PROVE i = j
  <2>1. CASE i \in 1..Len(s) /\ j \in 1..Len(s) BY <1>2, <1>4, <2>1 DEF Distinct
  <2>2. CASE i \in 1..Len(s) /\ j \notin 1..Len(s)
    <3>1. Contains(s, r[i]) BY <1>2, <2>2 DEF Contains
    <3>2. Contains(t, r[j]) BY <1>3, <2>2 DEF Contains
    <3>3. QED BY <1>4, <3>1, <3>2
  <2>3. CASE i \notin 1..Len(s) /\ j \in 1..Len(s)
    <3>1. Contains(s, r[j]) BY <1>2, <2>3 DEF Contains
    <3>2. Contains(t, r[i]) BY <1>3, <2>3 DEF Contains
    <3>3. QED BY <1>4, <3>1, <3>2
  <2>4. CASE i \notin 1..Len(s) /\ j \notin 1..Len(s)
    <3>1. /\ i - Len(s) \in 1..Len(t) /\ j - Len(s) \in 1..Len(t)
          /\ t[i - Len(s)] = t[j - Len(s)]
      BY <1>3, <1>4, <2>4
    <3>2. i - Len(s) = j - Len(s) BY <3>1 DEF Distinct
    <3>3. QED BY <1>2, <3>2
  <2>5. QED BY <2>1, <2>2, <2>3, <2>4
<1>5. ASSUME NEW x PROVE Contains(r, x) <=> Contains(s, x) \/ Contains(t, x)
  <2>1. ASSUME NEW i \in 1..Len(s), s[i] = x PROVE Contains(r, x)
    <3>1. i \in 1..Len(r) /\ r[i] = x BY <1>2, <2>1
    <3>2. QED BY <3>1 DEF Contains
  <2>2. ASSUME NEW i \in 1..Len(t), t[i] = x PROVE Contains(r, x)
    <3>1. Len(s) + i \in 1..Len(r) /\ r[Len(s) + i] = x BY <1>2, <2>2
    <3>2. QED BY <3>1 DEF Contains
  <2>3. ASSUME NEW i \in 1..Len(r), r[i] = x PROVE Contains(s, x) \/ Contains(t, x)
    BY <1>2, <1>3, <2>3 DEF Contains
  <2>4. QED BY <2>1, <2>2, <2>3 DEF Contains
<1>6. QED BY <1>1, <1>2, <1>4, <1>5 DEF Distinct

\* PartialOrderElement::addChildren.
LEMMA AddedChildren ==
    ASSUME NEW S, NEW list \in Seq(S), NEW more \in Seq(S), Distinct(list), Distinct(more)
    PROVE  LET r == addChildren(list, more)
           IN  /\ r \in Seq(S) /\ Distinct(r) /\ Len(r) >= Len(list)
               /\ \A i \in 1..Len(list) : r[i] = list[i]
               /\ \A x : Contains(r, x) <=> Contains(list, x) \/ Contains(more, x)
<1>1. PICK P : P = {i \in 1..Len(more) : ~Contains(list, more[i])} OBVIOUS
<1>2. PICK t : t = Selected(more, P) OBVIOUS
<1>3. P \in SUBSET (1..Len(more)) /\ addChildren(list, more) = list \o t BY <1>1, <1>2 DEF addChildren
<1>4. t \in Seq(S) /\ Distinct(t) /\ \A x : Contains(t, x) <=> \E p \in P : more[p] = x
  BY <1>2, <1>3, SelectedMembers
<1>5. \A x : (\E p \in P : more[p] = x) <=> Contains(more, x) /\ ~Contains(list, x) BY <1>1 DEF Contains
<1>6. /\ list \o t \in Seq(S) /\ Distinct(list \o t) /\ Len(list \o t) = Len(list) + Len(t)
      /\ \A i \in 1..Len(list) : (list \o t)[i] = list[i]
      /\ \A x : Contains(list \o t, x) <=> Contains(list, x) \/ Contains(t, x)
  BY <1>4, <1>5, Joined
<1>7. Len(list) + Len(t) >= Len(list) BY <1>4
<1>8. QED BY <1>3, <1>4, <1>5, <1>6, <1>7

\* A list without its first member.
LEMMA Rest ==
    ASSUME NEW S, NEW list \in Seq(S), list # <<>>, Distinct(list)
    PROVE  /\ Tail(list) \in Seq(S) /\ Distinct(Tail(list)) /\ Len(Tail(list)) = Len(list) - 1
           /\ Head(list) = list[1] /\ Head(list) \in S /\ Contains(list, Head(list))
           /\ \A i \in 1..Len(Tail(list)) : i + 1 \in 1..Len(list) /\ Tail(list)[i] = list[i + 1]
           /\ \A x : Contains(Tail(list), x) <=> Contains(list, x) /\ x # Head(list)
<1>1. PICK r : r = Tail(list) OBVIOUS
<1>2. /\ r \in Seq(S) /\ Len(list) \in Nat /\ Len(list) >= 1 /\ Len(r) = Len(list) - 1
      /\ Head(list) = list[1] /\ list[1] \in S
  BY <1>1
<1>3. \A i \in 1..Len(r) : i + 1 \in 1..Len(list) /\ r[i] = list[i + 1] BY <1>1, <1>2
<1>4. ASSUME NEW i \in 1..Len(r), NEW j \in 1..Len(r), r[i] = r[j] PROVE i = j
  <2>1. i + 1 = j + 1 BY <1>3, <1>4 DEF Distinct
  <2>2. QED BY <1>2, <2>1
<1>5. 1 \in 1..Len(list) BY <1>2
<1>6. ASSUME NEW x PROVE Contains(r, x) <=> Contains(list, x) /\ x # list[1]
  <2>1. ASSUME NEW i \in 1..Len(r), r[i] = x PROVE Contains(list, x) /\ x # list[1]
    <3>1. i + 1 \in 1..Len(list) /\ list[i + 1] = x /\ i + 1 # 1 BY <1>2, <1>3, <2>1
    <3>2. QED BY <1>5, <3>1 DEF Contains, Distinct
  <2>2. ASSUME NEW i \in 1..Len(list), list[i] = x, x # list[1] PROVE Contains(r, x)
    <3>1. i # 1 BY <2>2
    <3>2. i - 1 \in 1..Len(r) /\ (i - 1) + 1 = i BY <1>2, <3>1
    <3>3. r[i - 1] = x BY <1>3, <2>2, <3>2
    <3>4. QED BY <3>2, <3>3 DEF Contains
  <2>3. QED BY <2>1, <2>2 DEF Contains
<1>7. Contains(list, list[1]) BY <1>5 DEF Contains
<1>8. QED BY <1>1, <1>2, <1>3, <1>4, <1>6, <1>7 DEF Distinct

\* Lists of nothing and of one.
LEMMA ListOfNone ==
    ASSUME NEW S, NEW list \in Seq(S), \A x : ~Contains(list, x)
    PROVE  list = <<>>
<1>1. Len(list) \in Nat /\ (1 \in 1..Len(list) => Contains(list, list[1])) BY DEF Contains
<1>2. Len(list) = 0 BY <1>1
<1>3. QED BY <1>2

LEMMA ListOfOne ==
    ASSUME NEW S, NEW list \in Seq(S), Distinct(list), NEW w, \A x : Contains(list, x) <=> x = w
    PROVE  list = <<w>>
<1>1. Len(list) \in Nat /\ \A i \in 1..Len(list) : list[i] = w BY DEF Contains
<1>2. \A i, j \in 1..Len(list) : i = j BY <1>1 DEF Distinct
<1>3. \E i \in 1..Len(list) : list[i] = w BY DEF Contains
<1>4. Len(list) = 1 /\ list[1] = w
  <2>1. PICK n : n = Len(list) OBVIOUS
  <2>2. n \in Nat /\ n >= 1 BY <1>1, <1>3, <2>1
  <2>3. 1 \in 1..n /\ (n >= 2 => 2 \in 1..n) BY <2>2
  <2>4. ~(n >= 2) BY <1>2, <2>1, <2>3
  <2>5. QED BY <1>1, <2>1, <2>2, <2>3, <2>4
<1>5. w \in S BY <1>4
<1>6. QED BY <1>4, <1>5

-----------------------------------------------------------------------------
(* The inductive invariant.                                                *)

Nodes == Wrappers \union {Root}
StrandRecords == [child : Wrappers, parent : Nodes]

\* Every variable has its type.
TypeOK ==
    /\ order \in Orders /\ parallelFactor \in ParallelFactors /\ created \in 0..MaxElements
    /\ equivObjs \in [Wrappers -> Seq(Elements)] /\ children \in [Nodes -> Seq(Wrappers)]
    /\ po \in Nodes /\ strands \in Seq(StrandRecords)
    /\ pc \in {"idle", "start", "held"} /\ held \in Elements \union {NoElement}
    /\ sendStations \in SUBSET Elements /\ waiting \in SUBSET Elements

\* The number of its creation identifies an element.
Numbered ==
    /\ \A e \in waiting \union sendStations : e.createTime \in 1..created
    /\ \A a, b \in waiting \union sendStations : a.createTime = b.createTime => a = b
    /\ waiting \intersect sendStations = {}

\* An element that waits is in one wrapper, once, or is what startSend has in hand.
Filed ==
    /\ \A w \in Wrappers : Distinct(equivObjs[w]) /\ \A e : Contains(equivObjs[w], e) => e \in waiting
    /\ \A v, w \in Wrappers : \A e : Contains(equivObjs[v], e) /\ Contains(equivObjs[w], e) => v = w
    /\ \A e \in waiting : (\E w \in Wrappers : Contains(equivObjs[w], e)) \/ (pc = "held" /\ e = held)
    /\ pc = "held" => held \in waiting /\ \A w \in Wrappers : ~Contains(equivObjs[w], held)

\* addElement works on a wrapper with one element, and not while startSend has one in hand.
Placing ==
    /\ po = Root <=> strands = <<>>
    /\ po # Root => pc # "held" /\ Len(equivObjs[po]) = 1

\* Each handler fills one station, which is as many as it made free, or all that
\* waits can go.
Filling ==
    /\ IsFiniteSet(sendStations)
    /\ pc = "idle" => waiting = {} \/ ~StationFree
    /\ pc # "idle" => (\A a, b \in waiting : a = b) \/ Cardinality(sendStations) + 1 >= parallelFactor

\* What startSend has in hand is not preceded by anything.  What addElement places is the
\* newest element, or was in hand.
Fronted ==
    /\ pc = "held" => \A f \in waiting \ {held} : ~MustPrecede(f, held)
    /\ po # Root => \/ \A f \in waiting \ {se} : f.createTime < se.createTime
                    \/ \A f \in waiting \ {se} : ~MustPrecede(f, se)

\* Wrappers that are part of the graph.
In(w) == equivObjs[w] # <<>> /\ w # po

(* Orders under which the graph is a line: FIFO, where any two elements compare, the    *)
(* shipped combination, where they do, too, but not transitively, and priority, where   *)
(* elements without one stand beside the line.                                          *)

InLine(c) == c \in Seq(Wrappers) /\ Distinct(c) /\ \A i \in 1..Len(c) : In(c[i])

\* A wrapper beside the line has one element, without priority; those in it have one.
Beside(c) ==
    /\ \A w \in Wrappers : In(w) /\ ~Contains(c, w) =>
          /\ order = "Priority" /\ Len(equivObjs[w]) = 1 /\ equivObjs[w][1].priority = NoPriority
          /\ children[w] = <<>>
    /\ order = "Priority" =>
          \A i \in 1..Len(c) : \A e : Contains(equivObjs[c[i]], e) => e.priority # NoPriority

\* Each wrapper of the line points to the next, the root to the first and to what is beside.
Linked(c) ==
    /\ \A w \in Wrappers : ~In(w) => children[w] = <<>>
    /\ \A i \in 1..Len(c) : children[c[i]] = IF i < Len(c) THEN <<c[i + 1]>> ELSE <<>>
    /\ Distinct(children[Root])
    /\ \A w \in Wrappers : Contains(children[Root], w) <=> In(w) /\ (Contains(c, w) => w = c[1])

\* a and b compare as equal, and with respect to all others.
Alike(a, b) ==
    a = b \/ (/\ order \in {"Priority", "Configured"}
              /\ a.priority = b.priority /\ a.priority # NoPriority
              /\ order = "Configured" => a.bolo = b.bolo)

\* The elements of a wrapper are alike; none in a lower wrapper has to go before.
Ranked(c) ==
    /\ \A i \in 1..Len(c) : \A a, b :
          Contains(equivObjs[c[i]], a) /\ Contains(equivObjs[c[i]], b) => Alike(a, b)
    /\ \A i, j \in 1..Len(c) : \A a, b :
          i < j /\ Contains(equivObjs[c[i]], a) /\ Contains(equivObjs[c[j]], b) => ~MustPrecede(b, a)

\* Where addElement has come down the line.
Descended(c) ==
    po # Root =>
      /\ order = "Priority" => se.priority # NoPriority
      /\ \E i \in 1..Len(c) :
            /\ strands = <<[child |-> c[i], parent |-> IF i = 1 THEN Root ELSE c[i - 1]]>>
            /\ \A k \in 1..(i - 1) : \A a : Contains(equivObjs[c[k]], a) => ~MustPrecede(se, a)

LinedBy(c) == InLine(c) /\ Beside(c) /\ Linked(c) /\ Ranked(c) /\ Descended(c)

(* The attribute: two levels.                                                           *)

Bolo(w) == equivObjs[w][1].bolo

\* Only wrappers with the attribute have children, which are without it.
Levels ==
    /\ \A w \in Wrappers : Len(equivObjs[w]) <= 1
    /\ \A w \in Nodes : Distinct(children[w])
    /\ \A w, x \in Wrappers : Contains(children[w], x) =>
          /\ equivObjs[w] # <<>> /\ Bolo(w)
          /\ equivObjs[x] # <<>> /\ ~Bolo(x)
    /\ \A x \in Wrappers : Contains(children[Root], x) => equivObjs[x] # <<>>

\* Wrappers with the attribute are at the root, each other one is below something.
Hung ==
    \A w \in Wrappers : In(w) =>
        IF Bolo(w) THEN Contains(children[Root], w) ELSE \E p \in Nodes : Contains(children[p], w)

\* At the root those with the attribute come first.
BoloFirst ==
    po = Root \/ ~Bolo(po) =>
        \A i, j \in 1..Len(children[Root]) :
            i < j /\ Bolo(children[Root][j]) => Bolo(children[Root][i])

\* A wrapper with the attribute has still to go above every one without at the root; one
\* without it goes below some that have it.
Pending ==
    po # Root =>
      /\ \A i \in 1..Len(strands) :
            /\ strands[i].parent = Root /\ Contains(children[Root], strands[i].child)
            /\ Bolo(strands[i].child) <=> ~Bolo(po)
      /\ \A i, j \in 1..Len(strands) : strands[i].child = strands[j].child => i = j
      /\ Bolo(po) => \A x \in Wrappers :
            Contains(children[Root], x) /\ ~Bolo(x) => \E i \in 1..Len(strands) : strands[i].child = x

Levelled == Levels /\ Hung /\ BoloFirst /\ Pending

Shaped == IF order = "Attribute" THEN Levelled ELSE \E c : LinedBy(c)

\* The invariant but for the shape of the graph.
Content == TypeOK /\ order # "AttributePriority" /\ Numbered /\ Filed /\ Placing /\ Filling /\ Fronted

IInv == Content /\ Shaped

-----------------------------------------------------------------------------
(* The work list of addElement.                                            *)

\* Strands lists the children of parent that compare with e, each once.
LEMMA StrandsAre ==
    ASSUME NEW e, NEW parent \in Nodes, children[parent] \in Seq(Wrappers), Distinct(children[parent]),
           NEW r, r = Strands(e, parent)
    PROVE  /\ r \in Seq(StrandRecords)
           /\ \A i \in 1..Len(r) :
                 r[i].parent = parent /\ Contains(children[parent], r[i].child) /\ Comparable(e, r[i].child)
           /\ \A i, j \in 1..Len(r) : r[i].child = r[j].child => i = j
           /\ \A w : Contains(children[parent], w) /\ Comparable(e, w) => \E i \in 1..Len(r) : r[i].child = w
<1>1. PICK list : list = children[parent] OBVIOUS
<1>2. PICK P : P = {i \in 1..Len(list) : Comparable(e, list[i])} OBVIOUS
<1>3. PICK below : below = Selected(list, P) OBVIOUS
<1>4. r = [i \in 1..Len(below) |-> [child |-> below[i], parent |-> parent]]
  BY <1>1, <1>2, <1>3 DEF Strands
<1>5. P \in SUBSET (1..Len(list)) BY <1>2
<1>6. below \in Seq(Wrappers) /\ Distinct(below) /\ \A w : Contains(below, w) <=> \E p \in P : list[p] = w
  BY <1>1, <1>3, <1>5, SelectedMembers
<1>7. Len(below) \in Nat /\ \A i \in 1..Len(below) : below[i] \in Wrappers BY <1>6
<1>8. r \in Seq(StrandRecords) /\ Len(r) = Len(below)
  <2>1. \A i \in 1..Len(below) : [child |-> below[i], parent |-> parent] \in StrandRecords
    BY <1>7 DEF StrandRecords
  <2>2. QED BY <1>4, <1>7, <2>1
<1>9. \A i \in 1..Len(r) : r[i].child = below[i] /\ r[i].parent = parent BY <1>4, <1>8
<1>10. \A w : Contains(below, w) <=> Contains(list, w) /\ Comparable(e, w) BY <1>2, <1>6 DEF Contains
<1>11. \A i \in 1..Len(r) : Contains(below, below[i]) BY <1>8 DEF Contains
<1>12. \A i, j \in 1..Len(r) : r[i].child = r[j].child => i = j BY <1>6, <1>8, <1>9 DEF Distinct
<1>13. \A w : Contains(below, w) => \E i \in 1..Len(r) : r[i].child = w BY <1>8, <1>9 DEF Contains
<1>14. QED BY <1>1, <1>8, <1>9, <1>10, <1>11, <1>12, <1>13

\* Nothing below parent compares with e.
LEMMA NoStrand ==
    ASSUME NEW e, NEW parent \in Nodes, children[parent] \in Seq(Wrappers), Distinct(children[parent]),
           \A w \in Wrappers : Contains(children[parent], w) => ~Comparable(e, w)
    PROVE  Strands(e, parent) = <<>>
<1>1. PICK r : r = Strands(e, parent) OBVIOUS
<1>2. r \in Seq(StrandRecords) BY <1>1, StrandsAre
<1>3. \A i \in 1..Len(r) : r[i].child \in Wrappers
  <2>1. \A i \in 1..Len(r) : r[i] \in StrandRecords BY <1>2
  <2>2. QED BY <2>1 DEF StrandRecords
<1>4. \A i \in 1..Len(r) : Contains(children[parent], r[i].child) /\ Comparable(e, r[i].child)
  BY <1>1, StrandsAre
<1>5. \A i \in 1..Len(r) : FALSE BY <1>3, <1>4
<1>6. Len(r) \in Nat BY <1>2
<1>7. Len(r) = 0 BY <1>5, <1>6
<1>8. QED BY <1>1, <1>2, <1>7

\* One child of parent compares with e.
LEMMA OneStrand ==
    ASSUME NEW e, NEW parent \in Nodes, children[parent] \in Seq(Wrappers), Distinct(children[parent]),
           NEW v \in Wrappers, Contains(children[parent], v), Comparable(e, v),
           \A w \in Wrappers : Contains(children[parent], w) /\ w # v => ~Comparable(e, w)
    PROVE  Strands(e, parent) = <<[child |-> v, parent |-> parent]>>
<1>1. PICK r : r = Strands(e, parent) OBVIOUS
<1>2. r \in Seq(StrandRecords) BY <1>1, StrandsAre
<1>3. \A i \in 1..Len(r) : r[i] \in StrandRecords /\ r[i].child \in Wrappers
  <2>1. \A i \in 1..Len(r) : r[i] \in StrandRecords BY <1>2
  <2>2. QED BY <2>1 DEF StrandRecords
<1>4. \A i \in 1..Len(r) : r[i].parent = parent /\ Contains(children[parent], r[i].child) /\ Comparable(e, r[i].child)
  BY <1>1, StrandsAre
<1>5. \A i \in 1..Len(r) : r[i].child = v
  <2>1. TAKE i \in 1..Len(r)
  <2>2. PICK w : w = r[i].child OBVIOUS
  <2>3. w \in Wrappers /\ Contains(children[parent], w) /\ Comparable(e, w) BY <1>3, <1>4, <2>2
  <2>4. w = v BY <2>3
  <2>5. QED BY <2>2, <2>4
<1>6. \A i, j \in 1..Len(r) : r[i].child = r[j].child => i = j BY <1>1, StrandsAre
<1>7. \E i \in 1..Len(r) : r[i].child = v
  <2>1. \A w : Contains(children[parent], w) /\ Comparable(e, w) => \E i \in 1..Len(r) : r[i].child = w
    BY <1>1, StrandsAre
  <2>2. QED BY <2>1, Zenon
<1>8. Len(r) \in Nat BY <1>2
<1>9. Len(r) = 1
  <2>1. PICK n : n = Len(r) OBVIOUS
  <2>2. n \in Nat /\ n >= 1 BY <1>7, <1>8, <2>1
  <2>3. 1 \in 1..n /\ (n >= 2 => 2 \in 1..n) BY <2>2
  <2>4. ~(n >= 2) BY <1>5, <1>6, <2>1, <2>3
  <2>5. QED BY <2>1, <2>2, <2>4
<1>10. r[1] = [child |-> v, parent |-> parent]
  <2>1. r[1] \in StrandRecords /\ r[1].child = v /\ r[1].parent = parent BY <1>3, <1>4, <1>5, <1>9
  <2>2. QED BY <2>1 DEF StrandRecords
<1>11. [child |-> v, parent |-> parent] \in StrandRecords BY DEF StrandRecords
<1>12. QED BY <1>1, <1>2, <1>9, <1>10, <1>11

\* There are more wrappers than elements: addElement finds one.
LEMMA FreeWrapper ==
    ASSUME TypeOK, Numbered, Filed
    PROVE  LET v == CHOOSE w \in Wrappers : equivObjs[w] = <<>> IN v \in Wrappers /\ equivObjs[v] = <<>>
<1>1. SUFFICES ASSUME \A w \in Wrappers : equivObjs[w] # <<>> PROVE FALSE OBVIOUS
<1>2. MaxElements \in Nat BY SendOrderAssumption
<1>3. \A w \in Wrappers : Contains(equivObjs[w], equivObjs[w][1])
  <2>1. \A w \in Wrappers : Len(equivObjs[w]) >= 1 /\ Len(equivObjs[w]) \in Nat BY <1>1 DEF TypeOK
  <2>2. QED BY <2>1 DEF Contains
<1>4. \A w \in Wrappers : equivObjs[w][1] \in waiting BY <1>3 DEF Filed
<1>5. \A w \in Wrappers : equivObjs[w][1].createTime \in 1..MaxElements
  <2>1. \A w \in Wrappers : equivObjs[w][1] \in Elements BY <1>4 DEF TypeOK
  <2>2. QED BY <2>1 DEF Elements
<1>6. PICK f : f = [w \in Wrappers |-> equivObjs[w][1].createTime] OBVIOUS
<1>7. f \in [Wrappers -> 1..MaxElements] BY <1>5, <1>6
<1>8. IsFiniteSet(1..MaxElements) /\ Cardinality(1..MaxElements) = MaxElements
  <2>1. 1 \in Int /\ MaxElements \in Int BY <1>2
  <2>2. QED BY <1>2, <2>1, FS_Interval
<1>9. IsFiniteSet(Wrappers) /\ Cardinality(Wrappers) = MaxElements + 1
  <2>1. 1 \in Int /\ MaxElements + 1 \in Int BY <1>2
  <2>2. QED BY <1>2, <2>1, FS_Interval DEF Wrappers
<1>10. Cardinality(1..MaxElements) < Cardinality(Wrappers) BY <1>2, <1>8, <1>9
<1>11. \E x, y \in Wrappers : x # y /\ f[x] = f[y] BY <1>7, <1>8, <1>9, <1>10, FS_PigeonHole
<1>12. PICK x \in Wrappers, y \in Wrappers : x # y /\ f[x] = f[y] BY <1>11
<1>13. equivObjs[x][1] = equivObjs[y][1] BY <1>4, <1>6, <1>12 DEF Numbered
<1>14. QED BY <1>3, <1>12, <1>13 DEF Filed

-----------------------------------------------------------------------------
(* The orders under which the graph is a line.                             *)

LinearOrders == {"FIFO", "Priority", "Configured"}

LEMMA Fields ==
    ASSUME NEW e \in Elements
    PROVE  e.createTime \in Nat /\ e.createTime >= 1 /\ e.bolo \in BOOLEAN /\ e.priority \in Nat
<1>1. e.createTime \in 1..MaxElements /\ e.bolo \in BOOLEAN /\ e.priority \in Priorities \union {NoPriority}
  BY DEF Elements
<1>2. MaxElements \in Nat /\ Priorities \subseteq Nat BY SendOrderAssumption
<1>3. e.createTime \in Nat /\ e.createTime >= 1 BY <1>1, <1>2
<1>4. e.priority \in Nat
  <2>1. NoPriority \in Nat BY DEF NoPriority
  <2>2. QED BY <1>1, <1>2, <2>1
<1>5. QED BY <1>1, <1>3, <1>4

\* Elements compare, but for those without priority when that is all that counts.
LEMMA LinearCompares ==
    ASSUME NEW e \in Elements, NEW h \in Elements, order \in LinearOrders
    PROVE  /\ getPartialOrderForConfig(e, h) # "NC" <=>
                (order = "Priority" => e.priority # NoPriority /\ h.priority # NoPriority)
           /\ getPartialOrderForConfig(e, h) \in {"NC", "EQ", "LT", "GT"}
<1>1. CASE order = "FIFO" BY <1>1 DEF getPartialOrderForConfig, PartialOrderFIFO
<1>2. CASE order = "Priority" BY <1>2 DEF getPartialOrderForConfig, PartialOrderPriorityAttribute
<1>3. CASE order = "Configured"
  BY <1>3 DEF getPartialOrderForConfig, PartialOrderCombinerOrdered, PartialOrderAttribute,
              PartialOrderPriorityAttribute, PartialOrderFIFO
<1>4. QED BY <1>1, <1>2, <1>3 DEF LinearOrders

\* What is less than the first element of a wrapper has to go before none of its elements.
LEMMA LessNotBefore ==
    ASSUME NEW e \in Elements, NEW h \in Elements, NEW a \in Elements, order \in LinearOrders,
           getPartialOrderForConfig(e, h) = "LT", Alike(a, h)
    PROVE  ~MustPrecede(e, a)
<1>0. /\ e.createTime \in Nat /\ e.bolo \in BOOLEAN /\ e.priority \in Nat
      /\ h.createTime \in Nat /\ h.bolo \in BOOLEAN /\ h.priority \in Nat
      /\ a.createTime \in Nat /\ a.bolo \in BOOLEAN /\ a.priority \in Nat
  BY Fields
<1>1. CASE order = "FIFO" BY <1>0, <1>1 DEF getPartialOrderForConfig, PartialOrderFIFO, Alike, MustPrecede
<1>2. CASE order = "Priority"
  BY <1>0, <1>2 DEF getPartialOrderForConfig, PartialOrderPriorityAttribute, Alike, MustPrecede
<1>3. CASE order = "Configured"
  BY <1>0, <1>3 DEF getPartialOrderForConfig, PartialOrderCombinerOrdered, PartialOrderAttribute,
              PartialOrderPriorityAttribute, PartialOrderFIFO, Alike, MustPrecede, NoPriority
<1>4. QED BY <1>1, <1>2, <1>3 DEF LinearOrders

\* What is greater than the first element of a wrapper does not go after any of its elements.
LEMMA GreaterNotAfter ==
    ASSUME NEW e \in Elements, NEW h \in Elements, NEW a \in Elements, order \in LinearOrders,
           getPartialOrderForConfig(e, h) = "GT", Alike(a, h)
    PROVE  ~MustPrecede(a, e)
<1>0. /\ e.createTime \in Nat /\ e.bolo \in BOOLEAN /\ e.priority \in Nat
      /\ h.createTime \in Nat /\ h.bolo \in BOOLEAN /\ h.priority \in Nat
      /\ a.createTime \in Nat /\ a.bolo \in BOOLEAN /\ a.priority \in Nat
  BY Fields
<1>1. CASE order = "FIFO" BY <1>0, <1>1 DEF getPartialOrderForConfig, PartialOrderFIFO, Alike, MustPrecede
<1>2. CASE order = "Priority"
  BY <1>0, <1>2 DEF getPartialOrderForConfig, PartialOrderPriorityAttribute, Alike, MustPrecede
<1>3. CASE order = "Configured"
  BY <1>0, <1>3 DEF getPartialOrderForConfig, PartialOrderCombinerOrdered, PartialOrderAttribute,
              PartialOrderPriorityAttribute, PartialOrderFIFO, Alike, MustPrecede, NoPriority
<1>4. QED BY <1>1, <1>2, <1>3 DEF LinearOrders

\* An element greater than an earlier one is not preceded by what does not precede that.
\* This is where the shipped combination, which is not transitive, needs the age.
LEMMA GreaterOverLower ==
    ASSUME NEW e \in Elements, NEW h \in Elements, NEW x \in Elements, order \in LinearOrders,
           getPartialOrderForConfig(e, h) = "GT", h.createTime < e.createTime, ~MustPrecede(x, h)
    PROVE  ~MustPrecede(x, e)
<1>0. /\ e.createTime \in Nat /\ e.bolo \in BOOLEAN /\ e.priority \in Nat
      /\ h.createTime \in Nat /\ h.bolo \in BOOLEAN /\ h.priority \in Nat
      /\ x.createTime \in Nat /\ x.bolo \in BOOLEAN /\ x.priority \in Nat
  BY Fields
<1>1. CASE order = "FIFO" BY <1>0, <1>1 DEF getPartialOrderForConfig, PartialOrderFIFO, MustPrecede
<1>2. CASE order = "Priority"
  BY <1>0, <1>2 DEF getPartialOrderForConfig, PartialOrderPriorityAttribute, MustPrecede
<1>3. CASE order = "Configured"
  BY <1>0, <1>3 DEF getPartialOrderForConfig, PartialOrderCombinerOrdered, PartialOrderAttribute,
              PartialOrderPriorityAttribute, PartialOrderFIFO, MustPrecede, NoPriority
<1>4. QED BY <1>1, <1>2, <1>3 DEF LinearOrders

\* Two elements that compare as equal are alike.
LEMMA EqualAlike ==
    ASSUME NEW e \in Elements, NEW h \in Elements, order \in LinearOrders,
           getPartialOrderForConfig(e, h) = "EQ", e.createTime # h.createTime
    PROVE  Alike(e, h) /\ (order = "Priority" => e.priority # NoPriority)
<1>1. CASE order = "FIFO" BY <1>1 DEF getPartialOrderForConfig, PartialOrderFIFO
<1>2. CASE order = "Priority"
  BY <1>2 DEF getPartialOrderForConfig, PartialOrderPriorityAttribute, Alike
<1>3. CASE order = "Configured"
  <2>1. e.bolo \in BOOLEAN /\ h.bolo \in BOOLEAN BY Fields
  <2>2. QED
    BY <2>1, <1>3 DEF getPartialOrderForConfig, PartialOrderCombinerOrdered, PartialOrderAttribute,
              PartialOrderPriorityAttribute, PartialOrderFIFO, Alike
<1>4. QED BY <1>1, <1>2, <1>3 DEF LinearOrders

\* Those that are alike relate to others alike, and neither has to go before the other.
LEMMA AlikeOthers ==
    ASSUME NEW a \in Elements, NEW h \in Elements, NEW x \in Elements, order \in LinearOrders, Alike(a, h)
    PROVE  /\ ~MustPrecede(a, h) /\ ~MustPrecede(h, a)
           /\ MustPrecede(x, a) => MustPrecede(x, h)
           /\ MustPrecede(a, x) => MustPrecede(h, x)
           /\ Alike(x, h) => Alike(x, a)
<1>0. /\ a.createTime \in Nat /\ a.bolo \in BOOLEAN /\ a.priority \in Nat
      /\ h.createTime \in Nat /\ h.bolo \in BOOLEAN /\ h.priority \in Nat
      /\ x.createTime \in Nat /\ x.bolo \in BOOLEAN /\ x.priority \in Nat
  BY Fields
<1>1. CASE a = h BY <1>0, <1>1 DEF MustPrecede, Alike
<1>2. CASE order = "Priority" /\ a # h BY <1>0, <1>2 DEF MustPrecede, Alike
<1>3. CASE order = "Configured" /\ a # h BY <1>0, <1>3 DEF MustPrecede, Alike
<1>4. QED BY <1>1, <1>2, <1>3 DEF LinearOrders, Alike

-----------------------------------------------------------------------------
(* What both shapes of the graph have in common.                           *)

\* Every member of a list is at some place of it.
LEMMA Members ==
    ASSUME NEW S, NEW s \in Seq(S)
    PROVE  /\ Len(s) \in Nat /\ (s = <<>> <=> Len(s) = 0)
           /\ \A i \in 1..Len(s) : s[i] \in S /\ Contains(s, s[i])
           /\ \A x : Contains(s, x) => x \in S
           /\ s # <<>> => 1 \in 1..Len(s) /\ Head(s) = s[1] /\ Contains(s, s[1])
BY DEF Contains

LEMMA ShortLists ==
    /\ Distinct(<<>>) /\ \A x : ~Contains(<<>>, x)
    /\ \A y : Distinct(<<y>>) /\ \A x : Contains(<<y>>, x) <=> x = y
<1>1. Len(<<>>) = 0 /\ \A y : Len(<<y>>) = 1 /\ <<y>>[1] = y OBVIOUS
<1>2. QED BY <1>1 DEF Distinct, Contains

LEMMA NodesAre == Root \notin Wrappers /\ Nodes = Wrappers \union {Root} /\ Root \in Nodes
BY SendOrderAssumption DEF Nodes, Wrappers, Root

\* In a line, what each node points to.
LEMMA LineChildren ==
    ASSUME TypeOK, NEW c, LinedBy(c)
    PROVE  /\ \A w \in Nodes : Distinct(children[w])
           /\ \A w \in Wrappers, x \in Wrappers : Contains(children[w], x) =>
                 \E i \in 1..Len(c) : i < Len(c) /\ w = c[i] /\ x = c[i + 1]
           /\ \A w \in Nodes, x \in Wrappers : Contains(children[w], x) => In(x)
           /\ Contains(c, c[1]) <=> c # <<>>
<1>0. c \in Seq(Wrappers) /\ Len(c) \in Nat /\ \A i \in 1..Len(c) : In(c[i]) BY DEF LinedBy, InLine
<1>1. ASSUME NEW w \in Wrappers
      PROVE  \/ children[w] = <<>>
             \/ \E i \in 1..Len(c) : i < Len(c) /\ w = c[i] /\ children[w] = <<c[i + 1]>>
  <2>1. CASE ~In(w) BY <2>1 DEF LinedBy, Linked
  <2>2. CASE In(w) /\ ~Contains(c, w) BY <2>2 DEF LinedBy, Beside
  <2>3. CASE Contains(c, w)
    <3>1. PICK i \in 1..Len(c) : c[i] = w BY <2>3 DEF Contains
    <3>2. children[c[i]] = IF i < Len(c) THEN <<c[i + 1]>> ELSE <<>> BY DEF LinedBy, Linked
    <3>3. QED BY <3>1, <3>2
  <2>4. QED BY <2>1, <2>2, <2>3
<1>2. \A x, y : Contains(<<y>>, x) <=> x = y BY ShortLists
<1>3. \A y : Distinct(<<y>>) BY ShortLists
<1>4. Distinct(<<>>) /\ \A x : ~Contains(<<>>, x) BY ShortLists
<1>5. \A w \in Nodes : Distinct(children[w])
  <2>1. \A w \in Wrappers : Distinct(children[w]) BY <1>1, <1>3, <1>4
  <2>2. Distinct(children[Root]) BY DEF LinedBy, Linked
  <2>3. QED BY <2>1, <2>2 DEF Nodes
<1>6. \A w \in Wrappers, x \in Wrappers : Contains(children[w], x) =>
                 \E i \in 1..Len(c) : i < Len(c) /\ w = c[i] /\ x = c[i + 1]
  <2>1. SUFFICES ASSUME NEW w \in Wrappers, NEW x \in Wrappers, Contains(children[w], x)
                 PROVE  \E i \in 1..Len(c) : i < Len(c) /\ w = c[i] /\ x = c[i + 1]
    OBVIOUS
  <2>2. PICK i \in 1..Len(c) : i < Len(c) /\ w = c[i] /\ children[w] = <<c[i + 1]>> BY <1>1, <1>4, <2>1
  <2>3. QED BY <1>2, <2>1, <2>2
<1>7. \A i \in 1..Len(c) : i < Len(c) => In(c[i + 1])
  <2>1. \A i \in 1..Len(c) : i < Len(c) => i + 1 \in 1..Len(c) BY <1>0
  <2>2. QED BY <1>0, <2>1
<1>8. \A w \in Nodes, x \in Wrappers : Contains(children[w], x) => In(x)
  <2>1. \A x \in Wrappers : Contains(children[Root], x) => In(x) BY DEF LinedBy, Linked
  <2>2. QED BY <1>6, <1>7, <2>1 DEF Nodes
<1>9. Contains(c, c[1]) <=> c # <<>> BY <1>0, <1>4, Members
<1>10. QED BY <1>5, <1>6, <1>8, <1>9

\* The lists of children repeat nothing and have wrappers with elements only.
LEMMA ChildrenSound ==
    ASSUME TypeOK, Shaped
    PROVE  /\ \A w \in Nodes : Distinct(children[w])
           /\ \A w \in Nodes, x \in Wrappers : Contains(children[w], x) => equivObjs[x] # <<>>
<1>1. CASE order = "Attribute" BY <1>1 DEF Shaped, Levelled, Levels, Nodes
<1>2. CASE order # "Attribute"
  <2>1. PICK c : LinedBy(c) BY <1>2 DEF Shaped
  <2>2. QED BY <2>1, LineChildren DEF In
<1>3. QED BY <1>1, <1>2

\* A graph whose root has no child is empty.
LEMMA EmptyRoot ==
    ASSUME TypeOK, Shaped, po = Root, children[Root] = <<>>
    PROVE  \A w \in Wrappers : equivObjs[w] = <<>>
<1>0. \A x : ~Contains(children[Root], x)
  <2>1. Len(children[Root]) = 0 OBVIOUS
  <2>2. QED BY <2>1 DEF Contains
<1>1. SUFFICES ASSUME NEW w \in Wrappers, In(w) PROVE FALSE BY NodesAre DEF In
<1>2. CASE order = "Attribute"
  <2>1. ASSUME NEW x \in Wrappers, In(x), Bolo(x) PROVE FALSE
    BY <1>0, <1>2, <2>1 DEF Shaped, Levelled, Hung
  <2>2. PICK p \in Nodes : Contains(children[p], w) BY <1>1, <1>2, <2>1 DEF Shaped, Levelled, Hung
  <2>3. p \in Wrappers BY <1>0, <2>2 DEF Nodes
  <2>4. In(p) /\ Bolo(p) BY <1>2, <2>2, <2>3, NodesAre DEF Shaped, Levelled, Levels, In
  <2>5. QED BY <2>1, <2>3, <2>4
<1>3. CASE order # "Attribute"
  <2>1. PICK c : LinedBy(c) BY <1>3 DEF Shaped
  <2>2. Contains(c, w) /\ w # c[1] BY <1>0, <1>1, <2>1 DEF LinedBy, Linked
  <2>3. c \in Seq(Wrappers) /\ \A i \in 1..Len(c) : In(c[i]) BY <2>1 DEF LinedBy, InLine
  <2>4. 1 \in 1..Len(c) /\ c[1] \in Wrappers BY <2>2, <2>3 DEF Contains
  <2>5. Contains(children[Root], c[1]) BY <2>1, <2>3, <2>4 DEF LinedBy, Linked
  <2>6. QED BY <1>0, <2>5
<1>4. QED BY <1>2, <1>3

\* What addElement is placing.
LEMMA PlacedElement ==
    ASSUME TypeOK, Filed, Placing, po # Root
    PROVE  /\ po \in Wrappers /\ equivObjs[po] = <<se>> /\ se = equivObjs[po][1]
           /\ se \in Elements /\ se \in waiting /\ Contains(equivObjs[po], se)
           /\ \A x : Contains(equivObjs[po], x) <=> x = se
<1>1. po \in Wrappers BY DEF TypeOK, Nodes
<1>2. PICK q : q = equivObjs[po] OBVIOUS
<1>3. q \in Seq(Elements) /\ Len(q) = 1 BY <1>1, <1>2 DEF TypeOK, Placing
<1>4. q[1] \in Elements /\ q = <<q[1]>> /\ Head(q) = q[1] BY <1>3
<1>5. se = q[1] BY <1>2, <1>4 DEF se
<1>6. \A x : Contains(q, x) <=> x = q[1] BY <1>3 DEF Contains
<1>7. q[1] \in waiting BY <1>1, <1>2, <1>6 DEF Filed
<1>8. QED BY <1>1, <1>2, <1>4, <1>5, <1>6, <1>7

-----------------------------------------------------------------------------
(* addElement up to its loop.                                              *)

\* addElement with the wrapper it takes.
Added(e, v) ==
    /\ equivObjs[v] = <<>> /\ equivObjs' = [equivObjs EXCEPT ![v] = <<e>>]
    /\ strands' = Strands(e, Root)
    /\ strands' = <<>> => po' = Root /\ children' = [children EXCEPT ![Root] = Append(@, v)]
    /\ strands' # <<>> => po' = v /\ children' = children

LEMMA AddTakes ==
    ASSUME TypeOK, Numbered, Filed, NEW e \in Elements, addElement(e)
    PROVE  \E v \in Wrappers : Added(e, v)
<1>1. PICK v : v = CHOOSE w \in Wrappers : equivObjs[w] = <<>> OBVIOUS
<1>2. v \in Wrappers /\ equivObjs[v] = <<>> BY <1>1, FreeWrapper
<1>3. Added(e, v) BY <1>1, <1>2 DEF addElement, Added
<1>4. QED BY <1>2, <1>3

\* What addElement leaves, whatever the shape.
LEMMA AddLeaves ==
    ASSUME TypeOK, Filed, Shaped, po = Root, NEW e \in Elements, NEW v \in Wrappers, Added(e, v)
    PROVE  /\ equivObjs' \in [Wrappers -> Seq(Elements)] /\ children' \in [Nodes -> Seq(Wrappers)]
           /\ po' \in Nodes /\ strands' \in Seq(StrandRecords)
           /\ \A w \in Wrappers : \A x : Contains(equivObjs'[w], x) <=> Contains(equivObjs[w], x) \/ (w = v /\ x = e)
           /\ \A w \in Wrappers : Distinct(equivObjs'[w])
           /\ po' = Root <=> strands' = <<>>
           /\ po' # Root => po' = v /\ Len(equivObjs'[po']) = 1 /\ se' = e
<1>1. equivObjs'[v] = <<e>> /\ \A w \in Wrappers : w # v => equivObjs'[w] = equivObjs[w]
  BY DEF TypeOK, Added
<1>2. equivObjs' \in [Wrappers -> Seq(Elements)] BY DEF TypeOK, Added
<1>3. children[Root] \in Seq(Wrappers) /\ Distinct(children[Root]) BY ChildrenSound, NodesAre DEF TypeOK
<1>4. strands' \in Seq(StrandRecords) BY <1>3, NodesAre, StrandsAre DEF Added
<1>5. children' \in [Nodes -> Seq(Wrappers)] /\ po' \in Nodes
  <2>1. Append(children[Root], v) \in Seq(Wrappers) BY <1>3
  <2>2. CASE strands' = <<>> BY <2>1, <2>2, NodesAre DEF TypeOK, Added
  <2>3. CASE strands' # <<>> BY <2>3, NodesAre DEF TypeOK, Added
  <2>4. QED BY <2>2, <2>3
<1>6. Len(<<e>>) = 1 /\ <<e>>[1] = e /\ Head(<<e>>) = e OBVIOUS
<1>7. Len(<<>>) = 0 OBVIOUS
<1>8. /\ \A x : Contains(equivObjs'[v], x) <=> x = e
      /\ \A x : ~Contains(equivObjs[v], x)
      /\ Distinct(equivObjs'[v])
  BY <1>1, <1>6, <1>7 DEF Contains, Distinct, Added
<1>9. \A w \in Wrappers : \A x : Contains(equivObjs'[w], x) <=> Contains(equivObjs[w], x) \/ (w = v /\ x = e)
  BY <1>1, <1>8
<1>10. \A w \in Wrappers : Distinct(equivObjs'[w]) BY <1>1, <1>8 DEF Filed
<1>11. po' = Root <=> strands' = <<>> BY NodesAre DEF Added
<1>12. po' # Root => po' = v /\ Len(equivObjs'[po']) = 1 /\ se' = e BY <1>1, <1>6 DEF Added, se
<1>13. QED BY <1>2, <1>4, <1>5, <1>9, <1>10, <1>11, <1>12

\* A handler for a new element.
LEMMA AddContent ==
    ASSUME Content, Shaped, NEW e \in Elements, addSendPriorityElement(e)
    PROVE  Content'
<1>0. TypeOK /\ order # "AttributePriority" /\ Numbered /\ Filed /\ Placing /\ Filling /\ Fronted /\ po = Root
  BY DEF Content, addSendPriorityElement
<1>1. PICK v \in Wrappers : Added(e, v) BY <1>0, AddTakes DEF addSendPriorityElement
<1>2. /\ equivObjs' \in [Wrappers -> Seq(Elements)] /\ children' \in [Nodes -> Seq(Wrappers)]
      /\ po' \in Nodes /\ strands' \in Seq(StrandRecords)
  BY <1>0, <1>1, AddLeaves
<1>3. \A w \in Wrappers : \A x : Contains(equivObjs'[w], x) <=> Contains(equivObjs[w], x) \/ (w = v /\ x = e)
  BY <1>0, <1>1, AddLeaves
<1>4. /\ \A w \in Wrappers : Distinct(equivObjs'[w])
      /\ po' = Root <=> strands' = <<>>
      /\ po' # Root => po' = v /\ Len(equivObjs'[po']) = 1 /\ se' = e
  BY <1>0, <1>1, AddLeaves
<1>5. created \in Nat /\ created + 1 \in 0..MaxElements /\ MaxElements \in Nat
  BY <1>0, SendOrderAssumption DEF addSendPriorityElement, TypeOK
<1>6. e.createTime = created + 1 /\ created' = created + 1 /\ waiting' = waiting \union {e} /\ pc = "idle" /\ pc' = "start"
      /\ UNCHANGED <<order, parallelFactor, held, sendStations>>
  BY DEF addSendPriorityElement
<1>7. TypeOK' BY <1>0, <1>2, <1>5, <1>6 DEF TypeOK
<1>8. \A x \in waiting \union sendStations : x.createTime \in 1..created BY <1>0 DEF Numbered
<1>9. e \notin waiting \union sendStations BY <1>5, <1>6, <1>8
<1>10. \A x \in waiting \union sendStations : x.createTime < e.createTime BY <1>5, <1>6, <1>8
<1>11. Numbered'
  <2>1. \A x \in waiting' \union sendStations' : x.createTime \in 1..created'
    <3>1. \A x \in waiting \union sendStations : x.createTime \in 1..created' BY <1>5, <1>6, <1>8
    <3>2. e.createTime \in 1..created' BY <1>5, <1>6
    <3>3. QED BY <3>1, <3>2, <1>6
  <2>2. \A a, b \in waiting' \union sendStations' : a.createTime = b.createTime => a = b
    <3>1. \A x \in waiting \union sendStations : x.createTime # e.createTime BY <1>5, <1>6, <1>8
    <3>2. QED BY <1>0, <1>6, <3>1 DEF Numbered
  <2>3. waiting' \intersect sendStations' = {} BY <1>0, <1>6, <1>9 DEF Numbered
  <2>4. QED BY <2>1, <2>2, <2>3 DEF Numbered
<1>12. Filed'
  <2>1. \A w \in Wrappers : \A x : Contains(equivObjs[w], x) => x \in waiting /\ x # e BY <1>0, <1>9 DEF Filed
  <2>2. \A w \in Wrappers : Distinct(equivObjs'[w]) /\ \A x : Contains(equivObjs'[w], x) => x \in waiting'
    BY <1>3, <1>4, <1>6, <2>1
  <2>3. \A u, w \in Wrappers : \A x : Contains(equivObjs'[u], x) /\ Contains(equivObjs'[w], x) => u = w
    <3>1. \A u, w \in Wrappers : \A x : Contains(equivObjs[u], x) /\ Contains(equivObjs[w], x) => u = w
      BY <1>0 DEF Filed
    <3>2. QED BY <1>3, <2>1, <3>1
  <2>4. \A x \in waiting' : \E w \in Wrappers : Contains(equivObjs'[w], x) BY <1>0, <1>3, <1>6 DEF Filed
  <2>5. QED BY <1>6, <2>2, <2>3, <2>4 DEF Filed
<1>13. Placing' BY <1>4, <1>6 DEF Placing
<1>14. Filling'
  <2>1. IsFiniteSet(sendStations) /\ (waiting = {} \/ ~(Cardinality(sendStations) < parallelFactor))
    BY <1>0, <1>6 DEF Filling, StationFree
  <2>2. Cardinality(sendStations) \in Nat /\ parallelFactor \in Nat
    BY <1>0, <2>1, FS_CardinalityType, SendOrderAssumption DEF TypeOK
  <2>3. CASE waiting = {} BY <1>6, <2>1, <2>3 DEF Filling
  <2>4. CASE ~(Cardinality(sendStations) < parallelFactor)
    <3>1. Cardinality(sendStations) + 1 >= parallelFactor BY <2>2, <2>4
    <3>2. QED BY <1>6, <2>1, <3>1 DEF Filling
  <2>5. QED BY <2>1, <2>3, <2>4
<1>15. Fronted' BY <1>4, <1>6, <1>10 DEF Fronted
<1>16. QED BY <1>0, <1>6, <1>7, <1>11, <1>12, <1>13, <1>14, <1>15 DEF Content

\* startSend puts back what it cannot send.
LEMMA PutBackContent ==
    ASSUME Content, Shaped, PutBack
    PROVE  Content'
<1>0. TypeOK /\ order # "AttributePriority" /\ Numbered /\ Filed /\ Placing /\ Filling /\ Fronted /\ pc = "held"
  BY DEF Content, PutBack
<1>1. po = Root /\ held \in waiting /\ held \in Elements BY <1>0 DEF Placing, Filed, TypeOK
<1>2. PICK v \in Wrappers : Added(held, v) BY <1>0, <1>1, AddTakes DEF PutBack
<1>3. /\ equivObjs' \in [Wrappers -> Seq(Elements)] /\ children' \in [Nodes -> Seq(Wrappers)]
      /\ po' \in Nodes /\ strands' \in Seq(StrandRecords)
  BY <1>0, <1>1, <1>2, AddLeaves
<1>4. \A w \in Wrappers : \A x : Contains(equivObjs'[w], x) <=> Contains(equivObjs[w], x) \/ (w = v /\ x = held)
  BY <1>0, <1>1, <1>2, AddLeaves
<1>5. /\ \A w \in Wrappers : Distinct(equivObjs'[w])
      /\ po' = Root <=> strands' = <<>>
      /\ po' # Root => po' = v /\ Len(equivObjs'[po']) = 1 /\ se' = held
  BY <1>0, <1>1, <1>2, AddLeaves
<1>6. held' = NoElement /\ pc' = "idle" /\ UNCHANGED <<order, parallelFactor, created, sendStations, waiting>>
      /\ ~(Cardinality(sendStations) < parallelFactor)
  BY DEF PutBack, StationFree
<1>7. TypeOK' BY <1>0, <1>3, <1>6 DEF TypeOK
<1>8. Numbered' BY <1>0, <1>6 DEF Numbered
<1>9. Filed'
  <2>1. \A w \in Wrappers : \A x : Contains(equivObjs[w], x) => x \in waiting /\ x # held BY <1>0 DEF Filed
  <2>2. \A w \in Wrappers : Distinct(equivObjs'[w]) /\ \A x : Contains(equivObjs'[w], x) => x \in waiting'
    BY <1>1, <1>4, <1>5, <1>6, <2>1
  <2>3. \A u, w \in Wrappers : \A x : Contains(equivObjs'[u], x) /\ Contains(equivObjs'[w], x) => u = w
    <3>1. \A u, w \in Wrappers : \A x : Contains(equivObjs[u], x) /\ Contains(equivObjs[w], x) => u = w
      BY <1>0 DEF Filed
    <3>2. QED BY <1>4, <2>1, <3>1
  <2>4. \A x \in waiting' : \E w \in Wrappers : Contains(equivObjs'[w], x) BY <1>0, <1>4, <1>6 DEF Filed
  <2>5. QED BY <1>6, <2>2, <2>3, <2>4 DEF Filed
<1>10. Placing' BY <1>5, <1>6 DEF Placing
<1>11. Filling' BY <1>0, <1>6 DEF Filling, StationFree
<1>12. Fronted' BY <1>0, <1>5, <1>6 DEF Fronted, MustPrecede
<1>13. QED BY <1>0, <1>6, <1>7, <1>8, <1>9, <1>10, <1>11, <1>12 DEF Content

-----------------------------------------------------------------------------
(* popTop.                                                                 *)

\* The top is a wrapper with elements.
LEMMA TopIs ==
    ASSUME TypeOK, Filed, Shaped, children[Root] # <<>>
    PROVE  /\ top \in Wrappers /\ top = children[Root][1] /\ Contains(children[Root], top) /\ 1 \in 1..Len(children[Root])
           /\ equivObjs[top] \in Seq(Elements) /\ equivObjs[top] # <<>> /\ Distinct(equivObjs[top])
           /\ Head(equivObjs[top]) = equivObjs[top][1] /\ Head(equivObjs[top]) \in Elements
           /\ Contains(equivObjs[top], Head(equivObjs[top]))
<1>1. children[Root] \in Seq(Wrappers) BY NodesAre DEF TypeOK
<1>2. top \in Wrappers /\ top = children[Root][1] /\ Contains(children[Root], top) /\ 1 \in 1..Len(children[Root])
  BY <1>1, Members DEF top
<1>3. equivObjs[top] # <<>> BY <1>2, ChildrenSound, NodesAre
<1>4. equivObjs[top] \in Seq(Elements) /\ Distinct(equivObjs[top]) BY <1>2 DEF TypeOK, Filed
<1>5. QED BY <1>2, <1>3, <1>4, Members

\* What popTop does to the elements.
LEMMA PopElements ==
    ASSUME TypeOK, Filed, Shaped, children[Root] # <<>>, popTop
    PROVE  /\ equivObjs' \in [Wrappers -> Seq(Elements)]
           /\ \A w \in Wrappers : w # top => equivObjs'[w] = equivObjs[w]
           /\ equivObjs'[top] = Tail(equivObjs[top])
           /\ equivObjs'[top] = <<>> <=> ~(Len(equivObjs[top]) > 1)
           /\ \A w \in Wrappers : Distinct(equivObjs'[w])
           /\ \A w \in Wrappers : \A x : Contains(equivObjs'[w], x) <=>
                 Contains(equivObjs[w], x) /\ ~(w = top /\ x = Head(equivObjs[top]))
<1>1. top \in Wrappers /\ equivObjs[top] \in Seq(Elements) /\ equivObjs[top] # <<>> /\ Distinct(equivObjs[top])
  BY TopIs
<1>2. /\ Tail(equivObjs[top]) \in Seq(Elements) /\ Distinct(Tail(equivObjs[top]))
      /\ Len(Tail(equivObjs[top])) = Len(equivObjs[top]) - 1
      /\ \A x : Contains(Tail(equivObjs[top]), x) <=> Contains(equivObjs[top], x) /\ x # Head(equivObjs[top])
  BY <1>1, Rest
<1>3. equivObjs' = [equivObjs EXCEPT ![top] = Tail(@)] BY DEF popTop
<1>4. /\ equivObjs' \in [Wrappers -> Seq(Elements)] /\ equivObjs'[top] = Tail(equivObjs[top])
      /\ \A w \in Wrappers : w # top => equivObjs'[w] = equivObjs[w]
  BY <1>1, <1>2, <1>3 DEF TypeOK
<1>5. Tail(equivObjs[top]) = <<>> <=> ~(Len(equivObjs[top]) > 1)
  <2>1. Len(equivObjs[top]) \in Nat /\ Len(equivObjs[top]) # 0 BY <1>1, Members
  <2>2. Tail(equivObjs[top]) = <<>> <=> Len(Tail(equivObjs[top])) = 0 BY <1>2, Members
  <2>3. PICK n \in Nat : n # 0 /\ n = Len(equivObjs[top]) BY <2>1
  <2>4. \A k \in Nat : k # 0 => (k - 1 = 0 <=> ~(k > 1)) OBVIOUS
  <2>5. QED BY <1>2, <2>2, <2>3, <2>4
<1>6. \A w \in Wrappers : Distinct(equivObjs'[w]) BY <1>2, <1>4 DEF Filed
<1>7. \A w \in Wrappers : \A x : Contains(equivObjs'[w], x) <=>
                 Contains(equivObjs[w], x) /\ ~(w = top /\ x = Head(equivObjs[top]))
  BY <1>2, <1>4
<1>8. QED BY <1>4, <1>5, <1>6, <1>7

\* What it does to the graph.
LEMMA PopGraph ==
    ASSUME TypeOK, Filed, Shaped, children[Root] # <<>>, popTop
    PROVE  /\ children' \in [Nodes -> Seq(Wrappers)]
           /\ Len(equivObjs[top]) > 1 => children' = children
           /\ ~(Len(equivObjs[top]) > 1) =>
                /\ children'[top] = <<>> /\ \A w \in Wrappers : w # top => children'[w] = children[w]
                /\ children'[Root] = Tail(addChildren(children[Root], children[top]))
                /\ Distinct(children'[Root])
                /\ \A x : Contains(children'[Root], x) <=>
                      (Contains(children[Root], x) \/ Contains(children[top], x)) /\ x # top
<1>1. top \in Wrappers /\ top = children[Root][1] /\ 1 \in 1..Len(children[Root]) BY TopIs
<1>2. children[Root] \in Seq(Wrappers) /\ children[top] \in Seq(Wrappers) BY <1>1, NodesAre DEF TypeOK
<1>3. Distinct(children[Root]) /\ Distinct(children[top]) BY <1>1, NodesAre, ChildrenSound
<1>4. PICK r : r = addChildren(children[Root], children[top]) OBVIOUS
<1>5. /\ r \in Seq(Wrappers) /\ Distinct(r) /\ Len(r) >= Len(children[Root])
      /\ \A i \in 1..Len(children[Root]) : r[i] = children[Root][i]
      /\ \A x : Contains(r, x) <=> Contains(children[Root], x) \/ Contains(children[top], x)
  BY <1>2, <1>3, <1>4, AddedChildren
<1>6. r # <<>> /\ r[1] = top
  <2>1. Len(children[Root]) \in Nat /\ Len(r) \in Nat BY <1>2, <1>5
  <2>2. Len(r) # 0 /\ r[1] = top BY <1>1, <1>5, <2>1
  <2>3. QED BY <1>5, <2>2
<1>7. /\ Tail(r) \in Seq(Wrappers) /\ Distinct(Tail(r)) /\ Head(r) = r[1]
      /\ \A x : Contains(Tail(r), x) <=> Contains(r, x) /\ x # Head(r)
  BY <1>5, <1>6, Rest
<1>8. CASE Len(equivObjs[top]) > 1 BY <1>8 DEF popTop, TypeOK
<1>9. CASE ~(Len(equivObjs[top]) > 1)
  <2>1. children' = [children EXCEPT ![Root] = Tail(addChildren(@, children[top])), ![top] = <<>>]
    BY <1>9 DEF popTop
  <2>2. /\ children' \in [Nodes -> Seq(Wrappers)] /\ children'[Root] = Tail(r) /\ children'[top] = <<>>
        /\ \A w \in Wrappers : w # top => children'[w] = children[w]
    <3>1. <<>> \in Seq(Wrappers) OBVIOUS
    <3>2. children' = [w \in Nodes |-> IF w = top THEN <<>> ELSE IF w = Root THEN Tail(r) ELSE children[w]]
      BY <1>1, <1>4, <2>1, NodesAre DEF TypeOK
    <3>3. QED BY <1>1, <1>7, <3>1, <3>2, NodesAre DEF TypeOK
  <2>3. QED BY <1>4, <1>5, <1>6, <1>7, <1>9, <2>2
<1>10. QED BY <1>8, <1>9

\* The first element of the top is preceded by nothing.
LEMMA TopFirst ==
    ASSUME TypeOK, order # "AttributePriority", Filed, Shaped, po = Root, pc # "held", children[Root] # <<>>,
           NEW f \in waiting, f # Head(equivObjs[top])
    PROVE  ~MustPrecede(f, Head(equivObjs[top]))
<1>1. PICK h : h = Head(equivObjs[top]) OBVIOUS
<1>2. /\ top \in Wrappers /\ top = children[Root][1] /\ Contains(children[Root], top) /\ 1 \in 1..Len(children[Root])
      /\ equivObjs[top] # <<>> /\ h = equivObjs[top][1] /\ h \in Elements /\ Contains(equivObjs[top], h)
  BY <1>1, TopIs
<1>3. PICK w \in Wrappers : Contains(equivObjs[w], f) BY DEF Filed
<1>4. equivObjs[w] \in Seq(Elements) /\ equivObjs[w] # <<>> /\ f \in Elements
  BY <1>3, Members DEF TypeOK, Contains
<1>5. In(w) /\ In(top) BY <1>2, <1>4, NodesAre DEF In
<1>6. CASE order = "Attribute"
  <2>1. SUFFICES ASSUME f.bolo, ~h.bolo PROVE FALSE BY <1>1, <1>6 DEF MustPrecede
  <2>2. Len(equivObjs[w]) <= 1 BY <1>6 DEF Shaped, Levelled, Levels
  <2>3. equivObjs[w][1] = f
    <3>1. PICK i \in 1..Len(equivObjs[w]) : equivObjs[w][i] = f BY <1>3 DEF Contains
    <3>2. Len(equivObjs[w]) \in Nat BY <1>4
    <3>3. i = 1 BY <2>2, <3>1, <3>2
    <3>4. QED BY <3>1, <3>3
  <2>4. Contains(children[Root], w) BY <1>5, <1>6, <2>1, <2>3 DEF Shaped, Levelled, Hung, Bolo
  <2>5. PICK j \in 1..Len(children[Root]) : children[Root][j] = w BY <2>4 DEF Contains
  <2>6. j # 1 BY <1>1, <1>2, <2>3, <2>5
  <2>7. Len(children[Root]) \in Nat BY NodesAre DEF TypeOK
  <2>8. 1 < j BY <2>5, <2>6, <2>7
  <2>9. Bolo(children[Root][1]) BY <1>2, <1>6, <2>1, <2>3, <2>5, <2>8 DEF Shaped, Levelled, BoloFirst, Bolo
  <2>10. QED BY <1>2, <2>1, <2>9 DEF Bolo
<1>7. CASE order # "Attribute"
  <2>1. PICK c : LinedBy(c) BY <1>7 DEF Shaped
  <2>2. order \in LinearOrders BY <1>7, SendOrderAssumption DEF TypeOK, LinearOrders
  <2>3. c \in Seq(Wrappers) BY <2>1 DEF LinedBy, InLine
  <2>4. CASE ~Contains(c, top)
    <3>1. order = "Priority" /\ h.priority = NoPriority BY <1>2, <1>5, <2>1, <2>4 DEF LinedBy, Beside
    <3>2. QED BY <1>1, <3>1 DEF MustPrecede
  <2>5. CASE ~Contains(c, w)
    <3>1. order = "Priority" /\ equivObjs[w][1].priority = NoPriority /\ Len(equivObjs[w]) = 1
      BY <1>5, <2>1, <2>5 DEF LinedBy, Beside
    <3>2. equivObjs[w][1] = f BY <1>3, <1>4, <3>1 DEF Contains
    <3>3. h.priority \in Nat BY <1>2, Fields
    <3>4. QED BY <1>1, <3>1, <3>2, <3>3 DEF MustPrecede, NoPriority
  <2>6. CASE Contains(c, top) /\ Contains(c, w)
    <3>1. top = c[1] BY <1>2, <2>1, <2>6 DEF LinedBy, Linked
    <3>2. PICK j \in 1..Len(c) : c[j] = w BY <2>6 DEF Contains
    <3>3. Len(c) \in Nat /\ 1 \in 1..Len(c) BY <2>3, <3>2
    <3>4. CASE j = 1
      <4>1. Alike(f, h) BY <1>2, <1>3, <2>1, <3>1, <3>2, <3>3, <3>4 DEF LinedBy, Ranked
      <4>2. QED BY <1>1, <1>2, <1>4, <2>2, <4>1, AlikeOthers
    <3>5. CASE j # 1
      <4>1. 1 < j BY <3>3, <3>5
      <4>2. QED BY <1>1, <1>2, <1>3, <2>1, <3>1, <3>2, <3>3, <4>1 DEF LinedBy, Ranked
    <3>6. QED BY <3>4, <3>5
  <2>7. QED BY <2>4, <2>5, <2>6
<1>8. QED BY <1>6, <1>7

\* startSend takes the top.
LEMMA TakeContent ==
    ASSUME Content, Shaped, TakeTop
    PROVE  Content'
<1>0. TypeOK /\ order # "AttributePriority" /\ Numbered /\ Filed /\ Placing /\ Filling /\ Fronted
  BY DEF Content
<1>1. pc = "start" /\ po = Root /\ children[Root] # <<>> /\ popTop /\ held' = Head(equivObjs[top]) /\ pc' = "held"
      /\ UNCHANGED <<order, parallelFactor, created, po, strands, sendStations, waiting>>
  BY DEF TakeTop
<1>2. PICK h : h = Head(equivObjs[top]) OBVIOUS
<1>3. top \in Wrappers /\ h \in Elements /\ Contains(equivObjs[top], h) BY <1>0, <1>1, <1>2, TopIs
<1>4. equivObjs' \in [Wrappers -> Seq(Elements)] /\ \A w \in Wrappers : Distinct(equivObjs'[w])
  BY <1>0, <1>1, PopElements
<1>5. \A w \in Wrappers : \A x : Contains(equivObjs'[w], x) <=> Contains(equivObjs[w], x) /\ ~(w = top /\ x = h)
  BY <1>0, <1>1, <1>2, PopElements
<1>6. children' \in [Nodes -> Seq(Wrappers)] BY <1>0, <1>1, PopGraph
<1>7. TypeOK' BY <1>0, <1>1, <1>2, <1>3, <1>4, <1>6 DEF TypeOK
<1>8. Numbered' BY <1>0, <1>1 DEF Numbered
<1>9. Filed'
  <2>1. \A w \in Wrappers : \A x : Contains(equivObjs[w], x) => x \in waiting BY <1>0 DEF Filed
  <2>2. \A u, w \in Wrappers : \A x : Contains(equivObjs'[u], x) /\ Contains(equivObjs'[w], x) => u = w
    BY <1>0, <1>5 DEF Filed
  <2>3. \A x \in waiting : \E w \in Wrappers : Contains(equivObjs[w], x) BY <1>0, <1>1 DEF Filed
  <2>4. \A x \in waiting : (\E w \in Wrappers : Contains(equivObjs'[w], x)) \/ x = h BY <1>5, <2>3
  <2>5. h \in waiting BY <1>3, <2>1
  <2>6. \A w \in Wrappers : ~Contains(equivObjs'[w], h) BY <1>0, <1>3, <1>5 DEF Filed
  <2>7. QED BY <1>1, <1>2, <1>4, <1>5, <2>1, <2>2, <2>4, <2>5, <2>6 DEF Filed
<1>10. Placing' BY <1>0, <1>1 DEF Placing
<1>11. Filling' BY <1>0, <1>1 DEF Filling, StationFree
<1>12. Fronted'
  <2>1. \A f \in waiting \ {h} : ~MustPrecede(f, h) BY <1>0, <1>1, <1>2, TopFirst
  <2>2. QED BY <1>1, <1>2, <2>1 DEF Fronted, MustPrecede
<1>13. QED BY <1>0, <1>1, <1>7, <1>8, <1>9, <1>10, <1>11, <1>12 DEF Content

\* There is nothing to take.
LEMMA EmptyContent ==
    ASSUME Content, Shaped, QueueEmpty
    PROVE  Content'
<1>0. TypeOK /\ order # "AttributePriority" /\ Numbered /\ Filed /\ Placing /\ Filling /\ Fronted
  BY DEF Content
<1>1. pc = "start" /\ po = Root /\ children[Root] = <<>> /\ pc' = "idle"
      /\ UNCHANGED <<order, parallelFactor, created, equivObjs, children, po, strands, held, sendStations, waiting>>
  BY DEF QueueEmpty
<1>2. waiting = {}
  <2>1. Len(<<>>) = 0 OBVIOUS
  <2>2. \A w \in Wrappers : \A x : ~Contains(equivObjs[w], x) BY <1>0, <1>1, <2>1, EmptyRoot DEF Contains
  <2>3. QED BY <1>0, <1>1, <2>2 DEF Filed
<1>3. TypeOK' /\ Numbered' /\ Placing' BY <1>0, <1>1 DEF TypeOK, Numbered, Placing
<1>4. Filed' BY <1>0, <1>1, <1>2 DEF Filed
<1>5. Filling' BY <1>0, <1>1, <1>2 DEF Filling, StationFree
<1>6. Fronted' BY <1>0, <1>1 DEF Fronted, MustPrecede, se
<1>7. QED BY <1>0, <1>1, <1>3, <1>4, <1>5, <1>6 DEF Content

\* An element goes to a station.
LEMMA SendContent ==
    ASSUME Content, Send
    PROVE  Content'
<1>0. TypeOK /\ order # "AttributePriority" /\ Numbered /\ Filed /\ Placing /\ Filling /\ Fronted
  BY DEF Content
<1>1. pc = "held" /\ sendStations' = sendStations \union {held} /\ waiting' = waiting \ {held}
      /\ held' = NoElement /\ pc' = "idle"
      /\ UNCHANGED <<order, parallelFactor, created, equivObjs, children, po, strands>>
  BY DEF Send
<1>2. held \in waiting /\ held \in Elements /\ po = Root BY <1>0, <1>1 DEF Filed, TypeOK, Placing
<1>3. TypeOK' BY <1>0, <1>1, <1>2 DEF TypeOK
<1>4. Numbered'
  <2>1. waiting' \union sendStations' = waiting \union sendStations BY <1>1, <1>2
  <2>2. waiting' \intersect sendStations' = {} BY <1>0, <1>1 DEF Numbered
  <2>3. QED BY <1>0, <1>1, <2>1, <2>2 DEF Numbered
<1>5. Filed' BY <1>0, <1>1 DEF Filed
<1>6. Placing' BY <1>0, <1>1 DEF Placing
<1>7. Filling'
  <2>1. IsFiniteSet(sendStations) /\ held \notin sendStations BY <1>0, <1>2 DEF Filling, Numbered
  <2>2. IsFiniteSet(sendStations') /\ Cardinality(sendStations') = Cardinality(sendStations) + 1
    BY <1>1, <2>1, FS_AddElement
  <2>3. Cardinality(sendStations) \in Nat /\ parallelFactor \in Nat
    BY <1>0, <2>1, FS_CardinalityType, SendOrderAssumption DEF TypeOK
  <2>4. CASE \A a, b \in waiting : a = b
    <3>1. waiting' = {} BY <1>1, <1>2, <2>4
    <3>2. QED BY <1>1, <2>2, <3>1 DEF Filling
  <2>5. CASE Cardinality(sendStations) + 1 >= parallelFactor
    <3>1. ~(Cardinality(sendStations') < parallelFactor) BY <2>2, <2>3, <2>5
    <3>2. QED BY <1>1, <2>2, <3>1 DEF Filling, StationFree
  <2>6. QED BY <1>0, <1>1, <2>4, <2>5 DEF Filling
<1>8. Fronted' BY <1>1, <1>2 DEF Fronted
<1>9. QED BY <1>0, <1>1, <1>3, <1>4, <1>5, <1>6, <1>7, <1>8 DEF Content

\* A verdict, about an element in a station or about something else.
LEMMA RemoveContent ==
    ASSUME Content, NEW e \in sendStations \union {NoElement}, removeSendPriorityElement(e)
    PROVE  Content'
<1>0. TypeOK /\ order # "AttributePriority" /\ Numbered /\ Filed /\ Placing /\ Filling /\ Fronted
  BY DEF Content
<1>1. pc = "idle" /\ po = Root /\ sendStations' = sendStations \ {e} /\ pc' = "start"
      /\ UNCHANGED <<order, parallelFactor, created, equivObjs, children, po, strands, held, waiting>>
  BY DEF removeSendPriorityElement
<1>2. TypeOK' BY <1>0, <1>1 DEF TypeOK
<1>3. Numbered' BY <1>0, <1>1 DEF Numbered
<1>4. Filed' /\ Placing' BY <1>0, <1>1 DEF Filed, Placing
<1>5. Filling'
  <2>1. IsFiniteSet(sendStations) /\ (waiting = {} \/ ~(Cardinality(sendStations) < parallelFactor))
    BY <1>0, <1>1 DEF Filling, StationFree
  <2>2. /\ IsFiniteSet(sendStations')
        /\ Cardinality(sendStations') = Cardinality(sendStations) \/ Cardinality(sendStations') = Cardinality(sendStations) - 1
    BY <1>1, <2>1, FS_RemoveElement
  <2>3. Cardinality(sendStations) \in Nat /\ parallelFactor \in Nat
    BY <1>0, <2>1, FS_CardinalityType, SendOrderAssumption DEF TypeOK
  <2>4. CASE waiting = {} BY <1>1, <2>2, <2>4 DEF Filling
  <2>5. CASE ~(Cardinality(sendStations) < parallelFactor)
    <3>1. Cardinality(sendStations') + 1 >= parallelFactor BY <2>2, <2>3, <2>5
    <3>2. QED BY <1>1, <2>2, <3>1 DEF Filling
  <2>6. QED BY <2>1, <2>4, <2>5
<1>6. Fronted' BY <1>0, <1>1 DEF Fronted, MustPrecede
<1>7. QED BY <1>0, <1>1, <1>2, <1>3, <1>4, <1>5, <1>6 DEF Content

-----------------------------------------------------------------------------
(* The line.                                                               *)

\* What a line is made of, in a form that needs no definitions.
LEMMA LineParts ==
    ASSUME TypeOK, NEW c, LinedBy(c)
    PROVE  /\ c \in Seq(Wrappers) /\ Len(c) \in Nat /\ Distinct(c)
           /\ \A i \in 1..Len(c) : c[i] \in Wrappers /\ In(c[i]) /\ Contains(c, c[i])
           /\ c # <<>> => 1 \in 1..Len(c)
           /\ \A w \in Wrappers : In(w) => /\ equivObjs[w] \in Seq(Elements) /\ equivObjs[w] # <<>>
                                          /\ Head(equivObjs[w]) = equivObjs[w][1]
                                          /\ Head(equivObjs[w]) \in Elements
                                          /\ Contains(equivObjs[w], Head(equivObjs[w]))
<1>1. c \in Seq(Wrappers) /\ Distinct(c) /\ \A i \in 1..Len(c) : In(c[i]) BY DEF LinedBy, InLine
<1>2. /\ Len(c) \in Nat /\ \A i \in 1..Len(c) : c[i] \in Wrappers /\ Contains(c, c[i])
      /\ c # <<>> => 1 \in 1..Len(c)
  BY <1>1, Members
<1>3. \A w \in Wrappers : In(w) => equivObjs[w] \in Seq(Elements) /\ equivObjs[w] # <<>> BY DEF In, TypeOK
<1>4. ASSUME NEW w \in Wrappers, In(w)
      PROVE  /\ Head(equivObjs[w]) = equivObjs[w][1] /\ Head(equivObjs[w]) \in Elements
             /\ Contains(equivObjs[w], Head(equivObjs[w]))
  <2>1. equivObjs[w] \in Seq(Elements) /\ equivObjs[w] # <<>> BY <1>3, <1>4
  <2>2. QED BY <2>1, Members
<1>5. QED BY <1>1, <1>2, <1>3, <1>4

\* An element against a wrapper of the line, or beside it.
LEMMA LineCompares ==
    ASSUME TypeOK, order \in LinearOrders, NEW c, LinedBy(c), NEW e \in Elements, NEW w \in Wrappers, In(w)
    PROVE  Comparable(e, w) <=> Contains(c, w) /\ (order = "Priority" => e.priority # NoPriority)
<1>1. /\ Head(equivObjs[w]) = equivObjs[w][1] /\ Head(equivObjs[w]) \in Elements
      /\ Contains(equivObjs[w], Head(equivObjs[w]))
  BY LineParts
<1>2. Comparable(e, w) <=> (order = "Priority" => e.priority # NoPriority /\ Head(equivObjs[w]).priority # NoPriority)
  BY <1>1, LinearCompares DEF Comparable, compare
<1>3. CASE Contains(c, w)
  <2>1. order = "Priority" => Head(equivObjs[w]).priority # NoPriority
    <3>1. PICK i \in 1..Len(c) : c[i] = w BY <1>3 DEF Contains
    <3>2. QED BY <1>1, <3>1 DEF LinedBy, Beside
  <2>2. QED BY <1>2, <1>3, <2>1
<1>4. CASE ~Contains(c, w) BY <1>1, <1>2, <1>4 DEF LinedBy, Beside
<1>5. QED BY <1>3, <1>4

\* A new element goes beside, starts a line, or is compared with the first of the line.
LEMMA LineAdd ==
    ASSUME TypeOK, Filed, Shaped, order \in LinearOrders, order' = order, po = Root, NEW c, LinedBy(c),
           NEW e \in Elements, NEW v \in Wrappers, Added(e, v)
    PROVE  \E d : LinedBy(d)'
<1>0. /\ c \in Seq(Wrappers) /\ Len(c) \in Nat /\ Distinct(c)
      /\ \A i \in 1..Len(c) : c[i] \in Wrappers /\ In(c[i]) /\ Contains(c, c[i])
      /\ c # <<>> => 1 \in 1..Len(c)
  BY LineParts
<1>1. equivObjs'[v] = <<e>> /\ \A w \in Wrappers : w # v => equivObjs'[w] = equivObjs[w]
  BY DEF TypeOK, Added
<1>2. Len(<<e>>) = 1 /\ <<e>>[1] = e /\ Head(<<e>>) = e /\ <<e>> # <<>> /\ \A x : Contains(<<e>>, x) <=> x = e
  BY ShortLists
<1>3. ~In(v) /\ \A i \in 1..Len(c) : c[i] # v BY <1>0 DEF In, Added
<1>4. children[v] = <<>> /\ ~Contains(children[Root], v) /\ ~Contains(c, v)
  BY <1>3 DEF LinedBy, Linked, Contains
<1>5. children[Root] \in Seq(Wrappers) /\ Distinct(children[Root]) BY NodesAre DEF TypeOK, LinedBy, Linked
<1>6. \A w \in Wrappers : Contains(children[Root], w) => In(w) BY DEF LinedBy, Linked
<1>7. \A i \in 1..Len(c) : equivObjs'[c[i]] = equivObjs[c[i]] BY <1>0, <1>1, <1>3
<1>8. ASSUME strands' = <<>>
      PROVE  /\ po' = Root /\ \A w \in Wrappers : children'[w] = children[w]
             /\ Distinct(children'[Root])
             /\ \A w : Contains(children'[Root], w) <=> Contains(children[Root], w) \/ w = v
             /\ \A w \in Wrappers : In(w)' <=> In(w) \/ w = v
  <2>1. po' = Root /\ children' = [children EXCEPT ![Root] = Append(@, v)] BY <1>8 DEF Added
  <2>2. children'[Root] = addChild(children[Root], v) BY <1>4, <2>1, NodesAre DEF addChild, TypeOK
  <2>3. Distinct(children'[Root]) /\ \A w : Contains(children'[Root], w) <=> Contains(children[Root], w) \/ w = v
    BY <1>5, <2>2, AddedChild
  <2>4. \A w \in Wrappers : children'[w] = children[w] BY <2>1, NodesAre DEF TypeOK
  <2>5. \A w \in Wrappers : In(w)' <=> In(w) \/ w = v BY <1>1, <1>2, <2>1, NodesAre DEF In
  <2>6. QED BY <2>1, <2>3, <2>4, <2>5
<1>9. CASE order = "Priority" /\ e.priority = NoPriority
  <2>1. strands' = <<>>
    <3>1. \A w \in Wrappers : Contains(children[Root], w) => ~Comparable(e, w) BY <1>6, <1>9, LineCompares
    <3>2. QED BY <1>5, <3>1, NoStrand, NodesAre DEF Added
  <2>2. InLine(c)' BY <1>0, <1>8, <2>1 DEF InLine
  <2>3. Beside(c)'
    <3>1. \A w \in Wrappers : In(w)' /\ ~Contains(c, w) =>
             /\ order = "Priority" /\ Len(equivObjs'[w]) = 1 /\ equivObjs'[w][1].priority = NoPriority
             /\ children'[w] = <<>>
      BY <1>1, <1>2, <1>4, <1>8, <1>9, <2>1 DEF LinedBy, Beside
    <3>2. QED BY <3>1, <1>7 DEF LinedBy, Beside
  <2>4. Linked(c)'
    <3>1. \A w \in Wrappers : ~In(w)' => children'[w] = <<>> BY <1>8, <2>1 DEF LinedBy, Linked
    <3>2. \A i \in 1..Len(c) : children'[c[i]] = IF i < Len(c) THEN <<c[i + 1]>> ELSE <<>>
      BY <1>0, <1>8, <2>1 DEF LinedBy, Linked
    <3>3. \A w \in Wrappers : Contains(children'[Root], w) <=> In(w)' /\ (Contains(c, w) => w = c[1])
      BY <1>4, <1>8, <2>1 DEF LinedBy, Linked
    <3>4. QED BY <1>8, <2>1, <3>1, <3>2, <3>3 DEF Linked
  <2>5. Ranked(c)' BY <1>7 DEF LinedBy, Ranked, Alike, MustPrecede
  <2>6. Descended(c)' BY <1>8, <2>1 DEF Descended
  <2>7. QED BY <2>2, <2>3, <2>4, <2>5, <2>6 DEF LinedBy
<1>10. CASE ~(order = "Priority" /\ e.priority = NoPriority) /\ c = <<>>
  <2>1. \A w : ~Contains(c, w) BY <1>10, ShortLists
  <2>2. strands' = <<>>
    <3>1. \A w \in Wrappers : Contains(children[Root], w) => ~Comparable(e, w) BY <1>6, <2>1, LineCompares
    <3>2. QED BY <1>5, <3>1, NoStrand, NodesAre DEF Added
  <2>3. PICK d : d = <<v>> OBVIOUS
  <2>4. d \in Seq(Wrappers) /\ Len(d) = 1 /\ d[1] = v /\ Distinct(d) /\ \A x : Contains(d, x) <=> x = v
    BY <2>3, ShortLists
  <2>5. 1..Len(d) = {1} BY <2>4
  <2>6. InLine(d)' BY <1>8, <2>2, <2>4, <2>5 DEF InLine
  <2>7. Beside(d)'
    <3>1. \A w \in Wrappers : In(w)' /\ ~Contains(d, w) =>
             /\ order = "Priority" /\ Len(equivObjs'[w]) = 1 /\ equivObjs'[w][1].priority = NoPriority
             /\ children'[w] = <<>>
      BY <1>1, <1>8, <2>1, <2>2, <2>4 DEF LinedBy, Beside
    <3>2. QED BY <1>1, <1>2, <1>10, <2>4, <2>5, <3>1 DEF Beside
  <2>8. Linked(d)'
    <3>1. \A w \in Wrappers : ~In(w)' => children'[w] = <<>> BY <1>8, <2>2 DEF LinedBy, Linked
    <3>2. \A i \in 1..Len(d) : children'[d[i]] = IF i < Len(d) THEN <<d[i + 1]>> ELSE <<>>
      BY <1>4, <1>8, <2>2, <2>4, <2>5
    <3>3. \A w \in Wrappers : Contains(children'[Root], w) <=> In(w)' /\ (Contains(d, w) => w = d[1])
      BY <1>8, <2>1, <2>2, <2>4 DEF LinedBy, Linked
    <3>4. QED BY <1>8, <2>2, <3>1, <3>2, <3>3 DEF Linked
  <2>9. Ranked(d)' BY <1>1, <1>2, <2>4, <2>5 DEF Ranked, Alike
  <2>10. Descended(d)' BY <1>8, <2>2 DEF Descended
  <2>11. QED BY <2>6, <2>7, <2>8, <2>9, <2>10 DEF LinedBy
<1>11. CASE ~(order = "Priority" /\ e.priority = NoPriority) /\ c # <<>>
  <2>1. 1 \in 1..Len(c) /\ c[1] \in Wrappers /\ In(c[1]) /\ Contains(c, c[1]) BY <1>0, <1>11
  <2>2. Contains(children[Root], c[1]) /\ Comparable(e, c[1])
    BY <1>11, <2>1, LineCompares DEF LinedBy, Linked
  <2>3. \A w \in Wrappers : Contains(children[Root], w) /\ w # c[1] => ~Comparable(e, w)
    <3>1. \A w \in Wrappers : Contains(children[Root], w) /\ w # c[1] => ~Contains(c, w) BY DEF LinedBy, Linked
    <3>2. QED BY <1>6, <3>1, LineCompares
  <2>4. strands' = <<[child |-> c[1], parent |-> Root]>>
    BY <1>5, <2>1, <2>2, <2>3, OneStrand, NodesAre DEF Added
  <2>5. po' = v /\ children' = children /\ v # Root BY <2>4, NodesAre DEF Added
  <2>6. \A w \in Wrappers : In(w)' <=> In(w) BY <1>1, <1>3, <2>5, NodesAre DEF In
  <2>7. InLine(c)' BY <1>0, <2>6 DEF InLine
  <2>8. Beside(c)'
    <3>1. \A w \in Wrappers : In(w) => equivObjs'[w] = equivObjs[w] BY <1>1, <1>3
    <3>2. QED BY <1>7, <2>5, <2>6, <3>1 DEF LinedBy, Beside
  <2>9. Linked(c)' BY <2>5, <2>6 DEF LinedBy, Linked
  <2>10. Ranked(c)' BY <1>7 DEF LinedBy, Ranked, Alike, MustPrecede
  <2>11. se' = e BY <1>1, <1>2, <2>5 DEF se
  <2>12. 1..(1 - 1) = {} OBVIOUS
  <2>13. Descended(c)' BY <1>11, <2>1, <2>4, <2>11, <2>12 DEF Descended
  <2>14. QED BY <2>7, <2>8, <2>9, <2>10, <2>13 DEF LinedBy
<1>12. QED BY <1>9, <1>10, <1>11

\* The place in the line that addElement has come to.
LEMMA LineStrand ==
    ASSUME TypeOK, Filed, Placing, order \in LinearOrders, po # Root, NEW c, LinedBy(c)
    PROVE  \E i \in 1..Len(c) :
              /\ Head(strands) = [child |-> c[i], parent |-> IF i = 1 THEN Root ELSE c[i - 1]]
              /\ Tail(strands) = <<>> /\ c[i] # po
              /\ i > 1 => i - 1 \in 1..Len(c) /\ c[i - 1] # po
              /\ \A k \in 1..(i - 1) : \A a : Contains(equivObjs[c[k]], a) => ~MustPrecede(se, a)
<1>1. PICK i \in 1..Len(c) :
         /\ strands = <<[child |-> c[i], parent |-> IF i = 1 THEN Root ELSE c[i - 1]]>>
         /\ \A k \in 1..(i - 1) : \A a : Contains(equivObjs[c[k]], a) => ~MustPrecede(se, a)
  BY DEF LinedBy, Descended
<1>2. Len(c) \in Nat /\ \A k \in 1..Len(c) : c[k] # po BY LineParts DEF In
<1>3. i > 1 => i - 1 \in 1..Len(c) BY <1>2
<1>4. Head(strands) = [child |-> c[i], parent |-> IF i = 1 THEN Root ELSE c[i - 1]] /\ Tail(strands) = <<>>
  BY <1>1
<1>5. QED BY <1>1, <1>2, <1>3, <1>4

\* The element joins the ones it is equal to, and its wrapper is forgotten.
LEMMA LineEqual ==
    ASSUME TypeOK, Numbered, Filed, Placing, order \in LinearOrders, po # Root, NEW c, LinedBy(c),
           StrandEqual(Head(strands)), UNCHANGED <<order, pc, held, waiting>>
    PROVE  /\ \E d : LinedBy(d)'
           /\ equivObjs' \in [Wrappers -> Seq(Elements)] /\ children' = children /\ strands' = <<>> /\ po' = Root
           /\ Filed'
<1>0. /\ c \in Seq(Wrappers) /\ Len(c) \in Nat /\ Distinct(c)
      /\ \A i \in 1..Len(c) : c[i] \in Wrappers /\ In(c[i]) /\ Contains(c, c[i])
  BY LineParts
<1>1. PICK i \in 1..Len(c) :
              /\ Head(strands) = [child |-> c[i], parent |-> IF i = 1 THEN Root ELSE c[i - 1]]
              /\ Tail(strands) = <<>> /\ c[i] # po
              /\ \A k \in 1..(i - 1) : \A a : Contains(equivObjs[c[k]], a) => ~MustPrecede(se, a)
  BY LineStrand
<1>2. PICK u : u = c[i] OBVIOUS
<1>3. PICK e : e = se OBVIOUS
<1>4. /\ po \in Wrappers /\ e \in Elements /\ e \in waiting /\ \A x : Contains(equivObjs[po], x) <=> x = e
  BY <1>3, PlacedElement
<1>5. PICK h : h = Head(equivObjs[u]) OBVIOUS
<1>6. /\ u \in Wrappers /\ In(u) /\ u # po /\ h \in Elements /\ Contains(equivObjs[u], h)
      /\ equivObjs[u] \in Seq(Elements) /\ equivObjs[u] # <<>>
  BY <1>0, <1>1, <1>2, <1>5, LineParts
<1>7. getPartialOrderForConfig(e, h) = "EQ" BY <1>1, <1>2, <1>3, <1>5 DEF StrandEqual, compare
<1>8. ~Contains(equivObjs[u], e) /\ Distinct(equivObjs[u]) BY <1>4, <1>6 DEF Filed
<1>9. e.createTime # h.createTime
  <2>1. h \in waiting /\ h # e BY <1>6, <1>8 DEF Filed
  <2>2. QED BY <1>4, <2>1 DEF Numbered
<1>10. Alike(e, h) /\ (order = "Priority" => e.priority # NoPriority) BY <1>4, <1>6, <1>7, <1>9, EqualAlike
<1>11. ~Placed(children)
  <2>1. \A w \in Nodes : \A x \in Wrappers : Contains(children[w], x) => In(x) BY LineChildren
  <2>2. QED BY <1>4, <2>1, NodesAre DEF Placed, In
<1>12. equivObjs' = [[equivObjs EXCEPT ![u] = addChild(@, e)] EXCEPT ![po] = <<>>]
  <2>1. Head(strands).child = u /\ Tail(strands) = <<>> BY <1>1, <1>2
  <2>2. QED BY <1>3, <1>11, <2>1 DEF StrandEqual
<1>13. children' = children /\ strands' = <<>> /\ po' = Root BY <1>1 DEF StrandEqual, EndStrand
<1>14. /\ addChild(equivObjs[u], e) \in Seq(Elements) /\ Distinct(addChild(equivObjs[u], e))
       /\ \A x : Contains(addChild(equivObjs[u], e), x) <=> Contains(equivObjs[u], x) \/ x = e
  BY <1>4, <1>6, <1>8, AddedChild
<1>15. /\ equivObjs' \in [Wrappers -> Seq(Elements)] /\ equivObjs'[po] = <<>>
       /\ equivObjs'[u] = addChild(equivObjs[u], e)
       /\ \A w \in Wrappers : w # po /\ w # u => equivObjs'[w] = equivObjs[w]
  <2>1. equivObjs' = [w \in Wrappers |-> IF w = po THEN <<>> ELSE IF w = u THEN addChild(equivObjs[u], e) ELSE equivObjs[w]]
    BY <1>4, <1>6, <1>12 DEF TypeOK
  <2>2. <<>> \in Seq(Elements) /\ \A w \in Wrappers : equivObjs[w] \in Seq(Elements) BY DEF TypeOK
  <2>3. QED BY <1>4, <1>6, <1>14, <2>1, <2>2
<1>16. \A w \in Wrappers : \A x : Contains(equivObjs'[w], x) <=>
          (w # po /\ Contains(equivObjs[w], x)) \/ (w = u /\ x = e)
  BY <1>6, <1>14, <1>15, ShortLists
<1>17. Filed'
  <2>1. \A w \in Wrappers : Distinct(equivObjs'[w]) BY <1>14, <1>15, ShortLists DEF Filed
  <2>2. \A w \in Wrappers : \A x : Contains(equivObjs'[w], x) => x \in waiting BY <1>4, <1>16 DEF Filed
  <2>3. \A w \in Wrappers : Contains(equivObjs[w], e) => w = po BY <1>4 DEF Filed
  <2>4. \A v, w \in Wrappers : \A x : Contains(equivObjs'[v], x) /\ Contains(equivObjs'[w], x) => v = w
    <3>1. \A v, w \in Wrappers : \A x : Contains(equivObjs[v], x) /\ Contains(equivObjs[w], x) => v = w
      BY DEF Filed
    <3>2. SUFFICES ASSUME NEW v \in Wrappers, NEW w \in Wrappers, NEW x,
                          Contains(equivObjs'[v], x), Contains(equivObjs'[w], x)
                   PROVE  v = w
      OBVIOUS
    <3>3. CASE x = e
      <4>1. v = u BY <1>16, <2>3, <3>2, <3>3
      <4>2. w = u BY <1>16, <2>3, <3>2, <3>3
      <4>3. QED BY <4>1, <4>2
    <3>4. CASE x # e
      <4>1. Contains(equivObjs[v], x) /\ Contains(equivObjs[w], x) BY <1>16, <3>2, <3>4
      <4>2. QED BY <3>1, <4>1
    <3>5. QED BY <3>3, <3>4
  <2>5. pc # "held" BY DEF Placing
  <2>6. \A x \in waiting : \E w \in Wrappers : Contains(equivObjs'[w], x)
    <3>1. TAKE x \in waiting
    <3>2. PICK w \in Wrappers : Contains(equivObjs[w], x) BY <2>5 DEF Filed
    <3>3. CASE w = po BY <1>4, <1>6, <1>16, <3>2, <3>3
    <3>4. CASE w # po BY <1>16, <3>2, <3>4
    <3>5. QED BY <3>3, <3>4
  <2>7. QED BY <2>1, <2>2, <2>4, <2>5, <2>6 DEF Filed
<1>18. \A w \in Wrappers : In(w)' <=> In(w)
  <2>0. Contains(equivObjs'[u], e) /\ ~Contains(<<>>, e) BY <1>6, <1>16, ShortLists
  <2>1. equivObjs'[u] # <<>> BY <2>0
  <2>2. TAKE w \in Wrappers
  <2>3. CASE w = po BY <1>15, <2>3 DEF In
  <2>4. CASE w = u BY <1>6, <1>13, <2>1, <2>4, NodesAre DEF In
  <2>5. CASE w # po /\ w # u BY <1>13, <1>15, <2>5, NodesAre DEF In
  <2>6. QED BY <2>3, <2>4, <2>5
<1>19. \A k \in 1..Len(c) : \A x : Contains(equivObjs'[c[k]], x) <=> Contains(equivObjs[c[k]], x) \/ (k = i /\ x = e)
  <2>1. \A k \in 1..Len(c) : c[k] # po /\ (c[k] = u <=> k = i) BY <1>0, <1>2 DEF In, Distinct
  <2>2. QED BY <1>0, <1>16, <2>1
<1>20. InLine(c)' BY <1>0, <1>18 DEF InLine
<1>21. Beside(c)'
  <2>1. Contains(c, u) BY <1>0, <1>2
  <2>2. \A w \in Wrappers : In(w) /\ ~Contains(c, w) => equivObjs'[w] = equivObjs[w] BY <1>15, <2>1 DEF In
  <2>3. QED BY <1>10, <1>13, <1>18, <1>19, <2>2 DEF LinedBy, Beside
<1>22. Linked(c)' BY <1>13, <1>18 DEF LinedBy, Linked
<1>23. Ranked(c)'
  <2>0. \A k \in 1..Len(c) : \A x : Contains(equivObjs[c[k]], x) => x \in Elements BY <1>0 DEF Filed, TypeOK
  <2>1. \A a : Contains(equivObjs[c[i]], a) => Alike(a, h) BY <1>2, <1>6 DEF LinedBy, Ranked
  <2>2. \A a : Contains(equivObjs[c[i]], a) => Alike(a, e) /\ Alike(e, a)
    <3>1. TAKE a
    <3>2. SUFFICES ASSUME Contains(equivObjs[c[i]], a) PROVE Alike(a, e) /\ Alike(e, a) OBVIOUS
    <3>3. Alike(a, h) /\ a \in Elements BY <2>0, <2>1, <3>2
    <3>4. QED BY <1>4, <1>6, <1>10, <3>3, AlikeOthers
  <2>3. Alike(e, e) BY DEF Alike
  <2>4. \A k \in 1..Len(c) : \A a, b :
          Contains(equivObjs'[c[k]], a) /\ Contains(equivObjs'[c[k]], b) => Alike(a, b)
    BY <1>19, <2>2, <2>3 DEF LinedBy, Ranked
  <2>5. ASSUME NEW j \in 1..Len(c), NEW k \in 1..Len(c), NEW a, NEW b, j < k,
               Contains(equivObjs'[c[j]], a), Contains(equivObjs'[c[k]], b)
        PROVE  ~MustPrecede(b, a)
    <3>1. CASE Contains(equivObjs[c[j]], a) /\ Contains(equivObjs[c[k]], b) BY <2>5, <3>1 DEF LinedBy, Ranked
    <3>2. CASE j = i /\ a = e /\ Contains(equivObjs[c[k]], b)
      <4>1. ~MustPrecede(b, h) BY <1>2, <1>6, <2>5, <3>2 DEF LinedBy, Ranked
      <4>2. b \in Elements BY <2>0, <3>2
      <4>3. QED BY <1>4, <1>6, <1>10, <3>2, <4>1, <4>2, AlikeOthers
    <3>3. CASE k = i /\ b = e /\ Contains(equivObjs[c[j]], a)
      <4>1. j \in 1..(i - 1) BY <1>0, <2>5, <3>3
      <4>2. QED BY <1>1, <1>3, <3>3, <4>1
    <3>4. j # k BY <1>0, <2>5
    <3>5. QED BY <1>19, <2>5, <3>1, <3>2, <3>3, <3>4
  <2>6. QED BY <2>4, <2>5 DEF Ranked, Alike, MustPrecede
<1>24. Descended(c)' BY <1>13 DEF Descended
<1>25. LinedBy(c)' BY <1>20, <1>21, <1>22, <1>23, <1>24 DEF LinedBy
<1>26. QED BY <1>13, <1>15, <1>17, <1>25

\* The element is less than a wrapper of the line: it goes on to the next, or to the end.
LEMMA LineLess ==
    ASSUME TypeOK, Filed, Placing, order \in LinearOrders, order' = order, po # Root, NEW c, LinedBy(c),
           StrandLess(Head(strands))
    PROVE  /\ \E d : LinedBy(d)'
           /\ children' \in [Nodes -> Seq(Wrappers)] /\ strands' \in Seq(StrandRecords) /\ po' \in {po, Root}
           /\ po' = Root <=> strands' = <<>>
<1>0. /\ c \in Seq(Wrappers) /\ Len(c) \in Nat /\ Distinct(c)
      /\ \A i \in 1..Len(c) : c[i] \in Wrappers /\ In(c[i]) /\ Contains(c, c[i])
  BY LineParts
<1>1. PICK i \in 1..Len(c) :
              /\ Head(strands) = [child |-> c[i], parent |-> IF i = 1 THEN Root ELSE c[i - 1]]
              /\ Tail(strands) = <<>> /\ c[i] # po
              /\ \A k \in 1..(i - 1) : \A a : Contains(equivObjs[c[k]], a) => ~MustPrecede(se, a)
  BY LineStrand
<1>2. PICK u : u = c[i] OBVIOUS
<1>3. PICK e : e = se OBVIOUS
<1>4. /\ po \in Wrappers /\ e \in Elements /\ \A x : Contains(equivObjs[po], x) <=> x = e
      /\ equivObjs[po] = <<e>>
  BY <1>3, PlacedElement
<1>5. PICK h : h = Head(equivObjs[u]) OBVIOUS
<1>6. /\ u \in Wrappers /\ In(u) /\ u # po /\ h \in Elements /\ Contains(equivObjs[u], h)
  BY <1>0, <1>1, <1>2, <1>5, LineParts
<1>7. Head(strands).child = u /\ getPartialOrderForConfig(e, h) = "LT"
  BY <1>1, <1>2, <1>3, <1>5 DEF StrandLess, compare
<1>8. order = "Priority" => e.priority # NoPriority BY <1>3 DEF LinedBy, Descended
<1>9. \A a : Contains(equivObjs[u], a) => ~MustPrecede(e, a)
  <2>1. TAKE a
  <2>2. SUFFICES ASSUME Contains(equivObjs[u], a) PROVE ~MustPrecede(e, a) OBVIOUS
  <2>3. Alike(a, h) /\ a \in Elements BY <1>2, <1>6, <2>2 DEF LinedBy, Ranked, Filed, TypeOK
  <2>4. QED BY <1>4, <1>6, <1>7, <2>3, LessNotBefore
<1>10. \A k \in 1..i : \A a : Contains(equivObjs[c[k]], a) => ~MustPrecede(e, a)
  <2>1. \A k \in 1..i : k = i \/ k \in 1..(i - 1) BY <1>0
  <2>2. QED BY <1>1, <1>2, <1>3, <1>9, <2>1
<1>11. PICK r : r = Strands(e, u) OBVIOUS
<1>12. /\ children' = IF r = <<>> THEN [children EXCEPT ![u] = addChild(@, po)] ELSE children
       /\ equivObjs' = equivObjs /\ EndStrand(Tail(strands) \o r)
  BY <1>3, <1>7, <1>11 DEF StrandLess
<1>13. children[u] \in Seq(Wrappers) /\ Distinct(children[u]) /\ u \in Nodes
  BY <1>6, LineChildren, NodesAre DEF TypeOK
<1>14. r \in Seq(StrandRecords) BY <1>11, <1>13, StrandsAre
<1>15. strands' = r /\ (r = <<>> => po' = Root) /\ (r # <<>> => po' = po)
  <2>1. <<>> \o r = r BY <1>14
  <2>2. QED BY <1>1, <1>12, <2>1 DEF EndStrand
<1>16. children[u] = IF i < Len(c) THEN <<c[i + 1]>> ELSE <<>> BY <1>2 DEF LinedBy, Linked
<1>17. CASE i < Len(c)
  <2>1. i + 1 \in 1..Len(c) /\ c[i + 1] \in Wrappers /\ In(c[i + 1]) /\ Contains(c, c[i + 1])
    <3>1. i + 1 \in 1..Len(c) BY <1>0, <1>17
    <3>2. QED BY <1>0, <3>1
  <2>2. \A w \in Wrappers : Contains(children[u], w) <=> w = c[i + 1] BY <1>16, <1>17, ShortLists
  <2>3. Comparable(e, c[i + 1]) BY <1>4, <1>8, <2>1, LineCompares
  <2>4. r = <<[child |-> c[i + 1], parent |-> u]>> BY <1>11, <1>13, <2>1, <2>2, <2>3, OneStrand
  <2>5. r # <<>> BY <2>4
  <2>6. UNCHANGED <<children, equivObjs, po, order>> BY <1>12, <1>15, <2>5
  <2>7. InLine(c)' /\ Beside(c)' /\ Linked(c)' BY <2>6 DEF LinedBy, InLine, Beside, Linked, In
  <2>8. Ranked(c)' BY <2>6 DEF LinedBy, Ranked, Alike, MustPrecede
  <2>9. Descended(c)'
    <3>1. i + 1 # 1 /\ (i + 1) - 1 = i BY <1>0
    <3>2. strands' = <<[child |-> c[i + 1], parent |-> IF i + 1 = 1 THEN Root ELSE c[(i + 1) - 1]]>>
      BY <1>2, <1>15, <2>4, <3>1
    <3>3. \A k \in 1..((i + 1) - 1) : \A a : Contains(equivObjs'[c[k]], a) => ~MustPrecede(se, a)'
      BY <1>3, <1>10, <2>6, <3>1 DEF MustPrecede, se
    <3>4. (order = "Priority" => se.priority # NoPriority)' BY <1>3, <1>8, <2>6 DEF se
    <3>5. QED BY <2>1, <3>2, <3>3, <3>4 DEF Descended
  <2>10. LinedBy(c)' BY <2>7, <2>8, <2>9 DEF LinedBy
  <2>11. QED BY <1>14, <1>15, <2>5, <2>6, <2>10 DEF TypeOK
<1>18. CASE ~(i < Len(c))
  <2>1. i = Len(c) BY <1>0, <1>18
  <2>2. children[u] = <<>> /\ \A w \in Wrappers : ~Contains(children[u], w) BY <1>16, <1>18, ShortLists
  <2>3. r = <<>> BY <1>11, <1>13, <2>2, NoStrand
  <2>4. po' = Root /\ strands' = <<>> /\ equivObjs' = equivObjs /\ order' = order BY <1>12, <1>15, <2>3
  <2>5. addChild(children[u], po) = <<po>> /\ <<po>> \in Seq(Wrappers)
    BY <1>4, <2>2 DEF addChild
  <2>6. /\ children' \in [Nodes -> Seq(Wrappers)] /\ children'[u] = <<po>>
        /\ \A w \in Nodes : w # u => children'[w] = children[w]
    BY <1>12, <1>13, <2>3, <2>5 DEF TypeOK
  <2>7. \A w \in Wrappers : In(w)' <=> In(w) \/ w = po
    <3>1. equivObjs[po] # <<>> BY <1>4
    <3>2. QED BY <2>4, <3>1, NodesAre DEF In
  <2>8. PICK d : d = addChild(c, po) OBVIOUS
  <2>9. ~Contains(c, po) BY <1>0 DEF Contains, In
  <2>10. d \in Seq(Wrappers) /\ Distinct(d) /\ \A x : Contains(d, x) <=> Contains(c, x) \/ x = po
    BY <1>0, <1>4, <2>8, AddedChild
  <2>11. Len(d) = Len(c) + 1 /\ d[Len(c) + 1] = po /\ \A k \in 1..Len(c) : d[k] = c[k]
    BY <1>0, <1>4, <2>8, <2>9 DEF addChild
  <2>12. \A k \in 1..Len(d) : k \in 1..Len(c) \/ k = Len(c) + 1 BY <1>0, <2>11
  <2>13. d[1] = c[1] /\ 1 \in 1..Len(c)
    <3>1. 1 \in 1..Len(c) BY <1>0
    <3>2. QED BY <2>11, <3>1
  <2>14. InLine(d)' BY <1>0, <1>4, <2>7, <2>10, <2>11, <2>12 DEF InLine
  <2>15. Beside(d)'
    <3>1. Contains(c, u) BY <1>0, <1>2
    <3>2. \A w \in Wrappers : In(w)' /\ ~Contains(d, w) => In(w) /\ ~Contains(c, w) /\ children'[w] = children[w]
      BY <2>6, <2>7, <2>10, <3>1, NodesAre
    <3>3. \A w \in Wrappers : In(w)' /\ ~Contains(d, w) =>
             /\ order = "Priority" /\ Len(equivObjs[w]) = 1 /\ equivObjs[w][1].priority = NoPriority
             /\ children'[w] = <<>>
      BY <3>2 DEF LinedBy, Beside
    <3>4. ASSUME order = "Priority", NEW k \in 1..Len(d), NEW x, Contains(equivObjs[d[k]], x)
          PROVE x.priority # NoPriority
      BY <1>4, <1>8, <2>11, <2>12, <3>4 DEF LinedBy, Beside
    <3>5. QED BY <2>4, <3>3, <3>4 DEF Beside
  <2>16. Linked(d)'
    <3>1. \A w \in Wrappers : ~In(w)' => children'[w] = <<>>
      BY <1>6, <2>6, <2>7, NodesAre DEF LinedBy, Linked
    <3>2. ASSUME NEW k \in 1..Len(d) PROVE children'[d[k]] = IF k < Len(d) THEN <<d[k + 1]>> ELSE <<>>
      <4>1. CASE k = Len(c) + 1
        <5>1. children[po] = <<>> BY <1>4 DEF LinedBy, Linked, In
        <5>2. QED BY <1>4, <1>6, <2>6, <2>11, <4>1, <5>1, NodesAre
      <4>2. CASE k = Len(c)
        <5>1. k < Len(d) /\ d[k] = u /\ d[k + 1] = po BY <1>0, <1>2, <2>1, <2>11, <2>13, <4>2
        <5>2. QED BY <2>6, <5>1
      <4>3. CASE k \in 1..Len(c) /\ k # Len(c)
        <5>1. k < Len(d) /\ k < Len(c) /\ k + 1 \in 1..Len(c) BY <1>0, <2>11, <4>3
        <5>2. d[k] = c[k] /\ d[k + 1] = c[k + 1] BY <2>11, <4>3, <5>1
        <5>3. c[k] # u /\ c[k] \in Nodes BY <1>0, <1>2, <2>1, <4>3, NodesAre DEF Distinct
        <5>4. children[c[k]] = <<c[k + 1]>> BY <4>3, <5>1 DEF LinedBy, Linked
        <5>5. QED BY <2>6, <5>1, <5>2, <5>3, <5>4
      <4>4. QED BY <2>12, <4>1, <4>2, <4>3
    <3>3. children'[Root] = children[Root] BY <1>6, <2>6, NodesAre
    <3>4. \A w \in Wrappers : Contains(children'[Root], w) <=> In(w)' /\ (Contains(d, w) => w = d[1])
      <4>1. ~Contains(children[Root], po) BY <1>4 DEF LinedBy, Linked, In
      <4>2. po # d[1] BY <1>0, <2>13 DEF In
      <4>3. QED BY <1>4, <2>7, <2>10, <2>13, <3>3, <4>1, <4>2 DEF LinedBy, Linked
    <3>5. Distinct(children'[Root]) BY <3>3 DEF LinedBy, Linked
    <3>6. QED BY <3>1, <3>2, <3>4, <3>5 DEF Linked
  <2>17. Ranked(d)'
    <3>1. ASSUME NEW k \in 1..Len(d), NEW a, NEW b, Contains(equivObjs[d[k]], a), Contains(equivObjs[d[k]], b)
          PROVE  Alike(a, b)
      <4>1. CASE k \in 1..Len(c) BY <2>11, <3>1, <4>1 DEF LinedBy, Ranked
      <4>2. CASE k = Len(c) + 1 BY <1>4, <2>11, <3>1, <4>2 DEF Alike
      <4>3. QED BY <2>12, <4>1, <4>2
    <3>2. ASSUME NEW j \in 1..Len(d), NEW k \in 1..Len(d), NEW a, NEW b, j < k,
                 Contains(equivObjs[d[j]], a), Contains(equivObjs[d[k]], b)
          PROVE  ~MustPrecede(b, a)
      <4>1. j \in 1..Len(c) BY <1>0, <2>11, <3>2
      <4>2. CASE k \in 1..Len(c) BY <2>11, <3>2, <4>1, <4>2 DEF LinedBy, Ranked
      <4>3. CASE k = Len(c) + 1 BY <1>4, <1>10, <2>1, <2>11, <3>2, <4>1, <4>3
      <4>4. QED BY <2>12, <4>2, <4>3
    <3>3. QED BY <2>4, <3>1, <3>2 DEF Ranked, Alike, MustPrecede
  <2>18. Descended(d)' BY <2>4 DEF Descended
  <2>19. LinedBy(d)' BY <2>14, <2>15, <2>16, <2>17, <2>18 DEF LinedBy
  <2>20. QED BY <1>14, <2>3, <2>4, <2>6, <2>19
<1>19. QED BY <1>17, <1>18

\* The element is greater than a wrapper of the line: it goes between that and the one above.
LEMMA LineGreater ==
    ASSUME TypeOK, Filed, Placing, Fronted, order \in LinearOrders, order' = order, po # Root, NEW c, LinedBy(c),
           StrandGreater(Head(strands))
    PROVE  /\ \E d : LinedBy(d)'
           /\ children' \in [Nodes -> Seq(Wrappers)] /\ strands' = <<>> /\ po' = Root
<1>0. /\ c \in Seq(Wrappers) /\ Len(c) \in Nat /\ Distinct(c)
      /\ \A i \in 1..Len(c) : c[i] \in Wrappers /\ In(c[i]) /\ Contains(c, c[i])
  BY LineParts
<1>1. PICK i \in 1..Len(c) :
              /\ Head(strands) = [child |-> c[i], parent |-> IF i = 1 THEN Root ELSE c[i - 1]]
              /\ Tail(strands) = <<>> /\ c[i] # po
              /\ i > 1 => i - 1 \in 1..Len(c) /\ c[i - 1] # po
              /\ \A k \in 1..(i - 1) : \A a : Contains(equivObjs[c[k]], a) => ~MustPrecede(se, a)
  BY LineStrand
<1>2. PICK u : u = c[i] OBVIOUS
<1>3. PICK e : e = se OBVIOUS
<1>4. /\ po \in Wrappers /\ e \in Elements /\ \A x : Contains(equivObjs[po], x) <=> x = e
      /\ equivObjs[po] = <<e>> /\ e \in waiting
  BY <1>3, PlacedElement
<1>5. PICK h : h = Head(equivObjs[u]) OBVIOUS
<1>6. /\ u \in Wrappers /\ In(u) /\ u # po /\ h \in Elements /\ Contains(equivObjs[u], h)
  BY <1>0, <1>1, <1>2, <1>5, LineParts
<1>7. PICK p : p = IF i = 1 THEN Root ELSE c[i - 1] OBVIOUS
<1>8. Head(strands).child = u /\ Head(strands).parent = p /\ getPartialOrderForConfig(e, h) = "GT"
  BY <1>1, <1>2, <1>3, <1>5, <1>7 DEF StrandGreater, compare
<1>9. order = "Priority" => e.priority # NoPriority BY <1>3 DEF LinedBy, Descended
<1>10. p \in Nodes /\ p # po /\ (i # 1 => i - 1 \in 1..Len(c) /\ p = c[i - 1] /\ p \in Wrappers)
  <2>1. i # 1 => i > 1 BY <1>0
  <2>2. QED BY <1>0, <1>1, <1>4, <1>7, <2>1, NodesAre
<1>11. \A k \in 1..Len(c) : k >= i => \A a : Contains(equivObjs[c[k]], a) => ~MustPrecede(a, e)
  <2>1. TAKE k \in 1..Len(c)
  <2>2. SUFFICES ASSUME k >= i, NEW a, Contains(equivObjs[c[k]], a) PROVE ~MustPrecede(a, e) OBVIOUS
  <2>3. a \in Elements /\ a \in waiting BY <1>0, <2>2 DEF Filed, TypeOK
  <2>4. a # e /\ h # e /\ h \in waiting BY <1>0, <1>4, <1>6, <2>2 DEF Filed, In
  <2>5. CASE k = i
    <3>1. Alike(a, h) BY <1>2, <1>6, <2>2, <2>5 DEF LinedBy, Ranked
    <3>2. QED BY <1>4, <1>6, <1>8, <2>3, <3>1, GreaterNotAfter
  <2>6. CASE k # i
    <3>1. i < k BY <1>0, <2>2, <2>6
    <3>2. ~MustPrecede(a, h) BY <1>2, <1>6, <2>2, <3>1 DEF LinedBy, Ranked
    <3>3. ~MustPrecede(a, e) \/ h.createTime < e.createTime BY <1>3, <2>3, <2>4 DEF Fronted
    <3>4. QED BY <1>4, <1>6, <1>8, <2>3, <3>2, <3>3, GreaterOverLower
  <2>7. QED BY <2>5, <2>6
<1>12. children' = [children EXCEPT ![p] = addChild(removeChild(@, u), po), ![po] = addChild(@, u)]
       /\ equivObjs' = equivObjs /\ strands' = <<>> /\ po' = Root
  BY <1>1, <1>8 DEF StrandGreater, EndStrand
<1>13. children[p] \in Seq(Wrappers) /\ Distinct(children[p]) BY <1>10, LineChildren DEF TypeOK
<1>14. /\ removeChild(children[p], u) \in Seq(Wrappers) /\ Distinct(removeChild(children[p], u))
       /\ \A x : Contains(removeChild(children[p], u), x) <=> Contains(children[p], x) /\ x # u
  BY <1>13, RemovedChild
<1>15. PICK q : q = addChild(removeChild(children[p], u), po) OBVIOUS
<1>16. /\ q \in Seq(Wrappers) /\ Distinct(q)
       /\ \A x : Contains(q, x) <=> (Contains(children[p], x) /\ x # u) \/ x = po
  <2>1. \A x : Contains(q, x) <=> Contains(removeChild(children[p], u), x) \/ x = po BY <1>4, <1>14, <1>15, AddedChild
  <2>2. q \in Seq(Wrappers) /\ Distinct(q) BY <1>4, <1>14, <1>15, AddedChild
  <2>3. QED BY <1>14, <2>1, <2>2
<1>17. children[po] = <<>> /\ addChild(children[po], u) = <<u>> /\ <<u>> \in Seq(Wrappers)
  <2>1. children[po] = <<>> BY <1>4 DEF LinedBy, Linked, In
  <2>2. QED BY <1>6, <2>1, ShortLists DEF addChild
<1>18. /\ children' \in [Nodes -> Seq(Wrappers)] /\ children'[p] = q /\ children'[po] = <<u>>
       /\ \A w \in Nodes : w # p /\ w # po => children'[w] = children[w]
  <2>1. po \in Nodes BY <1>4, NodesAre
  <2>2. children' = [w \in Nodes |-> IF w = po THEN <<u>> ELSE IF w = p THEN q ELSE children[w]]
    BY <1>10, <1>12, <1>15, <1>17, <2>1 DEF TypeOK
  <2>3. QED BY <1>10, <1>16, <1>17, <2>1, <2>2 DEF TypeOK
<1>19. \A w \in Wrappers : In(w)' <=> In(w) \/ w = po
  <2>1. equivObjs[po] # <<>> BY <1>4
  <2>2. QED BY <1>12, <2>1, NodesAre DEF In
<1>20. PICK d : d = [k \in 1..(Len(c) + 1) |-> IF k < i THEN c[k] ELSE IF k = i THEN po ELSE c[k - 1]] OBVIOUS
<1>21. /\ d \in Seq(Wrappers) /\ Len(d) = Len(c) + 1 /\ i \in 1..Len(d) /\ d[i] = po
       /\ \A k \in 1..Len(c) : k < i => k \in 1..Len(d) /\ d[k] = c[k]
       /\ \A k \in 1..Len(c) : k >= i => k + 1 \in 1..Len(d) /\ d[k + 1] = c[k]
  <2>1. \A k \in 1..(Len(c) + 1) : (IF k < i THEN c[k] ELSE IF k = i THEN po ELSE c[k - 1]) \in Wrappers
    <3>1. TAKE k \in 1..(Len(c) + 1)
    <3>2. CASE k < i
      <4>1. k \in 1..Len(c) BY <1>0, <3>2
      <4>2. QED BY <1>0, <3>2, <4>1
    <3>3. CASE k = i BY <1>0, <1>4, <3>3
    <3>4. CASE k > i
      <4>1. k - 1 \in 1..Len(c) BY <1>0, <3>4
      <4>2. QED BY <1>0, <3>4, <4>1
    <3>5. QED BY <1>0, <3>2, <3>3, <3>4
  <2>2. d \in Seq(Wrappers) /\ Len(d) = Len(c) + 1 BY <1>0, <1>20, <2>1
  <2>3. i \in 1..Len(d) /\ d[i] = po BY <1>0, <1>20, <2>2
  <2>4. \A k \in 1..Len(c) : k < i => k \in 1..Len(d) /\ d[k] = c[k] BY <1>0, <1>20, <2>2
  <2>5. \A k \in 1..Len(c) : k >= i => k + 1 \in 1..Len(d) /\ d[k + 1] = c[k]
    <3>1. TAKE k \in 1..Len(c)
    <3>2. SUFFICES ASSUME k >= i PROVE k + 1 \in 1..Len(d) /\ d[k + 1] = c[k] OBVIOUS
    <3>3. k + 1 \in 1..(Len(c) + 1) /\ ~(k + 1 < i) /\ k + 1 # i /\ (k + 1) - 1 = k BY <1>0, <3>2
    <3>4. QED BY <1>20, <2>2, <3>3
  <2>6. QED BY <2>2, <2>3, <2>4, <2>5
<1>22. \A k \in 1..Len(d) : \/ k = i /\ d[k] = po
                            \/ k < i /\ k \in 1..Len(c) /\ d[k] = c[k]
                            \/ k > i /\ k - 1 \in 1..Len(c) /\ k - 1 >= i /\ d[k] = c[k - 1]
  <2>1. TAKE k \in 1..Len(d)
  <2>2. CASE k = i BY <1>21, <2>2
  <2>3. CASE k < i
    <3>1. k \in 1..Len(c) BY <1>0, <2>3
    <3>2. QED BY <1>21, <2>3, <3>1
  <2>4. CASE k > i
    <3>1. k - 1 \in 1..Len(c) /\ k - 1 >= i /\ (k - 1) + 1 = k BY <1>0, <1>21, <2>4
    <3>2. QED BY <1>21, <2>4, <3>1
  <2>5. QED BY <1>0, <1>21, <2>2, <2>3, <2>4
<1>23. \A k \in 1..Len(c) : c[k] # po BY <1>0 DEF In
<1>24. Distinct(d)
  <2>1. SUFFICES ASSUME NEW j \in 1..Len(d), NEW k \in 1..Len(d), d[j] = d[k] PROVE j = k BY DEF Distinct
  <2>2. Len(d) \in Nat /\ j \in Int /\ k \in Int /\ i \in Int BY <1>0, <1>21
  <2>3. CASE j = i \/ k = i
    <3>1. \A m \in 1..Len(d) : d[m] = po => m = i BY <1>22, <1>23
    <3>2. QED BY <1>21, <2>1, <2>3, <3>1
  <2>4. CASE j < i /\ k < i BY <1>0, <1>22, <2>1, <2>2, <2>4 DEF Distinct
  <2>5. CASE j > i /\ k > i
    <3>1. j - 1 = k - 1 BY <1>0, <1>22, <2>1, <2>2, <2>5 DEF Distinct
    <3>2. QED BY <2>2, <3>1
  <2>6. CASE j < i /\ k > i
    <3>1. j = k - 1 /\ k - 1 >= i BY <1>0, <1>22, <2>1, <2>2, <2>6 DEF Distinct
    <3>2. QED BY <2>2, <2>6, <3>1
  <2>7. CASE j > i /\ k < i
    <3>1. j - 1 = k /\ j - 1 >= i BY <1>0, <1>22, <2>1, <2>2, <2>7 DEF Distinct
    <3>2. QED BY <2>2, <2>7, <3>1
  <2>8. QED BY <2>2, <2>3, <2>4, <2>5, <2>6, <2>7
<1>25. \A x : Contains(d, x) <=> Contains(c, x) \/ x = po
  <2>1. TAKE x
  <2>2. ASSUME NEW k \in 1..Len(d), d[k] = x PROVE Contains(c, x) \/ x = po BY <1>0, <1>22, <2>2
  <2>3. ASSUME NEW k \in 1..Len(c), c[k] = x PROVE Contains(d, x)
    <3>1. k < i \/ k >= i BY <1>0
    <3>2. QED BY <1>21, <2>3, <3>1 DEF Contains
  <2>4. Contains(d, po) BY <1>21 DEF Contains
  <2>5. QED BY <2>2, <2>3, <2>4 DEF Contains
<1>26. InLine(d)' BY <1>0, <1>4, <1>19, <1>21, <1>22, <1>24 DEF InLine
<1>27. Beside(d)'
  <2>1. \A w \in Wrappers : In(w)' /\ ~Contains(d, w) => In(w) /\ ~Contains(c, w) /\ children'[w] = children[w]
    <3>1. p = Root \/ Contains(c, p) BY <1>0, <1>7, <1>10
    <3>2. QED BY <1>18, <1>19, <1>25, <3>1, NodesAre
  <2>2. \A w \in Wrappers : In(w)' /\ ~Contains(d, w) =>
           /\ order = "Priority" /\ Len(equivObjs[w]) = 1 /\ equivObjs[w][1].priority = NoPriority
           /\ children'[w] = <<>>
    BY <2>1 DEF LinedBy, Beside
  <2>3. ASSUME order = "Priority", NEW k \in 1..Len(d), NEW x, Contains(equivObjs[d[k]], x)
        PROVE x.priority # NoPriority
    BY <1>4, <1>9, <1>22, <2>3 DEF LinedBy, Beside
  <2>4. QED BY <1>12, <2>2, <2>3 DEF Beside
<1>28. Linked(d)'
  <2>1. \A w \in Wrappers : ~In(w)' => children'[w] = <<>>
    <3>1. p = Root \/ In(p) BY <1>0, <1>7, <1>10
    <3>2. QED BY <1>18, <1>19, <3>1, NodesAre DEF LinedBy, Linked
  <2>2. ASSUME NEW k \in 1..Len(d) PROVE children'[d[k]] = IF k < Len(d) THEN <<d[k + 1]>> ELSE <<>>
    <3>1. CASE k = i
      <4>1. i < Len(d) /\ d[i + 1] = u /\ d[i] = po BY <1>0, <1>2, <1>21
      <4>2. QED BY <1>18, <3>1, <4>1
    <3>2. CASE k < i
      <4>1. k \in 1..Len(c) /\ d[k] = c[k] /\ k < Len(d) /\ k < Len(c) /\ k + 1 \in 1..Len(c) BY <1>0, <1>21, <1>22, <3>2
      <4>2. children[c[k]] = <<c[k + 1]>> BY <4>1 DEF LinedBy, Linked
      <4>3. CASE k + 1 = i
        <5>1. i # 1 /\ i - 1 = k BY <1>0, <4>3
        <5>2. p = c[k] /\ d[k + 1] = po /\ children[p] = <<u>> BY <1>2, <1>10, <1>21, <4>2, <4>3, <5>1
        <5>3. \A x : Contains(q, x) <=> x = po BY <1>16, <5>2, ShortLists
        <5>4. q = <<po>> BY <1>16, <5>3, ListOfOne
        <5>5. QED BY <1>18, <4>1, <5>2, <5>4
      <4>4. CASE k + 1 # i
        <5>1. k + 1 < i BY <1>0, <3>2, <4>4
        <5>2. d[k + 1] = c[k + 1] BY <1>21, <4>1, <5>1
        <5>3. c[k] # po /\ c[k] \in Nodes BY <1>0, <1>23, <4>1, NodesAre
        <5>4. c[k] # p
          <6>1. CASE i = 1 BY <1>0, <1>7, <4>1, <6>1, NodesAre
          <6>2. CASE i # 1
            <7>1. k # i - 1 BY <1>0, <4>4
            <7>2. QED BY <1>0, <1>10, <4>1, <6>2, <7>1 DEF Distinct
          <6>3. QED BY <6>1, <6>2
        <5>5. QED BY <1>18, <4>1, <4>2, <5>2, <5>3, <5>4
      <4>5. QED BY <4>3, <4>4
    <3>3. CASE k > i
      <4>1. PICK m : m = k - 1 OBVIOUS
      <4>2. m \in 1..Len(c) /\ m >= i /\ d[k] = c[m] /\ m + 1 = k BY <1>0, <1>21, <1>22, <3>3, <4>1
      <4>3. c[m] # po /\ c[m] \in Nodes BY <1>0, <1>23, <4>2, NodesAre
      <4>4. c[m] # p
        <5>1. CASE i = 1 BY <1>0, <1>7, <4>2, <5>1, NodesAre
        <5>2. CASE i # 1
          <6>1. m # i - 1 BY <1>0, <4>2
          <6>2. QED BY <1>0, <1>10, <4>2, <5>2, <6>1 DEF Distinct
        <5>3. QED BY <5>1, <5>2
      <4>5. children'[d[k]] = children[c[m]] BY <1>18, <4>2, <4>3, <4>4
      <4>6. children[c[m]] = IF m < Len(c) THEN <<c[m + 1]>> ELSE <<>> BY <4>2 DEF LinedBy, Linked
      <4>7. CASE m < Len(c)
        <5>1. k < Len(d) /\ k \in 1..Len(c) /\ k >= i BY <1>0, <1>21, <4>2, <4>7
        <5>2. d[k + 1] = c[k] BY <1>21, <5>1
        <5>3. QED BY <4>2, <4>5, <4>6, <4>7, <5>1, <5>2
      <4>8. CASE ~(m < Len(c))
        <5>1. ~(k < Len(d)) BY <1>0, <1>21, <4>2, <4>8
        <5>2. QED BY <4>5, <4>6, <4>8, <5>1
      <4>9. QED BY <4>7, <4>8
    <3>4. QED BY <1>0, <1>21, <3>1, <3>2, <3>3
  <2>3. Distinct(children'[Root]) /\ \A w \in Wrappers :
           Contains(children'[Root], w) <=> In(w)' /\ (Contains(d, w) => w = d[1])
    <3>1. CASE i = 1
      <4>1. p = Root /\ d[1] = po /\ u = c[1] BY <1>2, <1>7, <1>21, <3>1
      <4>2. \A w \in Wrappers : Contains(children'[Root], w) <=> (Contains(children[Root], w) /\ w # u) \/ w = po
        BY <1>16, <1>18, <4>1
      <4>3. Contains(c, c[1]) BY <1>0, <3>1
      <4>4. QED BY <1>16, <1>18, <1>19, <1>25, <4>1, <4>2, <4>3 DEF LinedBy, Linked
    <3>2. CASE i # 1
      <4>1. children'[Root] = children[Root] BY <1>4, <1>10, <1>18, <3>2, NodesAre
      <4>2. d[1] = c[1] /\ 1 \in 1..Len(c)
        <5>1. 1 \in 1..Len(c) /\ 1 < i BY <1>0, <3>2
        <5>2. QED BY <1>21, <5>1
      <4>3. ~Contains(children[Root], po) BY <1>4 DEF LinedBy, Linked, In
      <4>4. po # d[1] BY <1>23, <4>2
      <4>5. QED BY <1>19, <1>25, <4>1, <4>2, <4>3, <4>4 DEF LinedBy, Linked
    <3>3. QED BY <3>1, <3>2
  <2>4. QED BY <2>1, <2>2, <2>3 DEF Linked
<1>29. Ranked(d)'
  <2>1. ASSUME NEW k \in 1..Len(d), NEW a, NEW b, Contains(equivObjs[d[k]], a), Contains(equivObjs[d[k]], b)
        PROVE  Alike(a, b)
    <3>1. CASE d[k] = po BY <1>4, <2>1, <3>1 DEF Alike
    <3>2. CASE d[k] # po
      <4>1. PICK m \in 1..Len(c) : d[k] = c[m] BY <1>22, <3>2
      <4>2. QED BY <2>1, <4>1 DEF LinedBy, Ranked
    <3>3. QED BY <3>1, <3>2
  <2>2. ASSUME NEW j \in 1..Len(d), NEW k \in 1..Len(d), NEW a, NEW b, j < k,
               Contains(equivObjs[d[j]], a), Contains(equivObjs[d[k]], b)
        PROVE  ~MustPrecede(b, a)
    <3>0. i \in Int /\ j \in Int /\ k \in Int BY <1>0, <1>21
    <3>1. CASE j = i
      <4>1. k > i BY <2>2, <3>1
      <4>2. a = e /\ k - 1 \in 1..Len(c) /\ k - 1 >= i /\ Contains(equivObjs[c[k - 1]], b)
        <5>1. d[j] = po BY <1>21, <3>1
        <5>2. k - 1 \in 1..Len(c) /\ k - 1 >= i /\ d[k] = c[k - 1] BY <1>22, <3>0, <4>1
        <5>3. QED BY <1>4, <2>2, <5>1, <5>2
      <4>3. QED BY <1>11, <4>2
    <3>2. CASE k = i
      <4>1. j < i BY <2>2, <3>2
      <4>2. b = e /\ j \in 1..(i - 1) /\ Contains(equivObjs[c[j]], a)
        <5>1. d[k] = po BY <1>21, <3>2
        <5>2. d[j] = c[j] /\ j \in 1..Len(c) BY <1>22, <3>0, <4>1
        <5>3. j \in 1..(i - 1) BY <1>0, <4>1, <5>2
        <5>4. QED BY <1>4, <2>2, <5>1, <5>2, <5>3
      <4>3. QED BY <1>1, <1>3, <4>2
    <3>3. CASE j # i /\ k # i
      <4>1. PICK m \in 1..Len(c), n \in 1..Len(c) : m < n /\ d[j] = c[m] /\ d[k] = c[n]
        <5>1. CASE j < i /\ k < i BY <1>22, <2>2, <3>0, <5>1
        <5>2. CASE j > i /\ k > i
          <6>1. j - 1 < k - 1 BY <2>2, <3>0
          <6>2. j - 1 \in 1..Len(c) /\ d[j] = c[j - 1] BY <1>22, <3>0, <5>2
          <6>3. k - 1 \in 1..Len(c) /\ d[k] = c[k - 1] BY <1>22, <3>0, <5>2
          <6>4. QED BY <6>1, <6>2, <6>3
        <5>3. CASE j < i /\ k > i
          <6>1. j < k - 1 BY <3>0, <5>3
          <6>2. j \in 1..Len(c) /\ d[j] = c[j] BY <1>22, <3>0, <5>3
          <6>3. k - 1 \in 1..Len(c) /\ d[k] = c[k - 1] BY <1>22, <3>0, <5>3
          <6>4. QED BY <6>1, <6>2, <6>3
        <5>4. QED BY <2>2, <3>0, <3>3, <5>1, <5>2, <5>3
      <4>2. QED BY <2>2, <4>1 DEF LinedBy, Ranked
    <3>4. QED BY <3>1, <3>2, <3>3
  <2>3. QED BY <1>12, <2>1, <2>2 DEF Ranked, Alike, MustPrecede
<1>30. Descended(d)' BY <1>12 DEF Descended
<1>31. LinedBy(d)' BY <1>26, <1>27, <1>28, <1>29, <1>30 DEF LinedBy
<1>32. QED BY <1>12, <1>18, <1>31

\* popTop takes an element from the first wrapper of the line, or a wrapper beside it.
LEMMA LinePop ==
    ASSUME TypeOK, Filed, Shaped, order \in LinearOrders, order' = order, po = Root, po' = po,
           children[Root] # <<>>, NEW c, LinedBy(c), popTop
    PROVE  \E d : LinedBy(d)'
<1>0. /\ c \in Seq(Wrappers) /\ Len(c) \in Nat /\ Distinct(c)
      /\ \A i \in 1..Len(c) : c[i] \in Wrappers /\ In(c[i]) /\ Contains(c, c[i])
      /\ c # <<>> => 1 \in 1..Len(c)
  BY LineParts
<1>1. PICK t : t = top OBVIOUS
<1>2. t \in Wrappers /\ Contains(children[Root], t) /\ equivObjs[t] # <<>> /\ In(t)
  BY <1>1, TopIs, NodesAre DEF In
<1>3. /\ \A w \in Wrappers : w # t => equivObjs'[w] = equivObjs[w]
      /\ equivObjs'[t] = <<>> <=> ~(Len(equivObjs[t]) > 1)
  BY <1>1, PopElements
<1>4. \A w \in Wrappers : \A x : Contains(equivObjs'[w], x) => Contains(equivObjs[w], x) BY PopElements
<1>5. Len(equivObjs[t]) > 1 => children' = children BY <1>1, PopGraph
<1>6. ~(Len(equivObjs[t]) > 1) =>
                /\ children'[t] = <<>> /\ \A w \in Wrappers : w # t => children'[w] = children[w]
                /\ Distinct(children'[Root])
                /\ \A x : Contains(children'[Root], x) <=>
                      (Contains(children[Root], x) \/ Contains(children[t], x)) /\ x # t
  BY <1>1, PopGraph
<1>7. \A w \in Wrappers : In(w)' <=> In(w) /\ ~(w = t /\ ~(Len(equivObjs[t]) > 1))
  BY <1>2, <1>3 DEF In
<1>8. Contains(c, t) => t = c[1] BY <1>2 DEF LinedBy, Linked
<1>9. ASSUME NEW d, \A k \in 1..Len(d) : d[k] \in Wrappers PROVE Ranked(d) => Ranked(d)'
  <2>1. \A k \in 1..Len(d) : \A x : Contains(equivObjs'[d[k]], x) => Contains(equivObjs[d[k]], x) BY <1>4, <1>9
  <2>2. SUFFICES ASSUME Ranked(d) PROVE Ranked(d)' OBVIOUS
  <2>3. \A a, b : (Alike(a, b) => Alike(a, b)') /\ (MustPrecede(a, b)' => MustPrecede(a, b))
    BY DEF Alike, MustPrecede
  <2>4. QED BY <2>1, <2>2, <2>3 DEF Ranked
<1>10. \A d : Descended(d)' BY DEF Descended
<1>11. CASE Len(equivObjs[t]) > 1
  <2>1. \A w \in Wrappers : In(w)' <=> In(w) BY <1>7, <1>11
  <2>2. children' = children BY <1>5, <1>11
  <2>3. InLine(c)' BY <1>0, <2>1 DEF InLine
  <2>4. Beside(c)'
    <3>1. \A w \in Wrappers : In(w) /\ ~Contains(c, w) => equivObjs'[w] = equivObjs[w]
      <4>1. Contains(c, t)
        <5>0. Len(equivObjs[t]) \in Nat BY <1>2 DEF TypeOK
        <5>1. Len(equivObjs[t]) # 1
          <6>1. \A n \in Nat : n > 1 => n # 1 OBVIOUS
          <6>2. QED BY <1>11, <5>0, <6>1
        <5>2. QED BY <1>2, <5>1 DEF LinedBy, Beside
      <4>2. QED BY <1>3, <4>1
    <3>2. QED BY <1>0, <1>4, <2>1, <2>2, <3>1 DEF LinedBy, Beside
  <2>5. Linked(c)' BY <2>1, <2>2 DEF LinedBy, Linked
  <2>6. Ranked(c)' BY <1>0, <1>9 DEF LinedBy
  <2>7. QED BY <1>10, <2>3, <2>4, <2>5, <2>6 DEF LinedBy
<1>12. CASE ~(Len(equivObjs[t]) > 1) /\ ~Contains(c, t)
  <2>1. \A w \in Wrappers : In(w)' <=> In(w) /\ w # t BY <1>7, <1>12
  <2>2. \A k \in 1..Len(c) : c[k] # t BY <1>0, <1>12
  <2>3. children[t] = <<>> BY <1>2, <1>12 DEF LinedBy, Beside
  <2>4. \A x : Contains(children'[Root], x) <=> Contains(children[Root], x) /\ x # t
    BY <1>6, <1>12, <2>3, ShortLists
  <2>5. InLine(c)' BY <1>0, <2>1, <2>2 DEF InLine
  <2>6. Beside(c)'
    <3>1. \A w \in Wrappers : In(w)' => equivObjs'[w] = equivObjs[w] /\ children'[w] = children[w]
      BY <1>3, <1>6, <1>12, <2>1
    <3>2. QED BY <1>0, <1>4, <2>1, <3>1 DEF LinedBy, Beside
  <2>7. Linked(c)'
    <3>1. \A w \in Wrappers : ~In(w)' => children'[w] = <<>> BY <1>6, <1>12, <2>1 DEF LinedBy, Linked
    <3>2. \A k \in 1..Len(c) : children'[c[k]] = children[c[k]] BY <1>0, <1>6, <1>12, <2>2
    <3>3. \A w \in Wrappers : Contains(children'[Root], w) <=> In(w)' /\ (Contains(c, w) => w = c[1])
      BY <2>1, <2>4 DEF LinedBy, Linked
    <3>4. QED BY <1>6, <1>12, <3>1, <3>2, <3>3 DEF LinedBy, Linked
  <2>8. Ranked(c)' BY <1>0, <1>9 DEF LinedBy
  <2>9. QED BY <1>10, <2>5, <2>6, <2>7, <2>8 DEF LinedBy
<1>13. CASE ~(Len(equivObjs[t]) > 1) /\ Contains(c, t)
  <2>1. \A w \in Wrappers : In(w)' <=> In(w) /\ w # t BY <1>7, <1>13
  <2>2. c # <<>> /\ 1 \in 1..Len(c) /\ t = c[1]
    <3>1. c # <<>> BY <1>13, ShortLists
    <3>2. QED BY <1>0, <1>8, <1>13, <3>1
  <2>3. PICK d : d = Tail(c) OBVIOUS
  <2>4. /\ d \in Seq(Wrappers) /\ Distinct(d) /\ Len(d) = Len(c) - 1
        /\ \A k \in 1..Len(d) : k + 1 \in 1..Len(c) /\ d[k] = c[k + 1]
        /\ \A x : Contains(d, x) <=> Contains(c, x) /\ x # t
    BY <1>0, <2>2, <2>3, Rest
  <2>5. \A k \in 1..Len(d) : d[k] \in Wrappers /\ In(d[k]) /\ d[k] # t /\ Contains(d, d[k])
    <3>1. TAKE k \in 1..Len(d)
    <3>2. Contains(d, d[k]) BY DEF Contains
    <3>3. QED BY <1>0, <2>4, <3>2
  <2>6. InLine(d)' BY <2>1, <2>4, <2>5 DEF InLine
  <2>7. Beside(d)'
    <3>1. \A w \in Wrappers : In(w)' => equivObjs'[w] = equivObjs[w] /\ children'[w] = children[w]
      BY <1>3, <1>6, <1>13, <2>1
    <3>2. \A w \in Wrappers : In(w)' /\ ~Contains(d, w) => In(w) /\ ~Contains(c, w) BY <2>1, <2>4
    <3>3. \A w \in Wrappers : In(w)' /\ ~Contains(d, w) =>
             /\ order = "Priority" /\ Len(equivObjs'[w]) = 1 /\ equivObjs'[w][1].priority = NoPriority
             /\ children'[w] = <<>>
      BY <3>1, <3>2 DEF LinedBy, Beside
    <3>4. order = "Priority" =>
             \A k \in 1..Len(d) : \A x : Contains(equivObjs'[d[k]], x) => x.priority # NoPriority
      <4>1. \A k \in 1..Len(d) : \A x : Contains(equivObjs'[d[k]], x) => Contains(equivObjs[c[k + 1]], x)
        BY <1>4, <2>4, <2>5
      <4>2. QED BY <2>4, <4>1 DEF LinedBy, Beside
    <3>5. QED BY <3>3, <3>4 DEF Beside
  <2>8. children[t] = IF d = <<>> THEN <<>> ELSE <<d[1]>>
    <3>1. children[t] = IF 1 < Len(c) THEN <<c[1 + 1]>> ELSE <<>> BY <2>2 DEF LinedBy, Linked
    <3>2. d = <<>> <=> Len(d) = 0 BY <2>4
    <3>3. CASE 1 < Len(c)
      <4>1. 1 \in 1..Len(d) /\ Len(d) # 0 BY <1>0, <2>4, <3>3
      <4>2. d[1] = c[1 + 1] BY <2>4, <4>1
      <4>3. QED BY <3>1, <3>2, <3>3, <4>1, <4>2
    <3>4. CASE ~(1 < Len(c))
      <4>1. Len(d) = 0 BY <1>0, <2>2, <2>4, <3>4
      <4>2. QED BY <3>1, <3>2, <3>4, <4>1
    <3>5. QED BY <3>3, <3>4
  <2>9. Linked(d)'
    <3>1. \A w \in Wrappers : ~In(w)' => children'[w] = <<>> BY <1>6, <1>13, <2>1 DEF LinedBy, Linked
    <3>2. ASSUME NEW k \in 1..Len(d) PROVE children'[d[k]] = IF k < Len(d) THEN <<d[k + 1]>> ELSE <<>>
      <4>1. k + 1 \in 1..Len(c) /\ d[k] = c[k + 1] /\ children'[d[k]] = children[c[k + 1]]
        BY <1>6, <1>13, <2>4, <2>5
      <4>2. children[c[k + 1]] = IF k + 1 < Len(c) THEN <<c[(k + 1) + 1]>> ELSE <<>> BY <4>1 DEF LinedBy, Linked
      <4>3. k + 1 < Len(c) <=> k < Len(d) BY <1>0, <2>4
      <4>4. k < Len(d) => d[k + 1] = c[(k + 1) + 1]
        <5>1. k < Len(d) => k + 1 \in 1..Len(d) BY <1>0, <2>4
        <5>2. QED BY <2>4, <5>1
      <4>5. QED BY <4>1, <4>2, <4>3, <4>4
    <3>3. \A w \in Wrappers : Contains(children'[Root], w) <=> In(w)' /\ (Contains(d, w) => w = d[1])
      <4>1. TAKE w \in Wrappers
      <4>2. Contains(children'[Root], w) <=> (Contains(children[Root], w) \/ Contains(children[t], w)) /\ w # t
        BY <1>6, <1>13
      <4>3. Contains(children[Root], w) <=> In(w) /\ (Contains(c, w) => w = t) BY <2>2 DEF LinedBy, Linked
      <4>4. Contains(children[t], w) <=> d # <<>> /\ w = d[1] BY <2>8, ShortLists
      <4>5. d # <<>> => Contains(d, d[1]) /\ In(d[1])
        <5>1. d # <<>> => 1 \in 1..Len(d) BY <2>4, Members
        <5>2. QED BY <2>5, <5>1
      <4>6. d = <<>> => ~Contains(d, w) BY ShortLists
      <4>7. QED BY <2>1, <2>4, <4>2, <4>3, <4>4, <4>5, <4>6
    <3>4. QED BY <1>6, <1>13, <3>1, <3>2, <3>3 DEF Linked
  <2>10. Ranked(d)
    <3>1. \A k \in 1..Len(d) : \A a, b :
            Contains(equivObjs[d[k]], a) /\ Contains(equivObjs[d[k]], b) => Alike(a, b)
      BY <2>4 DEF LinedBy, Ranked
    <3>2. \A j, k \in 1..Len(d) : j < k => j + 1 < k + 1 BY <1>0, <2>4
    <3>3. \A j, k \in 1..Len(d) : \A a, b :
            j < k /\ Contains(equivObjs[d[j]], a) /\ Contains(equivObjs[d[k]], b) => ~MustPrecede(b, a)
      BY <2>4, <3>2 DEF LinedBy, Ranked
    <3>4. QED BY <3>1, <3>3 DEF Ranked
  <2>11. Ranked(d)' BY <1>9, <2>5, <2>10
  <2>12. QED BY <1>10, <2>6, <2>7, <2>9, <2>11 DEF LinedBy
<1>14. QED BY <1>11, <1>12, <1>13

-----------------------------------------------------------------------------
(* The two levels.                                                         *)

LEMMA LevelCompares ==
    ASSUME TypeOK, order = "Attribute", NEW e \in Elements, NEW w \in Wrappers, equivObjs[w] # <<>>
    PROVE  /\ Bolo(w) \in BOOLEAN /\ e.bolo \in BOOLEAN
           /\ compare(e, w) = IF Bolo(w) /\ ~e.bolo THEN "LT" ELSE IF e.bolo /\ ~Bolo(w) THEN "GT" ELSE "NC"
           /\ Comparable(e, w) <=> (Bolo(w) <=> ~e.bolo)
<1>1. equivObjs[w] \in Seq(Elements) BY DEF TypeOK
<1>2. Head(equivObjs[w]) = equivObjs[w][1] /\ equivObjs[w][1] \in Elements BY <1>1, Members
<1>3. equivObjs[w][1].bolo \in BOOLEAN /\ e.bolo \in BOOLEAN BY <1>2, Fields
<1>4. compare(e, w) = IF Bolo(w) /\ ~e.bolo THEN "LT" ELSE IF e.bolo /\ ~Bolo(w) THEN "GT" ELSE "NC"
  BY <1>2 DEF compare, getPartialOrderForConfig, PartialOrderAttribute, Bolo
<1>5. Comparable(e, w) <=> (Bolo(w) <=> ~e.bolo)
  <2>1. CASE Bolo(w) /\ ~e.bolo BY <1>4, <2>1 DEF Comparable
  <2>2. CASE e.bolo /\ ~Bolo(w) BY <1>4, <2>2 DEF Comparable
  <2>3. CASE Bolo(w) /\ e.bolo BY <1>4, <2>3 DEF Comparable
  <2>4. CASE ~Bolo(w) /\ ~e.bolo BY <1>4, <2>4 DEF Comparable
  <2>5. QED BY <1>3, <2>1, <2>2, <2>3, <2>4 DEF Bolo
<1>6. QED BY <1>3, <1>4, <1>5 DEF Bolo

\* A new element joins those at the root, or is compared with each it differs from.
LEMMA LevelAdd ==
    ASSUME TypeOK, Filed, Shaped, order = "Attribute", po = Root, Levelled,
           NEW e \in Elements, NEW v \in Wrappers, Added(e, v)
    PROVE  Levelled'
<1>1. equivObjs'[v] = <<e>> /\ equivObjs[v] = <<>> /\ \A w \in Wrappers : w # v => equivObjs'[w] = equivObjs[w]
  BY DEF TypeOK, Added
<1>2. Len(<<e>>) = 1 /\ <<e>>[1] = e /\ <<e>> # <<>> OBVIOUS
<1>3. /\ Bolo(v)' = e.bolo /\ equivObjs'[v] # <<>> /\ \A w \in Wrappers : w # v => Bolo(w)' = Bolo(w)
      /\ equivObjs'[v][1].bolo = e.bolo /\ \A w \in Wrappers : w # v => equivObjs'[w][1].bolo = Bolo(w)
  BY <1>1, <1>2 DEF Bolo
<1>4. /\ \A w, x \in Wrappers : Contains(children[w], x) => w # v /\ x # v
      /\ \A x \in Wrappers : Contains(children[Root], x) => x # v
  BY <1>1 DEF Levelled, Levels
<1>5. children[Root] \in Seq(Wrappers) /\ Distinct(children[Root]) BY NodesAre DEF TypeOK, Levelled, Levels, Nodes
<1>6. \A w \in Wrappers : Len(equivObjs'[w]) <= 1
  <2>1. Len(<<e>>) <= 1 BY <1>2
  <2>2. \A w \in Wrappers : Len(equivObjs[w]) <= 1 BY DEF Levelled, Levels
  <2>3. TAKE w \in Wrappers
  <2>4. CASE w = v BY <1>1, <2>1, <2>4
  <2>5. CASE w # v BY <1>1, <2>2, <2>5
  <2>6. QED BY <2>4, <2>5
<1>7. \A x : Contains(children[Root], x) => x \in Wrappers BY <1>5, Members
<1>8. /\ strands' \in Seq(StrandRecords)
      /\ \A i \in 1..Len(strands') :
            strands'[i].parent = Root /\ Contains(children[Root], strands'[i].child) /\ Comparable(e, strands'[i].child)
      /\ \A i, j \in 1..Len(strands') : strands'[i].child = strands'[j].child => i = j
      /\ \A w : Contains(children[Root], w) /\ Comparable(e, w) => \E i \in 1..Len(strands') : strands'[i].child = w
  <2>1. PICK r : r = Strands(e, Root) OBVIOUS
  <2>2. strands' = r /\ Root \in Nodes BY <2>1, NodesAre DEF Added
  <2>3. r \in Seq(StrandRecords) BY <1>5, <2>1, <2>2, StrandsAre
  <2>4. \A i \in 1..Len(r) : r[i].parent = Root /\ Contains(children[Root], r[i].child) /\ Comparable(e, r[i].child)
    BY <1>5, <2>1, <2>2, StrandsAre
  <2>5. \A i, j \in 1..Len(r) : r[i].child = r[j].child => i = j BY <1>5, <2>1, <2>2, StrandsAre
  <2>6. \A w : Contains(children[Root], w) /\ Comparable(e, w) => \E i \in 1..Len(r) : r[i].child = w
    BY <1>5, <2>1, <2>2, StrandsAre
  <2>7. QED BY <2>2, <2>3, <2>4, <2>5, <2>6
<1>9. \A w \in Wrappers : Contains(children[Root], w) =>
         Bolo(w) \in BOOLEAN /\ e.bolo \in BOOLEAN /\ (Comparable(e, w) <=> (Bolo(w) <=> ~e.bolo))
  BY LevelCompares DEF Levelled, Levels
<1>10. CASE strands' = <<>>
  <2>1. po' = Root /\ children' = [children EXCEPT ![Root] = Append(@, v)] BY <1>10 DEF Added
  <2>2. ~Contains(children[Root], v) BY <1>4
  <2>3. \A w \in Wrappers : children'[w] = children[w] BY <2>1, NodesAre DEF TypeOK
  <2>4. children'[Root] = Append(children[Root], v) BY <2>1, NodesAre DEF TypeOK
  <2>5. children'[Root] = addChild(children[Root], v) BY <2>2, <2>4 DEF addChild
  <2>6. Distinct(children'[Root]) /\ \A x : Contains(children'[Root], x) <=> Contains(children[Root], x) \/ x = v
    BY <1>5, <2>5, AddedChild
  <2>7. Levels'
    <3>1. \A w \in Nodes : Distinct(children'[w]) BY <2>3, <2>6 DEF Levelled, Levels, Nodes
    <3>2. \A w, x \in Wrappers : Contains(children'[w], x) =>
             equivObjs'[w] # <<>> /\ Bolo(w)' /\ equivObjs'[x] # <<>> /\ ~Bolo(x)'
      BY <1>1, <1>3, <1>4, <2>3 DEF Levelled, Levels
    <3>3. \A x \in Wrappers : Contains(children'[Root], x) => equivObjs'[x] # <<>>
      BY <1>1, <1>3, <2>6 DEF Levelled, Levels
    <3>4. QED BY <1>6, <3>1, <3>2, <3>3 DEF Levels
  <2>8. Hung'
    <3>1. SUFFICES ASSUME NEW w \in Wrappers, In(w)'
                   PROVE (IF Bolo(w) THEN Contains(children[Root], w) ELSE \E p \in Nodes : Contains(children[p], w))'
      BY DEF Hung
    <3>2. CASE w = v BY <2>6, <3>2, NodesAre
    <3>3. CASE w # v
      <4>1. In(w) BY <1>1, <3>1, <3>3, NodesAre DEF In
      <4>2. IF Bolo(w) THEN Contains(children[Root], w) ELSE \E p \in Nodes : Contains(children[p], w)
        BY <4>1 DEF Levelled, Hung
      <4>3. \A p \in Nodes : Contains(children[p], w) => Contains(children'[p], w) BY <2>3, <2>6 DEF Nodes
      <4>4. QED BY <1>3, <3>3, <4>2, <4>3, NodesAre
    <3>4. QED BY <3>2, <3>3
  <2>9. BoloFirst'
    <3>1. PICK n \in Nat : n = Len(children[Root]) BY <1>5
    <3>2. Len(children'[Root]) = n + 1 /\ children'[Root][n + 1] = v /\ \A k \in 1..n : children'[Root][k] = children[Root][k]
      BY <1>5, <2>4, <3>1
    <3>3. \A k \in 1..n : children[Root][k] \in Wrappers /\ Contains(children[Root], children[Root][k])
      BY <1>5, <3>1 DEF Contains
    <3>4. \A x \in Wrappers : Contains(children[Root], x) => ~Comparable(e, x)
      <4>1. Len(strands') = 0 BY <1>10
      <4>2. QED BY <1>8, <4>1
    <3>5. ASSUME NEW i \in 1..(n + 1), NEW j \in 1..(n + 1), i < j, equivObjs'[children'[Root][j]][1].bolo
          PROVE  equivObjs'[children'[Root][i]][1].bolo
      <4>1. i \in 1..n /\ children'[Root][i] = children[Root][i] /\ children[Root][i] # v /\ children[Root][i] \in Wrappers
        <5>1. i \in 1..n BY <3>5
        <5>2. QED BY <3>2, <3>3, <1>4, <5>1
      <4>2. CASE j = n + 1
        <5>1. e.bolo BY <1>3, <3>2, <3>5, <4>2
        <5>2. Bolo(children[Root][i]) BY <1>9, <3>3, <3>4, <4>1, <5>1
        <5>3. QED BY <1>3, <4>1, <5>2
      <4>3. CASE j # n + 1
        <5>1. j \in 1..n BY <4>3
        <5>2. children'[Root][j] = children[Root][j] /\ children[Root][j] # v /\ children[Root][j] \in Wrappers
          BY <3>2, <3>3, <1>4, <5>1
        <5>3. Bolo(children[Root][j]) BY <1>3, <3>5, <5>2
        <5>4. Bolo(children[Root][i]) BY <3>1, <3>5, <4>1, <5>1, <5>3 DEF Levelled, BoloFirst
        <5>5. QED BY <1>3, <4>1, <5>4
      <4>4. QED BY <4>2, <4>3
    <3>6. QED BY <3>2, <3>5 DEF BoloFirst, Bolo
  <2>10. Pending' BY <2>1 DEF Pending
  <2>11. QED BY <2>7, <2>8, <2>9, <2>10 DEF Levelled
<1>11. CASE strands' # <<>>
  <2>1. po' = v /\ children' = children /\ v # Root BY <1>11, NodesAre DEF Added
  <2>2. Levels'
    <3>1. \A w, x \in Wrappers : Contains(children'[w], x) =>
             equivObjs'[w] # <<>> /\ Bolo(w)' /\ equivObjs'[x] # <<>> /\ ~Bolo(x)'
      BY <1>1, <1>3, <1>4, <2>1 DEF Levelled, Levels
    <3>2. \A x \in Wrappers : Contains(children'[Root], x) => equivObjs'[x] # <<>>
      BY <1>1, <1>3, <2>1 DEF Levelled, Levels
    <3>3. QED BY <1>6, <2>1, <3>1, <3>2 DEF Levelled, Levels
  <2>3. Hung'
    <3>1. \A w \in Wrappers : In(w)' => In(w) /\ w # v BY <1>1, <2>1, NodesAre DEF In
    <3>2. QED BY <1>3, <2>1, <3>1 DEF Levelled, Hung
  <2>4. BoloFirst'
    <3>1. \A k \in 1..Len(children[Root]) : children[Root][k] \in Wrappers /\ Contains(children[Root], children[Root][k])
      BY <1>5 DEF Contains
    <3>2. \A k \in 1..Len(children[Root]) : Bolo(children[Root][k])' = Bolo(children[Root][k]) BY <1>1, <1>4, <2>1, <3>1 DEF Bolo
    <3>3. QED BY <2>1, <3>2 DEF Levelled, BoloFirst, Bolo
  <2>5. Pending'
    <3>1. \A i \in 1..Len(strands') : strands'[i].child \in Wrappers /\ strands'[i].child # v BY <1>4, <1>7, <1>8
    <3>2. \A i \in 1..Len(strands') : Bolo(strands'[i].child) <=> ~e.bolo BY <1>8, <1>9, <3>1
    <3>3. \A i \in 1..Len(strands') :
            /\ strands'[i].parent = Root /\ Contains(children'[Root], strands'[i].child)
            /\ equivObjs'[strands'[i].child][1].bolo <=> ~equivObjs'[po'][1].bolo
      <4>1. \A i \in 1..Len(strands') : equivObjs'[strands'[i].child][1].bolo <=> ~equivObjs'[v][1].bolo
        BY <1>1, <1>2, <3>1, <3>2 DEF Bolo
      <4>2. QED BY <1>8, <2>1, <4>1
    <3>4. ASSUME e.bolo, NEW x \in Wrappers, Contains(children[Root], x), ~Bolo(x)'
          PROVE \E i \in 1..Len(strands') : strands'[i].child = x
      <4>1. ~Bolo(x) BY <1>3, <1>4, <3>4
      <4>2. QED BY <1>8, <1>9, <3>4, <4>1
    <3>5. QED BY <1>3, <1>8, <2>1, <3>3, <3>4 DEF Pending, Bolo
  <2>6. QED BY <2>2, <2>3, <2>4, <2>5 DEF Levelled
<1>12. QED BY <1>10, <1>11

\* What addElement compares next, and what is left then.
LEMMA LevelStrand ==
    ASSUME TypeOK, Filed, Placing, order = "Attribute", po # Root, Levelled
    PROVE  /\ strands # <<>> /\ Head(strands) = strands[1] /\ 1 \in 1..Len(strands)
           /\ Head(strands).child \in Wrappers /\ Head(strands).parent = Root
           /\ Contains(children[Root], Head(strands).child) /\ equivObjs[Head(strands).child] # <<>>
           /\ Bolo(Head(strands).child) <=> ~Bolo(po)
           /\ Tail(strands) \in Seq(StrandRecords) /\ Len(Tail(strands)) = Len(strands) - 1 /\ Len(strands) \in Nat
           /\ \A i \in 1..Len(Tail(strands)) : i + 1 \in 1..Len(strands) /\ Tail(strands)[i] = strands[i + 1]
           /\ Bolo(po) = se.bolo /\ Bolo(po) \in BOOLEAN
           /\ \A w \in Nodes : ~Contains(children[w], po) \/ ~Bolo(po) \/ w = Root
<1>1. strands \in Seq(StrandRecords) /\ strands # <<>> BY DEF TypeOK, Placing
<1>2. Head(strands) = strands[1] /\ 1 \in 1..Len(strands) BY <1>1, Members
<1>3. strands[1].parent = Root /\ Contains(children[Root], strands[1].child) /\ (Bolo(strands[1].child) <=> ~Bolo(po))
  BY <1>2 DEF Levelled, Pending
<1>4. strands[1].child \in Wrappers
  <2>1. strands[1] \in StrandRecords BY <1>1, <1>2
  <2>2. QED BY <2>1 DEF StrandRecords
<1>5. equivObjs[strands[1].child] # <<>> BY <1>3, <1>4 DEF Levelled, Levels
<1>6. /\ Tail(strands) \in Seq(StrandRecords) /\ Len(Tail(strands)) = Len(strands) - 1 /\ Len(strands) \in Nat
      /\ \A i \in 1..Len(Tail(strands)) : i + 1 \in 1..Len(strands) /\ Tail(strands)[i] = strands[i + 1]
  BY <1>1
<1>7. po \in Wrappers /\ se = equivObjs[po][1] /\ se \in Elements BY PlacedElement
<1>8. Bolo(po) = se.bolo /\ Bolo(po) \in BOOLEAN BY <1>7, Fields DEF Bolo
<1>9. \A w \in Nodes : ~Contains(children[w], po) \/ ~Bolo(po) \/ w = Root BY <1>7 DEF Levelled, Levels, Nodes
<1>10. QED BY <1>1, <1>2, <1>3, <1>4, <1>5, <1>6, <1>8, <1>9

\* Under the attribute alone nothing compares as equal.
LEMMA LevelNotEqual ==
    ASSUME TypeOK, Filed, Placing, order = "Attribute", po # Root, Levelled
    PROVE  ~StrandEqual(Head(strands))
<1>1. Head(strands).child \in Wrappers /\ equivObjs[Head(strands).child] # <<>> BY LevelStrand
<1>2. se \in Elements BY PlacedElement
<1>3. compare(se, Head(strands).child) \in {"LT", "GT", "NC"} BY <1>1, <1>2, LevelCompares
<1>4. QED BY <1>3 DEF StrandEqual

\* A wrapper without the attribute goes below one with it.
LEMMA LevelLess ==
    ASSUME TypeOK, Filed, Placing, order = "Attribute", po # Root, Levelled, StrandLess(Head(strands))
    PROVE  /\ Levelled'
           /\ children' \in [Nodes -> Seq(Wrappers)] /\ strands' \in Seq(StrandRecords) /\ po' \in {po, Root}
           /\ po' = Root <=> strands' = <<>>
<1>1. PICK u : u = Head(strands).child OBVIOUS
<1>2. /\ u \in Wrappers /\ equivObjs[u] # <<>> /\ (Bolo(u) <=> ~Bolo(po)) /\ Contains(children[Root], u)
      /\ Bolo(po) = se.bolo /\ Bolo(po) \in BOOLEAN
  BY <1>1, LevelStrand
<1>3. /\ Tail(strands) \in Seq(StrandRecords) /\ Len(Tail(strands)) = Len(strands) - 1 /\ Len(strands) \in Nat
      /\ \A i \in 1..Len(Tail(strands)) : i + 1 \in 1..Len(strands) /\ Tail(strands)[i] = strands[i + 1]
  BY LevelStrand
<1>4. po \in Wrappers /\ se \in Elements /\ equivObjs[po] = <<se>> BY PlacedElement
<1>5. compare(se, u) = "LT" BY <1>1 DEF StrandLess
<1>6. Bolo(u) /\ ~Bolo(po) /\ ~se.bolo
  <2>1. compare(se, u) = IF Bolo(u) /\ ~se.bolo THEN "LT" ELSE IF se.bolo /\ ~Bolo(u) THEN "GT" ELSE "NC"
    BY <1>2, <1>4, LevelCompares
  <2>2. QED BY <1>2, <1>5, <2>1
<1>7. u \in Nodes /\ children[u] \in Seq(Wrappers) /\ Distinct(children[u])
  BY <1>2, NodesAre DEF TypeOK, Levelled, Levels
<1>8. Strands(se, u) = <<>>
  <2>1. \A w \in Wrappers : Contains(children[u], w) => equivObjs[w] # <<>> /\ ~Bolo(w)
    BY <1>2 DEF Levelled, Levels
  <2>2. \A w \in Wrappers : Contains(children[u], w) => ~Comparable(se, w) BY <1>4, <1>6, <2>1, LevelCompares
  <2>3. QED BY <1>7, <2>2, NoStrand
<1>9. equivObjs' = equivObjs /\ children' = [children EXCEPT ![u] = addChild(@, po)] BY <1>1, <1>8 DEF StrandLess
<1>10. strands' = Tail(strands) /\ (strands' = <<>> => po' = Root) /\ (strands' # <<>> => po' = po)
  <2>1. Tail(strands) \o <<>> = Tail(strands) BY <1>3
  <2>2. EndStrand(Tail(strands) \o <<>>) BY <1>1, <1>8 DEF StrandLess
  <2>3. QED BY <2>1, <2>2 DEF EndStrand
<1>11. /\ addChild(children[u], po) \in Seq(Wrappers) /\ Distinct(addChild(children[u], po))
       /\ \A x : Contains(addChild(children[u], po), x) <=> Contains(children[u], x) \/ x = po
  BY <1>4, <1>7, AddedChild
<1>12. /\ children' \in [Nodes -> Seq(Wrappers)] /\ children'[u] = addChild(children[u], po)
       /\ \A w \in Nodes : w # u => children'[w] = children[w]
  BY <1>7, <1>9, <1>11 DEF TypeOK
<1>13. children'[Root] = children[Root] BY <1>2, <1>12, NodesAre
<1>14. \A w \in Nodes : \A x : Contains(children'[w], x) <=> Contains(children[w], x) \/ (w = u /\ x = po)
  BY <1>11, <1>12
<1>15. \A w : Bolo(w)' = Bolo(w) BY <1>9 DEF Bolo
<1>16. Levels'
  <2>1. \A w \in Nodes : Distinct(children'[w]) BY <1>11, <1>12 DEF Levelled, Levels
  <2>2. equivObjs[po] # <<>> BY <1>4
  <2>3. \A w, x \in Wrappers : Contains(children'[w], x) =>
           equivObjs'[w] # <<>> /\ Bolo(w)' /\ equivObjs'[x] # <<>> /\ ~Bolo(x)'
    <3>1. \A w \in Wrappers : w \in Nodes BY NodesAre
    <3>2. QED BY <1>2, <1>6, <1>9, <1>14, <1>15, <2>2, <3>1 DEF Levelled, Levels
  <2>4. QED BY <1>9, <1>13, <2>1, <2>3 DEF Levelled, Levels
<1>17. Hung'
  <2>1. SUFFICES ASSUME NEW w \in Wrappers, In(w)'
                 PROVE (IF Bolo(w) THEN Contains(children[Root], w) ELSE \E p \in Nodes : Contains(children[p], w))'
    BY DEF Hung
  <2>2. CASE w = po BY <1>6, <1>7, <1>14, <1>15, <2>2
  <2>3. CASE w # po
    <3>1. In(w) BY <1>9, <2>1, <2>3 DEF In
    <3>2. QED BY <1>13, <1>14, <1>15, <3>1 DEF Levelled, Hung
  <2>4. QED BY <2>2, <2>3
<1>18. BoloFirst'
  <2>1. \A i, j \in 1..Len(children[Root]) : i < j /\ Bolo(children[Root][j]) => Bolo(children[Root][i])
    BY <1>6 DEF Levelled, BoloFirst
  <2>2. QED BY <1>9, <1>13, <2>1 DEF BoloFirst, Bolo
<1>19. Pending'
  <2>1. CASE po' = Root BY <2>1 DEF Pending
  <2>2. CASE po' = po
    <3>1. \A i \in 1..Len(strands') : i + 1 \in 1..Len(strands) /\ strands'[i] = strands[i + 1] BY <1>3, <1>10
    <3>2. \A i \in 1..Len(strands') :
            /\ strands'[i].parent = Root /\ Contains(children'[Root], strands'[i].child)
            /\ Bolo(strands'[i].child) <=> ~Bolo(po)
      BY <1>13, <3>1 DEF Levelled, Pending
    <3>3. \A i, j \in 1..Len(strands') : strands'[i].child = strands'[j].child => i = j
      <4>1. \A i, j \in 1..Len(strands') : i + 1 = j + 1 => i = j BY <1>3, <1>10
      <4>2. QED BY <3>1, <4>1 DEF Levelled, Pending
    <3>4. QED BY <1>6, <1>9, <2>2, <3>2, <3>3 DEF Pending, Bolo
  <2>3. QED BY <1>10, <2>1, <2>2
<1>20. po' \in {po, Root} /\ (po' = Root <=> strands' = <<>>) BY <1>10
<1>21. QED BY <1>3, <1>10, <1>12, <1>16, <1>17, <1>18, <1>19, <1>20 DEF Levelled

\* A wrapper with the attribute goes between the root and one without it.
LEMMA LevelGreater ==
    ASSUME TypeOK, Filed, Placing, order = "Attribute", po # Root, Levelled, StrandGreater(Head(strands))
    PROVE  /\ Levelled'
           /\ children' \in [Nodes -> Seq(Wrappers)] /\ strands' \in Seq(StrandRecords) /\ po' \in {po, Root}
           /\ po' = Root <=> strands' = <<>>
<1>1. PICK u : u = Head(strands).child OBVIOUS
<1>2. /\ u \in Wrappers /\ equivObjs[u] # <<>> /\ (Bolo(u) <=> ~Bolo(po)) /\ Contains(children[Root], u)
      /\ Bolo(po) = se.bolo /\ Bolo(po) \in BOOLEAN /\ Head(strands).parent = Root
      /\ u = strands[1].child /\ 1 \in 1..Len(strands)
  BY <1>1, LevelStrand
<1>3. /\ Tail(strands) \in Seq(StrandRecords) /\ Len(Tail(strands)) = Len(strands) - 1 /\ Len(strands) \in Nat
      /\ \A i \in 1..Len(Tail(strands)) : i + 1 \in 1..Len(strands) /\ Tail(strands)[i] = strands[i + 1]
  BY LevelStrand
<1>4. po \in Wrappers /\ se \in Elements /\ equivObjs[po] = <<se>> BY PlacedElement
<1>5. compare(se, u) = "GT" BY <1>1 DEF StrandGreater
<1>6. ~Bolo(u) /\ Bolo(po)
  <2>1. compare(se, u) = IF Bolo(u) /\ ~se.bolo THEN "LT" ELSE IF se.bolo /\ ~Bolo(u) THEN "GT" ELSE "NC"
    BY <1>2, <1>4, LevelCompares
  <2>2. QED BY <1>2, <1>5, <2>1
<1>7. /\ u # po /\ po \in Nodes /\ Root \in Nodes /\ po # Root
      /\ children[Root] \in Seq(Wrappers) /\ Distinct(children[Root])
      /\ children[po] \in Seq(Wrappers) /\ Distinct(children[po])
  BY <1>4, <1>6, NodesAre DEF TypeOK, Levelled, Levels
<1>8. equivObjs' = equivObjs /\ strands' = Tail(strands)
      /\ (strands' = <<>> => po' = Root) /\ (strands' # <<>> => po' = po)
      /\ children' = [children EXCEPT ![Root] = addChild(removeChild(@, u), po), ![po] = addChild(@, u)]
  BY <1>1, <1>2 DEF StrandGreater, EndStrand
<1>9. PICK q : q = addChild(removeChild(children[Root], u), po) OBVIOUS
<1>10. PICK r : r = addChild(children[po], u) OBVIOUS
<1>11. q \in Seq(Wrappers) /\ Distinct(q) /\ \A x : Contains(q, x) <=> (Contains(children[Root], x) /\ x # u) \/ x = po
  <2>1. /\ removeChild(children[Root], u) \in Seq(Wrappers) /\ Distinct(removeChild(children[Root], u))
        /\ \A x : Contains(removeChild(children[Root], u), x) <=> Contains(children[Root], x) /\ x # u
    BY <1>7, RemovedChild
  <2>2. q \in Seq(Wrappers) /\ Distinct(q) /\ \A x : Contains(q, x) <=> Contains(removeChild(children[Root], u), x) \/ x = po
    BY <1>4, <1>9, <2>1, AddedChild
  <2>3. QED BY <2>1, <2>2
<1>12. r \in Seq(Wrappers) /\ Distinct(r) /\ \A x : Contains(r, x) <=> Contains(children[po], x) \/ x = u
  BY <1>2, <1>7, <1>10, AddedChild
<1>13. /\ children' \in [Nodes -> Seq(Wrappers)] /\ children'[Root] = q /\ children'[po] = r
       /\ \A w \in Nodes : w # Root /\ w # po => children'[w] = children[w]
  <2>1. children' = [w \in Nodes |-> IF w = po THEN r ELSE IF w = Root THEN q ELSE children[w]]
    BY <1>7, <1>8, <1>9, <1>10 DEF TypeOK
  <2>2. QED BY <1>7, <1>11, <1>12, <2>1 DEF TypeOK
<1>14. \A w : Bolo(w)' = Bolo(w) BY <1>8 DEF Bolo
<1>15. equivObjs[po] # <<>> BY <1>4
<1>16. Levels'
  <2>1. \A w \in Nodes : Distinct(children'[w]) BY <1>11, <1>12, <1>13 DEF Levelled, Levels
  <2>2. \A w, x \in Wrappers : Contains(children'[w], x) => Contains(children[w], x) \/ (w = po /\ x = u)
    BY <1>12, <1>13, NodesAre
  <2>3. \A w, x \in Wrappers : Contains(children'[w], x) =>
           equivObjs'[w] # <<>> /\ Bolo(w)' /\ equivObjs'[x] # <<>> /\ ~Bolo(x)'
    BY <1>2, <1>6, <1>8, <1>14, <1>15, <2>2 DEF Levelled, Levels
  <2>4. \A x \in Wrappers : Contains(children'[Root], x) => equivObjs'[x] # <<>>
    BY <1>8, <1>11, <1>13, <1>15 DEF Levelled, Levels
  <2>5. QED BY <1>8, <2>1, <2>3, <2>4 DEF Levelled, Levels
<1>17. Hung'
  <2>1. SUFFICES ASSUME NEW w \in Wrappers, In(w)'
                 PROVE (IF Bolo(w) THEN Contains(children[Root], w) ELSE \E p \in Nodes : Contains(children[p], w))'
    BY DEF Hung
  <2>2. CASE w = po BY <1>6, <1>11, <1>13, <1>14, <2>2
  <2>3. CASE w = u BY <1>6, <1>7, <1>12, <1>13, <1>14, <2>3
  <2>4. CASE w # po /\ w # u
    <3>1. In(w) BY <1>8, <2>1, <2>4 DEF In
    <3>2. IF Bolo(w) THEN Contains(children[Root], w) ELSE \E p \in Nodes : Contains(children[p], w)
      BY <3>1 DEF Levelled, Hung
    <3>3. \A p \in Nodes : Contains(children[p], w) => Contains(children'[p], w) BY <1>11, <1>12, <1>13, <2>4
    <3>4. QED BY <1>7, <1>14, <3>2, <3>3
  <2>5. QED BY <2>2, <2>3, <2>4
<1>18. \A x \in Wrappers : Contains(children[Root], x) /\ ~Bolo(x) /\ x # u =>
          \E i \in 1..Len(strands') : strands'[i].child = x
  <2>1. TAKE x \in Wrappers
  <2>2. SUFFICES ASSUME Contains(children[Root], x), ~Bolo(x), x # u
                 PROVE  \E i \in 1..Len(strands') : strands'[i].child = x
    OBVIOUS
  <2>3. PICK j \in 1..Len(strands) : strands[j].child = x BY <1>6, <2>2 DEF Levelled, Pending
  <2>4. j # 1 BY <1>2, <2>2, <2>3
  <2>5. j - 1 \in 1..Len(strands') /\ (j - 1) + 1 = j BY <1>3, <1>8, <2>4
  <2>6. strands'[j - 1] = strands[j] BY <1>3, <1>8, <2>5
  <2>7. QED BY <2>3, <2>5, <2>6
<1>19. BoloFirst'
  <2>1. CASE po' # Root
    <3>1. po' = po BY <1>8, <2>1
    <3>2. QED BY <1>6, <1>7, <1>8, <3>1 DEF BoloFirst, Bolo
  <2>2. CASE po' = Root
    <3>1. Len(strands') = 0
      <4>1. strands' = <<>> BY <1>7, <1>8, <2>2
      <4>2. QED BY <4>1
    <3>2. \A x \in Wrappers : Contains(q, x) => Bolo(x) BY <1>6, <1>11, <1>18, <3>1
    <3>3. \A k \in 1..Len(q) : q[k] \in Wrappers /\ Contains(q, q[k]) BY <1>11 DEF Contains
    <3>4. \A k \in 1..Len(q) : equivObjs'[q[k]][1].bolo BY <1>8, <3>2, <3>3 DEF Bolo
    <3>5. QED BY <1>13, <3>4 DEF BoloFirst, Bolo
  <2>3. QED BY <2>1, <2>2
<1>20. Pending'
  <2>1. CASE po' = Root BY <2>1 DEF Pending
  <2>2. CASE po' = po
    <3>1. \A i \in 1..Len(strands') : i + 1 \in 1..Len(strands) /\ strands'[i] = strands[i + 1] BY <1>3, <1>8
    <3>2. \A i, j \in 1..Len(strands) : strands[i].child = strands[j].child => i = j BY DEF Levelled, Pending
    <3>3. \A i \in 1..Len(strands') : strands'[i].child # u
      <4>1. \A i \in 1..Len(strands') : i + 1 # 1 BY <1>3, <1>8
      <4>2. QED BY <1>2, <3>1, <3>2, <4>1
    <3>4. \A i \in 1..Len(strands') :
            /\ strands'[i].parent = Root /\ Contains(children'[Root], strands'[i].child)
            /\ Bolo(strands'[i].child) <=> ~Bolo(po)
      BY <1>11, <1>13, <3>1, <3>3 DEF Levelled, Pending
    <3>5. \A i, j \in 1..Len(strands') : strands'[i].child = strands'[j].child => i = j
      <4>1. \A i, j \in 1..Len(strands') : i + 1 = j + 1 => i = j BY <1>3, <1>8
      <4>2. QED BY <3>1, <3>2, <4>1
    <3>6. \A x \in Wrappers : Contains(children'[Root], x) /\ ~Bolo(x) => \E i \in 1..Len(strands') : strands'[i].child = x
      BY <1>6, <1>11, <1>13, <1>18
    <3>7. QED BY <1>8, <2>2, <3>4, <3>5, <3>6 DEF Pending, Bolo
  <2>3. QED BY <1>8, <2>1, <2>2
<1>21. po' \in {po, Root} /\ (po' = Root <=> strands' = <<>>) BY <1>7, <1>8
<1>22. QED BY <1>3, <1>8, <1>13, <1>16, <1>17, <1>19, <1>20, <1>21 DEF Levelled

\* popTop takes a wrapper at the root; those below it follow those at the root.
LEMMA LevelPop ==
    ASSUME TypeOK, Filed, Shaped, order = "Attribute", po = Root, po' = po, Levelled,
           children[Root] # <<>>, popTop
    PROVE  Levelled'
<1>1. PICK t : t = top OBVIOUS
<1>2. /\ t \in Wrappers /\ Contains(children[Root], t) /\ equivObjs[t] # <<>> /\ t = children[Root][1]
      /\ 1 \in 1..Len(children[Root])
  BY <1>1, TopIs
<1>3. ~(Len(equivObjs[t]) > 1)
  <2>1. equivObjs[t] \in Seq(Elements) /\ Len(equivObjs[t]) <= 1 BY <1>2 DEF TypeOK, Levelled, Levels
  <2>2. \A n \in Nat : n <= 1 => ~(n > 1) OBVIOUS
  <2>3. Len(equivObjs[t]) \in Nat BY <2>1
  <2>4. QED BY <2>1, <2>2, <2>3
<1>4. /\ \A w \in Wrappers : w # t => equivObjs'[w] = equivObjs[w]
      /\ equivObjs'[t] = <<>>
  BY <1>1, <1>3, PopElements
<1>5. PICK r : r = addChildren(children[Root], children[t]) OBVIOUS
<1>6. /\ children'[t] = <<>> /\ \A w \in Wrappers : w # t => children'[w] = children[w]
      /\ children'[Root] = Tail(r) /\ Distinct(children'[Root])
      /\ \A x : Contains(children'[Root], x) <=> (Contains(children[Root], x) \/ Contains(children[t], x)) /\ x # t
  BY <1>1, <1>3, <1>5, PopGraph
<1>7. \A w \in Wrappers : In(w)' <=> In(w) /\ w # t BY <1>4 DEF In
<1>8. \A w \in Wrappers : w # t => Bolo(w)' = Bolo(w) BY <1>4 DEF Bolo
<1>9. children[Root] \in Seq(Wrappers) /\ Distinct(children[Root]) /\ Len(children[Root]) \in Nat
  BY NodesAre DEF TypeOK, Levelled, Levels
<1>10. \A w \in Wrappers : equivObjs[w] # <<>> => In(w) BY NodesAre DEF In
<1>11. ~Bolo(t) => \A w \in Wrappers : In(w) => ~Bolo(w)
  <2>1. SUFFICES ASSUME NEW w \in Wrappers, In(w), Bolo(w), ~Bolo(t) PROVE FALSE OBVIOUS
  <2>2. PICK j \in 1..Len(children[Root]) : children[Root][j] = w BY <2>1 DEF Levelled, Hung, Contains
  <2>3. j # 1 BY <1>2, <2>1, <2>2
  <2>4. 1 < j BY <1>9, <2>3
  <2>5. Bolo(children[Root][1]) BY <1>2, <2>1, <2>2, <2>4 DEF Levelled, BoloFirst
  <2>6. QED BY <1>2, <2>1, <2>5
<1>12. \A w \in Wrappers : ~Contains(children[w], t) BY <1>2, <1>10, <1>11 DEF Levelled, Levels
<1>13. Levels'
  <2>0. \A w \in Wrappers : Len(equivObjs'[w]) <= 1
    <3>1. Len(<<>>) <= 1 OBVIOUS
    <3>2. \A w \in Wrappers : Len(equivObjs[w]) <= 1 BY DEF Levelled, Levels
    <3>3. TAKE w \in Wrappers
    <3>4. CASE w = t BY <1>4, <3>1, <3>4
    <3>5. CASE w # t BY <1>4, <3>2, <3>5
    <3>6. QED BY <3>4, <3>5
  <2>1. \A w \in Nodes : Distinct(children'[w]) BY <1>6, ShortLists DEF Levelled, Levels, Nodes
  <2>2. \A w, x \in Wrappers : Contains(children'[w], x) => Contains(children[w], x) /\ w # t /\ x # t
    BY <1>6, <1>12, ShortLists
  <2>3. \A w, x \in Wrappers : Contains(children'[w], x) =>
           equivObjs'[w] # <<>> /\ Bolo(w)' /\ equivObjs'[x] # <<>> /\ ~Bolo(x)'
    BY <1>4, <1>8, <2>2 DEF Levelled, Levels
  <2>4. \A x \in Wrappers : Contains(children'[Root], x) => equivObjs'[x] # <<>>
    BY <1>2, <1>4, <1>6 DEF Levelled, Levels
  <2>5. QED BY <2>0, <2>1, <2>3, <2>4 DEF Levels
<1>14. Hung'
  <2>1. SUFFICES ASSUME NEW w \in Wrappers, In(w)'
                 PROVE (IF Bolo(w) THEN Contains(children[Root], w) ELSE \E p \in Nodes : Contains(children[p], w))'
    BY DEF Hung
  <2>2. In(w) /\ w # t BY <1>7, <2>1
  <2>3. CASE Bolo(w) BY <1>6, <1>8, <2>2, <2>3 DEF Levelled, Hung
  <2>4. CASE ~Bolo(w)
    <3>1. PICK p \in Nodes : Contains(children[p], w) BY <2>2, <2>4 DEF Levelled, Hung
    <3>2. CASE p = t \/ p = Root BY <1>6, <1>8, <2>2, <2>4, <3>1, <3>2, NodesAre
    <3>3. CASE p # t /\ p # Root BY <1>6, <1>8, <2>2, <2>4, <3>1, <3>3, NodesAre
    <3>4. QED BY <3>2, <3>3
  <2>5. QED BY <2>3, <2>4
<1>15. BoloFirst'
  <2>1. children[t] \in Seq(Wrappers) /\ Distinct(children[t]) BY <1>2, NodesAre DEF TypeOK, Levelled, Levels
  <2>2. /\ r \in Seq(Wrappers) /\ Distinct(r) /\ Len(r) >= Len(children[Root])
        /\ \A i \in 1..Len(children[Root]) : r[i] = children[Root][i]
        /\ \A x : Contains(r, x) <=> Contains(children[Root], x) \/ Contains(children[t], x)
    BY <1>5, <1>9, <2>1, AddedChildren
  <2>3. Len(r) \in Nat /\ r # <<>>
    <3>1. Len(r) \in Nat BY <2>2
    <3>2. Len(r) # 0 BY <1>2, <1>9, <2>2, <3>1
    <3>3. QED BY <3>1, <3>2
  <2>4. /\ Len(Tail(r)) = Len(r) - 1
        /\ \A i \in 1..Len(Tail(r)) : i + 1 \in 1..Len(r) /\ Tail(r)[i] = r[i + 1]
    BY <2>2, <2>3, Rest
  <2>5. \A k \in 1..Len(r) : r[k] \in Wrappers /\ Contains(r, r[k]) BY <2>2 DEF Contains
  <2>6. ASSUME NEW k \in 1..Len(r), ~(k \in 1..Len(children[Root])) PROVE ~Bolo(r[k])
    <3>1. ~Contains(children[Root], r[k])
      <4>1. SUFFICES ASSUME NEW m \in 1..Len(children[Root]), children[Root][m] = r[k] PROVE FALSE BY DEF Contains
      <4>2. m \in 1..Len(r) /\ r[m] = r[k] BY <1>9, <2>2, <2>3, <4>1
      <4>3. QED BY <2>2, <2>6, <4>1, <4>2 DEF Distinct
    <3>2. Contains(children[t], r[k]) BY <2>2, <2>5, <3>1
    <3>3. QED BY <1>2, <2>5, <3>2 DEF Levelled, Levels
  <2>7. ASSUME NEW i \in 1..Len(r), NEW j \in 1..Len(r), i < j, Bolo(r[j]) PROVE Bolo(r[i])
    <3>1. j \in 1..Len(children[Root]) BY <2>6, <2>7
    <3>2. i \in 1..Len(children[Root]) BY <1>9, <2>3, <2>7, <3>1
    <3>3. QED BY <2>2, <2>7, <3>1, <3>2 DEF Levelled, BoloFirst
  <2>8. \A k \in 1..Len(Tail(r)) : Tail(r)[k] \in Wrappers /\ Tail(r)[k] # t
    <3>1. TAKE k \in 1..Len(Tail(r))
    <3>2. Contains(Tail(r), Tail(r)[k]) BY DEF Contains
    <3>3. QED BY <1>6, <2>4, <2>5, <3>2
  <2>9. ASSUME NEW i \in 1..Len(Tail(r)), NEW j \in 1..Len(Tail(r)), i < j, equivObjs'[Tail(r)[j]][1].bolo
        PROVE  equivObjs'[Tail(r)[i]][1].bolo
    <3>1. equivObjs'[Tail(r)[j]] = equivObjs[r[j + 1]] /\ equivObjs'[Tail(r)[i]] = equivObjs[r[i + 1]]
      BY <1>4, <2>4, <2>8
    <3>2. i + 1 < j + 1 BY <2>3, <2>4, <2>9
    <3>3. QED BY <2>4, <2>7, <2>9, <3>1, <3>2 DEF Bolo
  <2>10. QED BY <1>6, <2>9 DEF BoloFirst, Bolo
<1>16. Pending' BY DEF Pending
<1>17. QED BY <1>13, <1>14, <1>15, <1>16 DEF Levelled

-----------------------------------------------------------------------------
(* The invariant.                                                          *)

\* Which shape is preserved depends on an order that does not change.
LEMMA Orderly ==
    ASSUME TypeOK, order # "AttributePriority"
    PROVE  order = "Attribute" \/ order \in LinearOrders
BY SendOrderAssumption DEF TypeOK, LinearOrders

\* Steps that do not touch the graph.
LEMMA SameShape ==
    ASSUME Shaped, UNCHANGED <<order, equivObjs, children, po, strands>>
    PROVE  Shaped'
<1>1. CASE order = "Attribute"
  <2>1. Levels' /\ Hung' BY <1>1 DEF Shaped, Levelled, Levels, Hung, In, Bolo
  <2>2. BoloFirst' /\ Pending' BY <1>1 DEF Shaped, Levelled, BoloFirst, Pending, Bolo
  <2>3. QED BY <1>1, <2>1, <2>2 DEF Shaped, Levelled
<1>2. CASE order # "Attribute"
  <2>1. PICK c : LinedBy(c) BY <1>2 DEF Shaped
  <2>2. InLine(c)' /\ Beside(c)' /\ Linked(c)' BY <2>1 DEF LinedBy, InLine, Beside, Linked, In
  <2>3. Ranked(c)' BY <2>1 DEF LinedBy, Ranked, Alike, MustPrecede
  <2>4. Descended(c)' BY <2>1 DEF LinedBy, Descended, MustPrecede, se
  <2>5. QED BY <1>2, <2>2, <2>3, <2>4 DEF Shaped, LinedBy
<1>3. QED BY <1>1, <1>2

LEMMA AddShape ==
    ASSUME TypeOK, order # "AttributePriority", Numbered, Filed, Shaped, po = Root, order' = order,
           NEW e \in Elements, addElement(e)
    PROVE  Shaped'
<1>1. PICK v \in Wrappers : Added(e, v) BY AddTakes
<1>2. CASE order = "Attribute" BY <1>1, <1>2, LevelAdd DEF Shaped
<1>3. CASE order # "Attribute"
  <2>1. PICK c : LinedBy(c) BY <1>3 DEF Shaped
  <2>2. \E d : LinedBy(d)' BY <1>1, <1>3, <2>1, LineAdd, Orderly
  <2>3. QED BY <1>3, <2>2 DEF Shaped
<1>4. QED BY <1>2, <1>3

LEMMA TakeShape ==
    ASSUME Content, Shaped, TakeTop
    PROVE  Shaped'
<1>1. TypeOK /\ order # "AttributePriority" /\ Filed BY DEF Content
<1>2. po = Root /\ po' = po /\ order' = order /\ children[Root] # <<>> /\ popTop BY DEF TakeTop
<1>3. CASE order = "Attribute" BY <1>1, <1>2, <1>3, LevelPop DEF Shaped
<1>4. CASE order # "Attribute"
  <2>1. PICK c : LinedBy(c) BY <1>4 DEF Shaped
  <2>2. \E d : LinedBy(d)' BY <1>1, <1>2, <1>4, <2>1, LinePop, Orderly
  <2>3. QED BY <1>2, <1>4, <2>2 DEF Shaped
<1>5. QED BY <1>3, <1>4

\* One round of the loop of addElement.
LEMMA PlaceStep ==
    ASSUME Content, Shaped, placeElement
    PROVE  Content' /\ Shaped'
<1>0. TypeOK /\ order # "AttributePriority" /\ Numbered /\ Filed /\ Placing /\ Filling /\ Fronted
  BY DEF Content
<1>1. po # Root /\ UNCHANGED <<order, parallelFactor, created, pc, held, sendStations, waiting>> BY DEF placeElement
<1>2. ASSUME equivObjs' = equivObjs, children' \in [Nodes -> Seq(Wrappers)], strands' \in Seq(StrandRecords),
             po' \in {po, Root}, po' = Root <=> strands' = <<>>
      PROVE  Content'
  <2>1. po' \in Nodes BY <1>0, <1>2, NodesAre DEF TypeOK
  <2>2. TypeOK' BY <1>0, <1>1, <1>2, <2>1 DEF TypeOK
  <2>3. Numbered' /\ Filed' BY <1>0, <1>1, <1>2 DEF Numbered, Filed
  <2>4. Placing' BY <1>0, <1>1, <1>2 DEF Placing
  <2>5. Filling' BY <1>0, <1>1 DEF Filling, StationFree
  <2>6. Fronted'
    <3>1. pc # "held" BY <1>0, <1>1 DEF Placing
    <3>2. CASE po' = Root BY <1>1, <3>1, <3>2 DEF Fronted
    <3>3. CASE po' = po BY <1>0, <1>1, <1>2, <3>1, <3>3 DEF Fronted, MustPrecede, se
    <3>4. QED BY <1>2, <3>2, <3>3
  <2>7. QED BY <1>0, <1>1, <2>2, <2>3, <2>4, <2>5, <2>6 DEF Content
<1>3. CASE order = "Attribute"
  <2>1. Levelled BY <1>3 DEF Shaped
  <2>2. ~StrandEqual(Head(strands)) BY <1>0, <1>1, <1>3, <2>1, LevelNotEqual
  <2>3. CASE StrandLess(Head(strands))
    <3>1. /\ Levelled' /\ children' \in [Nodes -> Seq(Wrappers)] /\ strands' \in Seq(StrandRecords)
          /\ po' \in {po, Root} /\ (po' = Root <=> strands' = <<>>)
      BY <1>0, <1>1, <1>3, <2>1, <2>3, LevelLess
    <3>2. equivObjs' = equivObjs BY <2>3 DEF StrandLess
    <3>3. QED BY <1>1, <1>2, <1>3, <3>1, <3>2 DEF Shaped
  <2>4. CASE StrandGreater(Head(strands))
    <3>1. /\ Levelled' /\ children' \in [Nodes -> Seq(Wrappers)] /\ strands' \in Seq(StrandRecords)
          /\ po' \in {po, Root} /\ (po' = Root <=> strands' = <<>>)
      BY <1>0, <1>1, <1>3, <2>1, <2>4, LevelGreater
    <3>2. equivObjs' = equivObjs BY <2>4 DEF StrandGreater
    <3>3. QED BY <1>1, <1>2, <1>3, <3>1, <3>2 DEF Shaped
  <2>5. QED BY <2>2, <2>3, <2>4 DEF placeElement
<1>4. CASE order # "Attribute"
  <2>1. PICK c : LinedBy(c) BY <1>4 DEF Shaped
  <2>2. order \in LinearOrders BY <1>0, <1>4, Orderly
  <2>3. CASE StrandEqual(Head(strands))
    <3>1. /\ \E d : LinedBy(d)'
          /\ equivObjs' \in [Wrappers -> Seq(Elements)] /\ children' = children /\ strands' = <<>> /\ po' = Root
          /\ Filed'
      BY <1>0, <1>1, <2>1, <2>2, <2>3, LineEqual
    <3>2. strands' \in Seq(StrandRecords) /\ po' \in Nodes BY <3>1, NodesAre
    <3>3. TypeOK' BY <1>0, <1>1, <3>1, <3>2 DEF TypeOK
    <3>4. Numbered' BY <1>0, <1>1 DEF Numbered
    <3>5. Placing' /\ Fronted' BY <1>0, <1>1, <3>1 DEF Placing, Fronted
    <3>6. Filling' BY <1>0, <1>1 DEF Filling, StationFree
    <3>7. QED BY <1>0, <1>1, <1>4, <3>1, <3>3, <3>4, <3>5, <3>6 DEF Content, Shaped
  <2>4. CASE StrandLess(Head(strands))
    <3>1. /\ \E d : LinedBy(d)'
          /\ children' \in [Nodes -> Seq(Wrappers)] /\ strands' \in Seq(StrandRecords) /\ po' \in {po, Root}
          /\ po' = Root <=> strands' = <<>>
      BY <1>0, <1>1, <2>1, <2>2, <2>4, LineLess
    <3>2. equivObjs' = equivObjs BY <2>4 DEF StrandLess
    <3>3. QED BY <1>1, <1>2, <1>4, <3>1, <3>2 DEF Shaped
  <2>5. CASE StrandGreater(Head(strands))
    <3>1. (\E d : LinedBy(d)') /\ children' \in [Nodes -> Seq(Wrappers)] /\ strands' = <<>> /\ po' = Root
      BY <1>0, <1>1, <2>1, <2>2, <2>5, LineGreater
    <3>2. equivObjs' = equivObjs BY <2>5 DEF StrandGreater
    <3>3. strands' \in Seq(StrandRecords) /\ po' \in {po, Root} BY <3>1
    <3>4. QED BY <1>1, <1>2, <1>4, <3>1, <3>2, <3>3 DEF Shaped
  <2>6. QED BY <2>3, <2>4, <2>5 DEF placeElement
<1>5. QED BY <1>3, <1>4

LEMMA InitHolds ==
    ASSUME "AttributePriority" \notin Orders, Init
    PROVE  IInv
<1>1. \A w \in Wrappers : equivObjs[w] = <<>> BY DEF Init
<1>2. \A w \in Nodes : children[w] = <<>> BY DEF Init, Nodes
<1>3. TypeOK
  <2>1. MaxElements \in Nat BY SendOrderAssumption
  <2>2. /\ order \in Orders /\ parallelFactor \in ParallelFactors /\ created \in 0..MaxElements
        /\ po \in Nodes /\ pc \in {"idle", "start", "held"} /\ held \in Elements \union {NoElement}
        /\ sendStations \in SUBSET Elements /\ waiting \in SUBSET Elements
    BY <2>1, NodesAre DEF Init
  <2>3. equivObjs \in [Wrappers -> Seq(Elements)]
    <3>1. <<>> \in Seq(Elements) OBVIOUS
    <3>2. QED BY <3>1 DEF Init
  <2>4. children \in [Nodes -> Seq(Wrappers)]
    <3>1. <<>> \in Seq(Wrappers) OBVIOUS
    <3>2. QED BY <3>1 DEF Init, Nodes
  <2>5. strands \in Seq(StrandRecords)
    <3>1. <<>> \in Seq(StrandRecords) OBVIOUS
    <3>2. QED BY <3>1 DEF Init
  <2>6. QED BY <2>2, <2>3, <2>4, <2>5 DEF TypeOK
<1>4. Numbered /\ Placing /\ Fronted BY DEF Init, Numbered, Placing, Fronted
<1>5. Filed BY <1>1, ShortLists DEF Init, Filed
<1>6. Filling BY FS_EmptySet DEF Init, Filling
<1>7. Shaped
  <2>1. CASE order = "Attribute"
    <3>1. Len(<<>>) = 0 OBVIOUS
    <3>2. Levels
      <4>1. Len(<<>>) <= 1 OBVIOUS
      <4>2. \A w \in Wrappers : Len(equivObjs[w]) <= 1 BY <1>1, <4>1
      <4>3. \A w \in Nodes : Distinct(children[w]) /\ \A x : ~Contains(children[w], x) BY <1>2, ShortLists
      <4>4. QED BY <4>2, <4>3, NodesAre DEF Levels
    <3>3. Hung BY <1>1 DEF Hung, In
    <3>4. BoloFirst BY <1>2, <3>1, NodesAre DEF BoloFirst
    <3>5. Pending BY DEF Init, Pending
    <3>6. QED BY <2>1, <3>2, <3>3, <3>4, <3>5 DEF Shaped, Levelled
  <2>2. CASE order # "Attribute"
    <3>1. PICK c : c = <<>> OBVIOUS
    <3>2. c \in Seq(Wrappers) /\ Len(c) = 0 /\ Distinct(c) BY <3>1, ShortLists
    <3>3. \A w \in Wrappers : ~In(w) BY <1>1 DEF In
    <3>4. InLine(c) BY <3>2 DEF InLine
    <3>5. Beside(c) BY <3>2, <3>3 DEF Beside
    <3>6. Linked(c)
      <4>1. \A w \in Nodes : Distinct(children[w]) /\ \A x : ~Contains(children[w], x) BY <1>2, ShortLists
      <4>2. \A w \in Wrappers : children[w] = <<>> BY <1>2, NodesAre
      <4>3. QED BY <3>2, <3>3, <4>1, <4>2, NodesAre DEF Linked
    <3>7. Ranked(c) BY <3>2 DEF Ranked
    <3>8. Descended(c) BY DEF Init, Descended
    <3>9. QED BY <2>2, <3>4, <3>5, <3>6, <3>7, <3>8 DEF Shaped, LinedBy
  <2>3. QED BY <2>1, <2>2
<1>8. order # "AttributePriority" BY DEF Init
<1>9. QED BY <1>3, <1>4, <1>5, <1>6, <1>7, <1>8 DEF IInv, Content

LEMMA StepKeeps ==
    ASSUME IInv, [Next]_vars
    PROVE  IInv'
<1>0. Content /\ Shaped BY DEF IInv
<1>1. TypeOK /\ order # "AttributePriority" /\ Numbered /\ Filed /\ Placing BY <1>0 DEF Content
<1>2. ASSUME NEW e \in Elements, addSendPriorityElement(e) PROVE IInv'
  <2>1. Content' BY <1>0, <1>2, AddContent
  <2>2. Shaped' BY <1>0, <1>1, <1>2, AddShape DEF addSendPriorityElement
  <2>3. QED BY <2>1, <2>2 DEF IInv
<1>3. ASSUME NEW e \in sendStations \union {NoElement}, removeSendPriorityElement(e) PROVE IInv'
  <2>1. Content' BY <1>0, <1>3, RemoveContent
  <2>2. Shaped' BY <1>0, <1>3, SameShape DEF removeSendPriorityElement
  <2>3. QED BY <2>1, <2>2 DEF IInv
<1>4. CASE placeElement BY <1>0, <1>4, PlaceStep DEF IInv
<1>5. CASE TakeTop BY <1>0, <1>5, TakeContent, TakeShape DEF IInv
<1>6. CASE QueueEmpty
  <2>1. Content' BY <1>0, <1>6, EmptyContent
  <2>2. Shaped' BY <1>0, <1>6, SameShape DEF QueueEmpty
  <2>3. QED BY <2>1, <2>2 DEF IInv
<1>7. CASE Send
  <2>1. Content' BY <1>0, <1>7, SendContent
  <2>2. Shaped' BY <1>0, <1>7, SameShape DEF Send
  <2>3. QED BY <2>1, <2>2 DEF IInv
<1>8. CASE PutBack
  <2>1. Content' BY <1>0, <1>8, PutBackContent
  <2>2. po = Root /\ held \in Elements BY <1>1, <1>8 DEF PutBack, Placing, Filed, TypeOK
  <2>3. Shaped' BY <1>0, <1>1, <1>8, <2>2, AddShape DEF PutBack
  <2>4. QED BY <2>1, <2>3 DEF IInv
<1>9. CASE UNCHANGED vars
  <2>1. Shaped' BY <1>0, <1>9, SameShape DEF vars
  <2>2. TypeOK' /\ Numbered' /\ Filed' /\ Placing' BY <1>1, <1>9 DEF vars, TypeOK, Numbered, Filed, Placing
  <2>3. Filling' /\ Fronted' BY <1>0, <1>9 DEF vars, Content, Filling, Fronted, StationFree, MustPrecede, se
  <2>4. QED BY <1>1, <1>9, <2>1, <2>2, <2>3 DEF IInv, Content, vars
<1>10. QED BY <1>2, <1>3, <1>4, <1>5, <1>6, <1>7, <1>8, <1>9 DEF Next

\* The graph and the queue around it stay as IInv describes them, whatever is queued,
\* sent and answered.
THEOREM Ordered ==
    ASSUME "AttributePriority" \notin Orders
    PROVE  Spec => []IInv
<1>1. Init => IInv BY InitHolds
<1>2. IInv /\ [Next]_vars => IInv' BY StepKeeps
<1>3. QED BY <1>1, <1>2, PTL DEF Spec

\* Every variable keeps its type: addElement finds a wrapper, and the wrappers it hangs
\* below others are ones the model has.
THEOREM TypeCorrect ==
    ASSUME "AttributePriority" \notin Orders
    PROVE  Spec => []TypeOK
<1>1. IInv => TypeOK BY DEF IInv, Content
<1>2. Spec => []IInv BY Ordered
<1>3. QED BY <1>1, <1>2, PTL

\* No station is free between two handlers while something waits, though each handler
\* fills one at most (SendQueue::startSend).
THEOREM StationsFilled ==
    ASSUME "AttributePriority" \notin Orders
    PROVE  Spec => []StationsBusy
<1>1. IInv => StationsBusy BY DEF IInv, Content, Filling, StationsBusy, Idle
<1>2. Spec => []IInv BY Ordered
<1>3. QED BY <1>1, <1>2, PTL

\* What startSend sends is preceded by nothing that goes on waiting, under each order:
\* the insertion, the removal of the top and putting back keep the graph in order, though
\* the shipped combination is not transitive.
THEOREM SentInOrder ==
    ASSUME "AttributePriority" \notin Orders
    PROVE  Spec => HighestFirst
<1>1. ASSUME IInv, [Next]_vars
      PROVE  [\A e \in waiting \ waiting' : \A f \in waiting' : ~MustPrecede(f, e)]_vars
  <2>1. CASE Send
    <3>1. pc = "held" /\ waiting' = waiting \ {held} BY <2>1 DEF Send
    <3>2. \A f \in waiting \ {held} : ~MustPrecede(f, held) BY <1>1, <3>1 DEF IInv, Content, Fronted
    <3>3. \A e \in waiting \ waiting' : e = held BY <3>1
    <3>4. QED BY <3>1, <3>2, <3>3
  <2>2. CASE ~Send
    <3>1. waiting \subseteq waiting'
      BY <1>1, <2>2 DEF Next, addSendPriorityElement, removeSendPriorityElement, placeElement, TakeTop,
                        QueueEmpty, PutBack, vars
    <3>2. QED BY <3>1
  <2>3. QED BY <2>1, <2>2
<1>2. Spec => []IInv BY Ordered
<1>3. QED BY <1>1, <1>2, PTL DEF Spec, HighestFirst

\* A wrapper has no more elements than there are numbers for them.
LEMMA FewElements ==
    ASSUME TypeOK, Numbered, Filed, NEW w \in Wrappers
    PROVE  Len(equivObjs[w]) <= MaxElements
<1>1. PICK q : q = equivObjs[w] OBVIOUS
<1>2. q \in Seq(Elements) /\ Distinct(q) BY <1>1 DEF TypeOK, Filed
<1>3. PICK n \in Nat : n = Len(q) BY <1>2
<1>4. MaxElements \in Nat BY SendOrderAssumption
<1>5. SUFFICES ASSUME n > MaxElements PROVE FALSE BY <1>1, <1>3, <1>4
<1>6. \A k \in 1..n : q[k] \in Elements /\ q[k] \in waiting
  <2>1. \A k \in 1..n : q[k] \in Elements /\ Contains(q, q[k]) BY <1>2, <1>3 DEF Contains
  <2>2. QED BY <1>1, <2>1 DEF Filed
<1>7. \A k \in 1..n : q[k].createTime \in 1..MaxElements BY <1>6 DEF Elements
<1>8. PICK f : f = [k \in 1..n |-> q[k].createTime] OBVIOUS
<1>9. PICK S, T : S = 1..n /\ T = 1..MaxElements OBVIOUS
<1>10. f \in [S -> T] BY <1>7, <1>8, <1>9
<1>11. IsFiniteSet(S) /\ Cardinality(S) = n
  <2>1. n \in Nat BY <1>3
  <2>2. 1 \in Int /\ n \in Int BY <2>1
  <2>3. QED BY <1>9, <2>1, <2>2, FS_Interval
<1>12. IsFiniteSet(T) /\ Cardinality(T) = MaxElements
  <2>1. 1 \in Int /\ MaxElements \in Int BY <1>4
  <2>2. QED BY <1>4, <1>9, <2>1, FS_Interval
<1>13. Cardinality(T) < Cardinality(S) BY <1>3, <1>4, <1>5, <1>11, <1>12
<1>14. \E x, y \in S : x # y /\ f[x] = f[y] BY <1>10, <1>11, <1>12, <1>13, FS_PigeonHole
<1>15. PICK x \in 1..n, y \in 1..n : x # y /\ q[x].createTime = q[y].createTime BY <1>8, <1>9, <1>14
<1>16. q[x] = q[y] BY <1>6, <1>15 DEF Numbered
<1>17. QED BY <1>2, <1>3, <1>15, <1>16 DEF Distinct

\* Between two handlers the graph points to exactly the wrappers that have elements.
LEMMA GraphComplete ==
    ASSUME TypeOK, Shaped, po = Root
    PROVE  Reachable = {w \in Wrappers : equivObjs[w] # <<>>}
<1>1. \A p \in Nodes : \A x : x \in ToSet(children[p]) <=> Contains(children[p], x)
  <2>1. \A p \in Nodes : DOMAIN children[p] = 1..Len(children[p]) BY DEF TypeOK
  <2>2. QED BY <2>1 DEF ToSet, Contains
<1>2. \A x : x \in Reachable <=> \E p \in Nodes : Contains(children[p], x)
  <2>1. Reachable = UNION {ToSet(children[p]) : p \in Nodes} BY DEF Reachable, Nodes
  <2>2. \A x : x \in Reachable <=> \E p \in Nodes : x \in ToSet(children[p]) BY <2>1
  <2>3. QED BY <1>1, <2>2
<1>3. \A p \in Nodes : \A x : Contains(children[p], x) => x \in Wrappers BY Members DEF TypeOK
<1>4. ASSUME NEW x \in Wrappers, equivObjs[x] # <<>> PROVE \E p \in Nodes : Contains(children[p], x)
  <2>1. In(x) BY <1>4, NodesAre DEF In
  <2>2. CASE order = "Attribute" BY <2>1, <2>2, NodesAre DEF Shaped, Levelled, Hung
  <2>3. CASE order # "Attribute"
    <3>1. PICK c : LinedBy(c) BY <2>3 DEF Shaped
    <3>2. CASE Contains(c, x) /\ x # c[1]
      <4>1. PICK i \in 1..Len(c) : c[i] = x BY <3>2 DEF Contains
      <4>2. Len(c) \in Nat /\ \A k \in 1..Len(c) : c[k] \in Wrappers BY <3>1, LineParts
      <4>3. i - 1 \in 1..Len(c) /\ i - 1 < Len(c) /\ (i - 1) + 1 = i
        <5>1. i # 1 BY <3>2, <4>1
        <5>2. QED BY <4>2, <5>1
      <4>4. children[c[i - 1]] = <<x>> BY <3>1, <4>1, <4>3 DEF LinedBy, Linked
      <4>5. Contains(children[c[i - 1]], x) BY <4>4, ShortLists
      <4>6. c[i - 1] \in Nodes BY <4>2, <4>3, NodesAre
      <4>7. QED BY <4>5, <4>6
    <3>3. CASE ~(Contains(c, x) /\ x # c[1]) BY <2>1, <3>1, <3>3, NodesAre DEF LinedBy, Linked
    <3>4. QED BY <3>2, <3>3
  <2>4. QED BY <2>2, <2>3
<1>5. \A p \in Nodes, x \in Wrappers : Contains(children[p], x) => equivObjs[x] # <<>> BY ChildrenSound
<1>6. \A x : x \in Reachable <=> x \in Wrappers /\ equivObjs[x] # <<>> BY <1>2, <1>3, <1>4, <1>5
<1>7. QED BY <1>6

\* Between two handlers every element that waits is in the graph, in one place, and nothing
\* else is (TopologicalSorter::addElement, popTop).
THEOREM HeldOnce ==
    ASSUME "AttributePriority" \notin Orders
    PROVE  Spec => []EachHeldOnce
<1>1. ASSUME IInv PROVE EachHeldOnce
  <2>1. SUFFICES ASSUME Idle
                 PROVE  /\ Reachable = {w \in Wrappers : equivObjs[w] # <<>>}
                        /\ \A w \in Wrappers : ToSet(equivObjs[w]) \subseteq waiting
                        /\ \A e \in waiting : Cardinality({p \in Wrappers \X (1..MaxElements) :
                              p[2] <= Len(equivObjs[p[1]]) /\ equivObjs[p[1]][p[2]] = e}) = 1
    BY DEF EachHeldOnce
  <2>2. TypeOK /\ Numbered /\ Filed /\ Shaped /\ po = Root /\ pc # "held" BY <1>1, <2>1 DEF IInv, Content, Idle
  <2>3. Reachable = {w \in Wrappers : equivObjs[w] # <<>>} BY <2>2, GraphComplete
  <2>4. \A w \in Wrappers : ToSet(equivObjs[w]) \subseteq waiting
    <3>1. \A w \in Wrappers : DOMAIN equivObjs[w] = 1..Len(equivObjs[w]) BY <2>2 DEF TypeOK
    <3>2. \A w \in Wrappers : \A i \in 1..Len(equivObjs[w]) : equivObjs[w][i] \in waiting
      BY <2>2 DEF Filed, Contains
    <3>3. QED BY <3>1, <3>2 DEF ToSet
  <2>5. ASSUME NEW e \in waiting
        PROVE  Cardinality({p \in Wrappers \X (1..MaxElements) :
                  p[2] <= Len(equivObjs[p[1]]) /\ equivObjs[p[1]][p[2]] = e}) = 1
    <3>1. PICK w \in Wrappers : Contains(equivObjs[w], e) BY <2>2 DEF Filed
    <3>2. PICK i \in 1..Len(equivObjs[w]) : equivObjs[w][i] = e BY <3>1 DEF Contains
    <3>3. \A v \in Wrappers : Len(equivObjs[v]) \in Nat BY <2>2 DEF TypeOK
    <3>4. MaxElements \in Nat /\ Len(equivObjs[w]) <= MaxElements BY <2>2, FewElements, SendOrderAssumption
    <3>5. i \in 1..MaxElements /\ i <= Len(equivObjs[w]) BY <3>3, <3>4
    <3>6. PICK P : P = {p \in Wrappers \X (1..MaxElements) :
                          p[2] <= Len(equivObjs[p[1]]) /\ equivObjs[p[1]][p[2]] = e}
      OBVIOUS
    <3>7. <<w, i>> \in P BY <3>2, <3>5, <3>6
    <3>8. ASSUME NEW p \in P PROVE p = <<w, i>>
      <4>1. PICK v \in Wrappers, j \in 1..MaxElements : p = <<v, j>> BY <3>6
      <4>2. j <= Len(equivObjs[v]) /\ equivObjs[v][j] = e BY <3>6, <4>1
      <4>3. j \in 1..Len(equivObjs[v]) BY <3>3, <3>4, <4>2
      <4>4. Contains(equivObjs[v], e) BY <4>2, <4>3 DEF Contains
      <4>5. v = w BY <2>2, <3>1, <4>4 DEF Filed
      <4>6. j = i BY <2>2, <3>2, <4>2, <4>3, <4>5 DEF Filed, Distinct
      <4>7. QED BY <4>1, <4>5, <4>6
    <3>9. P = {<<w, i>>} BY <3>7, <3>8
    <3>10. Cardinality(P) = 1 BY <3>9, FS_Singleton
    <3>11. QED BY <3>6, <3>10
  <2>6. QED BY <2>3, <2>4, <2>5
<1>2. Spec => []IInv BY Ordered
<1>3. QED BY <1>1, <1>2, PTL
=============================================================================
