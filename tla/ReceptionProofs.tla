---------------------------- MODULE ReceptionProofs ----------------------------
(***************************************************************************)
(* Proofs about Reception, for any objects and protocol threads and any    *)
(* number of copies and deletions.                                         *)
(***************************************************************************)
EXTENDS Reception, TLAPS

USE ReceptionAssumption

-----------------------------------------------------------------------------
(* Queues.                                                                 *)

Has(q, e) == \E k \in 1..Len(q) : q[k] = e

\* No a is behind a b; with a = b, there is one a at most.
Before(q, a, b) == \A j, k \in 1..Len(q) : q[j] = a /\ q[k] = b => j <= k
Once(q, e) == Before(q, e, e)

\* Behind every a there is a b.
Followed(q, a, b) == \A j \in 1..Len(q) : q[j] = a => \E k \in 1..Len(q) : j < k /\ q[k] = b

-----------------------------------------------------------------------------
(* The inductive invariant.                                                *)

Work == {"RECEIVED", "VERIFIED", "DATA_TASK"}
AllTypes == {"INCOMING", "INSERTED"} \union Work
Insert(c) == [op |-> "insert", copy |-> c, object |-> object[c], keep |-> FALSE]
Delete(o, keep) == [op |-> "delete", copy |-> NoCopy, object |-> o, keep |-> keep]

\* The events and the tasks there are.
Events ==
    {CopyEvent(type, c) : type \in AllTypes, c \in Copies}
      \union {Deleted(o, keep) : o \in Objects, keep \in BOOLEAN}
Tasks == {Insert(c) : c \in Copies} \union {Delete(o, keep) : o \in Objects, keep \in BOOLEAN}

\* Every protocol thread that is not idle has a copy of its own.
Threads ==
    /\ \A r \in Receivers : rx[r].pc # "idle" => rx[r].copy \in Copies
    /\ \A r, u \in Receivers : rx[r].pc # "idle" /\ rx[u].pc # "idle" /\ rx[r].copy = rx[u].copy => r = u

Typed == TypeOK /\ events \in Seq(Events) /\ tasks \in Seq(Tasks) /\ Threads

\* A copy that is being received; one that has not been announced yet.
Receiving(c) == \E r \in Receivers : rx[r].pc # "idle" /\ rx[r].copy = c
Early(c) == \E r \in Receivers : rx[r].pc \in {"tested", "accepted"} /\ rx[r].copy = c

\* Where a copy that was received waits for the next handler.
At(p, c) ==
    \/ p \in Work /\ Has(events, CopyEvent(p, c))
    \/ p = "security" /\ Has(security, c)
    \/ p = "helper" /\ Has(helper, c)
    \/ p = "tasks" /\ Has(tasks, Insert(c))

WorkEvents == {CopyEvent(type, c) : type \in Work, c \in Copies}
Inserts == {Insert(c) : c \in Copies}

\* It waits in one place, and once.
Apart == \A c \in Copies : \A p, q : At(p, c) /\ At(q, c) => p = q
Singly ==
    /\ \A e \in WorkEvents : Once(events, e)
    /\ \A c \in Copies : Once(security, c) /\ Once(helper, c)
    /\ \A e \in Inserts : Once(tasks, e)

\* The announcement of a copy, the notice of its insertion, a notice of a deletion.
Inc(c) == Has(events, CopyEvent("INCOMING", c))
Ins(c) == Has(events, CopyEvent("INSERTED", c))
Deletion(o) == \E keep \in BOOLEAN : Has(events, Deleted(o, keep))

\* What became of a copy tells where it is.
FateOf(c) ==
    /\ c > copies => outcome[c] = "unused"
    /\ Receiving(c) <=> outcome[c] = "receiving"
    /\ (\E p : At(p, c)) <=> outcome[c] = "acknowledged"
    /\ \A p : At(p, c) /\ p # "RECEIVED" => c \notin duplicate
    /\ Ins(c) /\ c \in duplicate => outcome[c] = "duplicate"
    /\ Ins(c) /\ c \notin duplicate => outcome[c] = "stored"
    /\ outcome[c] = "stored" => c \in news \/ Ins(c)
    /\ c \in news => outcome[c] = "stored"

Fate == \A c \in Copies : FateOf(c)

\* A copy is announced once, and before it is said to be received;
InOrder(c) ==
    /\ Once(events, CopyEvent("INCOMING", c))
    /\ Before(events, CopyEvent("INCOMING", c), CopyEvent("RECEIVED", c))

\* the failure of its transfer is announced behind it.
Failing(c) == Followed(events, CopyEvent("INCOMING", c), Deleted(object[c], FALSE))

AnnouncementOf(c) ==
    /\ Early(c) \/ outcome[c] = "unused" => c \notin duplicate /\ ~Inc(c)
    /\ InOrder(c)
    /\ Inc(c) => /\ c \notin duplicate
                 /\ \/ outcome[c] = "receiving"
                    \/ At("RECEIVED", c)
                    \/ outcome[c] = "failed" /\ Failing(c)

Announcement == \A c \in Copies : AnnouncementOf(c)

\* The filter the protocol threads use runs ahead of the other one by objects that
\* are about to be announced or whose announcement is queued.
Accepted(c) == \E r \in Receivers : rx[r].pc = "accepted" /\ rx[r].copy = c
Awaited(o) == \E c \in Copies : object[c] = o /\ (Accepted(c) \/ Inc(c))
Filters == localBF \subseteq doBF /\ \A o \in doBF \ localBF : Awaited(o)

\* The copy that brought its object into the filter, and has yet to be stored.
Expected(c) ==
    /\ outcome[c] \in {"receiving", "acknowledged"} /\ c \notin duplicate
    /\ ~Early(c) /\ ~Inc(c)

\* Why an object is in the filter.
Reason(o) ==
    \/ o \in store \union kept
    \/ \E c \in Copies : object[c] = o /\ (outcome[c] = "withheld" \/ Expected(c))
    \/ Deletion(o)

Explained == \A o \in localBF : Reason(o)

IInv == Typed /\ Apart /\ Singly /\ Fate /\ Announcement /\ Filters /\ Explained

-----------------------------------------------------------------------------
(* What appending to a queue and taking its head do.                       *)

Grown(q, q2, x) ==
    /\ \A e : Has(q2, e) <=> Has(q, e) \/ e = x
    /\ \A a, b : Before(q, a, b) /\ (a = x => ~Has(q, b)) => Before(q2, a, b)
    /\ \A a, b : Followed(q, a, b) /\ a # x => Followed(q2, a, b)
    /\ \A a : a # x => Followed(q2, a, x)

Shrunk(q, q2, h) ==
    /\ Has(q, h)
    /\ \A e : Has(q2, e) => Has(q, e)
    /\ \A e : Has(q, e) => Has(q2, e) \/ e = h
    /\ \A a, b : Before(q, a, b) => Before(q2, a, b)
    /\ \A a : Before(q, a, h) => ~Has(q2, a)
    /\ \A a, b : Followed(q, a, b) => Followed(q2, a, b)
    /\ \A b : Followed(q, h, b) => Has(q2, b)

\* Something appended.
LEMMA AppendGrows ==
    ASSUME NEW S, NEW q \in Seq(S), NEW x \in S, NEW q2, q2 = Append(q, x)
    PROVE  q2 \in Seq(S) /\ Grown(q, q2, x)
<1>1. q2 \in Seq(S) /\ Len(q2) = Len(q) + 1 /\ Len(q) \in Nat OBVIOUS
<1>2. \A k \in 1..Len(q) : q2[k] = q[k] OBVIOUS
<1>3. q2[Len(q) + 1] = x OBVIOUS
<1>4. \A k \in 1..Len(q2) : k \in 1..Len(q) \/ k = Len(q) + 1 BY <1>1
<1>5. \A e : Has(q2, e) <=> Has(q, e) \/ e = x BY <1>1, <1>2, <1>3, <1>4 DEF Has
<1>6. ASSUME NEW a, NEW b, Before(q, a, b), a = x => ~Has(q, b) PROVE Before(q2, a, b)
  <2> SUFFICES ASSUME NEW j \in 1..Len(q2), NEW k \in 1..Len(q2), q2[j] = a, q2[k] = b PROVE j <= k
      BY DEF Before
  <2>1. CASE k = Len(q) + 1 BY <1>1, <2>1
  <2>2. CASE k \in 1..Len(q) /\ j = Len(q) + 1 BY <1>2, <1>3, <1>6, <2>2 DEF Has
  <2>3. CASE k \in 1..Len(q) /\ j \in 1..Len(q) BY <1>2, <1>6, <2>3 DEF Before
  <2>4. QED BY <1>4, <2>1, <2>2, <2>3
<1>7. ASSUME NEW a, NEW b, Followed(q, a, b), a # x PROVE Followed(q2, a, b)
  <2> SUFFICES ASSUME NEW j \in 1..Len(q2), q2[j] = a
               PROVE  \E k \in 1..Len(q2) : j < k /\ q2[k] = b
      BY DEF Followed
  <2>1. j \in 1..Len(q) /\ q[j] = a BY <1>2, <1>3, <1>4, <1>7
  <2>2. PICK k \in 1..Len(q) : j < k /\ q[k] = b BY <1>7, <2>1 DEF Followed
  <2>3. k \in 1..Len(q2) /\ q2[k] = b BY <1>1, <1>2, <2>2
  <2>4. QED BY <2>2, <2>3
<1>8. ASSUME NEW a, a # x PROVE Followed(q2, a, x)
  <2> SUFFICES ASSUME NEW j \in 1..Len(q2), q2[j] = a
               PROVE  \E k \in 1..Len(q2) : j < k /\ q2[k] = x
      BY DEF Followed
  <2>1. j \in 1..Len(q) BY <1>3, <1>4, <1>8
  <2>2. Len(q) + 1 \in 1..Len(q2) /\ j < Len(q) + 1 BY <1>1, <2>1
  <2>3. QED BY <1>3, <2>2
<1>9. QED BY <1>1, <1>5, <1>6, <1>7, <1>8 DEF Grown

\* The head taken.
LEMMA TailShrinks ==
    ASSUME NEW S, NEW q \in Seq(S), q # <<>>, NEW h, h = Head(q), NEW q2, q2 = Tail(q)
    PROVE  h \in S /\ q2 \in Seq(S) /\ Shrunk(q, q2, h)
<1>1. /\ h \in S /\ q2 \in Seq(S) /\ Len(q2) = Len(q) - 1 /\ Len(q) \in Nat /\ Len(q) >= 1
      /\ q[1] = h
  OBVIOUS
<1>2. \A k \in 1..Len(q2) : q2[k] = q[k + 1] OBVIOUS
<1>3. \A k \in 1..Len(q2) : k + 1 \in 1..Len(q) BY <1>1
<1>4. ASSUME NEW k \in 1..Len(q), k # 1
      PROVE  k - 1 \in 1..Len(q2) /\ (k - 1) + 1 = k /\ q2[k - 1] = q[k]
  <2>1. k - 1 \in 1..Len(q2) /\ (k - 1) + 1 = k BY <1>1, <1>4
  <2>2. QED BY <1>2, <2>1
<1>5. Has(q, h) BY <1>1 DEF Has
<1>6. ASSUME NEW e, Has(q2, e) PROVE Has(q, e) BY <1>2, <1>3, <1>6 DEF Has
<1>7. ASSUME NEW e, Has(q, e) PROVE Has(q2, e) \/ e = h
  <2>1. PICK k \in 1..Len(q) : q[k] = e BY <1>7 DEF Has
  <2>2. CASE k = 1 BY <1>1, <2>1, <2>2
  <2>3. CASE k # 1 BY <1>4, <2>1, <2>3 DEF Has
  <2>4. QED BY <2>2, <2>3
<1>8. ASSUME NEW a, NEW b, Before(q, a, b) PROVE Before(q2, a, b)
  <2> SUFFICES ASSUME NEW j \in 1..Len(q2), NEW k \in 1..Len(q2), q2[j] = a, q2[k] = b PROVE j <= k
      BY DEF Before
  <2>1. j + 1 <= k + 1 BY <1>2, <1>3, <1>8 DEF Before
  <2>2. QED BY <2>1
<1>9. ASSUME NEW a, Before(q, a, h), Has(q2, a) PROVE FALSE
  <2>1. PICK k \in 1..Len(q2) : q2[k] = a BY <1>9 DEF Has
  <2>2. k + 1 \in 1..Len(q) /\ 1 \in 1..Len(q) /\ q[k + 1] = a BY <1>1, <1>2, <1>3, <2>1
  <2>3. k + 1 <= 1 BY <1>1, <1>9, <2>2 DEF Before
  <2>4. QED BY <2>1, <2>3
<1>10. ASSUME NEW a, NEW b, Followed(q, a, b) PROVE Followed(q2, a, b)
  <2> SUFFICES ASSUME NEW j \in 1..Len(q2), q2[j] = a
               PROVE  \E k \in 1..Len(q2) : j < k /\ q2[k] = b
      BY DEF Followed
  <2>1. j + 1 \in 1..Len(q) /\ q[j + 1] = a BY <1>2, <1>3
  <2>2. PICK k \in 1..Len(q) : j + 1 < k /\ q[k] = b BY <1>10, <2>1 DEF Followed
  <2>3. k # 1 /\ j < k - 1 BY <2>2
  <2>4. QED BY <1>4, <2>2, <2>3
<1>11. ASSUME NEW b, Followed(q, h, b) PROVE Has(q2, b)
  <2>1. 1 \in 1..Len(q) BY <1>1
  <2>2. PICK k \in 1..Len(q) : 1 < k /\ q[k] = b BY <1>1, <1>11, <2>1 DEF Followed
  <2>3. QED BY <1>4, <2>2 DEF Has
<1>12. QED BY <1>1, <1>5, <1>6, <1>7, <1>8, <1>9, <1>10, <1>11 DEF Shrunk

\* How the elements of E that are in a queue change: those of Out go, those of In come,
\* and none is in it twice.
Passes(q, q2, Out, In, E) ==
    \A e \in E : /\ Has(q2, e) <=> (Has(q, e) /\ e \notin Out) \/ e \in In
                 /\ Once(q2, e)

\* Nothing happens to the queue.
LEMMA PassNothing ==
    ASSUME NEW q, NEW q2, q2 = q, NEW E, \A e \in E : Once(q, e)
    PROVE  Passes(q, q2, {}, {}, E)
BY DEF Passes

\* Something new is appended.
LEMMA PassAppend ==
    ASSUME NEW q, NEW q2, NEW x, Grown(q, q2, x), NEW E, \A e \in E : Once(q, e),
           x \in E => ~Has(q, x)
    PROVE  Passes(q, q2, {}, {x}, E)
BY DEF Grown, Passes, Once

\* The head is taken.
LEMMA PassTail ==
    ASSUME NEW q, NEW q2, NEW h, Shrunk(q, q2, h), NEW E, \A e \in E : Once(q, e)
    PROVE  Passes(q, q2, {h}, {}, E)
BY DEF Shrunk, Passes, Once

\* The head is taken and something new is appended.
LEMMA PassBoth ==
    ASSUME NEW q, NEW t, NEW q2, NEW h, NEW x, Shrunk(q, t, h), Grown(t, q2, x),
           NEW E, \A e \in E : Once(q, e), x \in E => ~Has(q, x)
    PROVE  Passes(q, q2, {h}, {x}, E)
<1>1. Passes(q, t, {h}, {}, E) BY PassTail
<1>2. \A e \in E : Once(t, e) BY <1>1 DEF Passes
<1>3. x \in E => ~Has(t, x) BY DEF Shrunk
<1>4. Passes(t, q2, {}, {x}, E) BY <1>2, <1>3, PassAppend
<1>5. QED BY <1>1, <1>4 DEF Passes

-----------------------------------------------------------------------------
(* Events and tasks.                                                       *)

\* Different events and tasks are told apart.
LEMMA Different ==
    /\ \A t, u, c, d : CopyEvent(t, c) = CopyEvent(u, d) => t = u /\ c = d
    /\ \A t \in AllTypes : \A c, o, k : CopyEvent(t, c) # Deleted(o, k)
    /\ \A o, p, k, l : Deleted(o, k) = Deleted(p, l) => o = p /\ k = l
    /\ \A c, d : Insert(c) = Insert(d) => c = d
    /\ \A c, o, k : Insert(c) # Delete(o, k)
<1>1. \A t, u, c, d : CopyEvent(t, c) = CopyEvent(u, d) => t = u /\ c = d BY DEF CopyEvent
<1>2. \A t \in AllTypes : \A c, o, k : CopyEvent(t, c) # Deleted(o, k)
  BY DEF CopyEvent, Deleted, AllTypes, Work
<1>3. \A o, p, k, l : Deleted(o, k) = Deleted(p, l) => o = p /\ k = l BY DEF Deleted
<1>4. \A c, d : Insert(c) = Insert(d) => c = d BY DEF Insert
<1>5. \A c, o, k : Insert(c) # Delete(o, k) BY DEF Insert, Delete
<1>6. QED BY <1>1, <1>2, <1>3, <1>4, <1>5

\* A copy keeps its object, so that events and tasks mean the same later on.
LEMMA Fixed ==
    ASSUME UNCHANGED object
    PROVE  /\ \A t, c : CopyEvent(t, c)' = CopyEvent(t, c)
           /\ \A c : Insert(c)' = Insert(c)
           /\ Events' = Events /\ Tasks' = Tasks
<1>1. \A t, c : CopyEvent(t, c)' = CopyEvent(t, c) BY DEF CopyEvent
<1>2. \A c : Insert(c)' = Insert(c) BY DEF Insert
<1>3. Events' = Events BY <1>1 DEF Events
<1>4. Tasks' = Tasks BY <1>2 DEF Tasks
<1>5. QED BY <1>1, <1>2, <1>3, <1>4

\* The handlers only raise events and queue tasks that there are.
LEMMA Known ==
    /\ \A t \in AllTypes : \A c \in Copies : CopyEvent(t, c) \in Events
    /\ \A o \in Objects : \A keep \in BOOLEAN : Deleted(o, keep) \in Events
    /\ \A c \in Copies : Insert(c) \in Tasks
    /\ \A o \in Objects : \A keep \in BOOLEAN : Delete(o, keep) \in Tasks
BY DEF Events, Tasks, AllTypes

\* What the head of the event queue is about.
LEMMA HeadEvent ==
    ASSUME Typed, events # <<>>, NEW h, h = Head(events), NEW t, t = Tail(events)
    PROVE  /\ h \in Events /\ t \in Seq(Events) /\ Shrunk(events, t, h)
           /\ h.type \in AllTypes =>
                h.copy \in Copies /\ h = CopyEvent(h.type, h.copy) /\ h.object = object[h.copy]
           /\ h.type = "DELETED" =>
                h.object \in Objects /\ h.keep \in BOOLEAN /\ h = Deleted(h.object, h.keep)
<1>1. events \in Seq(Events) BY DEF Typed
<1>2. h \in Events /\ t \in Seq(Events) /\ Shrunk(events, t, h) BY <1>1, TailShrinks
<1>3. CASE \E ty \in AllTypes, c \in Copies : h = CopyEvent(ty, c)
  <2>1. PICK ty \in AllTypes, c \in Copies : h = CopyEvent(ty, c) BY <1>3
  <2>2. h.type = ty /\ h.copy = c /\ h.object = object[c] BY <2>1 DEF CopyEvent
  <2>3. ty # "DELETED" BY <2>1 DEF AllTypes, Work
  <2>4. QED BY <1>2, <2>1, <2>2, <2>3
<1>4. CASE \E o \in Objects, keep \in BOOLEAN : h = Deleted(o, keep)
  <2>1. PICK o \in Objects, keep \in BOOLEAN : h = Deleted(o, keep) BY <1>4
  <2>2. h.type = "DELETED" /\ h.object = o /\ h.keep = keep BY <2>1 DEF Deleted
  <2>3. h.type \notin AllTypes BY <2>2 DEF AllTypes, Work
  <2>4. QED BY <1>2, <2>1, <2>2, <2>3
<1>5. QED BY <1>2, <1>3, <1>4 DEF Events, AllTypes

\* What the head of the data store's queue asks for.
LEMMA HeadTask ==
    ASSUME Typed, tasks # <<>>, NEW h, h = Head(tasks), NEW t, t = Tail(tasks)
    PROVE  /\ h \in Tasks /\ t \in Seq(Tasks) /\ Shrunk(tasks, t, h)
           /\ h.op = "insert" =>
                h.copy \in Copies /\ h = Insert(h.copy) /\ h.object = object[h.copy]
           /\ h.op = "delete" =>
                h.object \in Objects /\ h.keep \in BOOLEAN /\ h = Delete(h.object, h.keep)
<1>1. tasks \in Seq(Tasks) BY DEF Typed
<1>2. h \in Tasks /\ t \in Seq(Tasks) /\ Shrunk(tasks, t, h) BY <1>1, TailShrinks
<1>3. CASE \E c \in Copies : h = Insert(c)
  <2>1. PICK c \in Copies : h = Insert(c) BY <1>3
  <2>2. h.op = "insert" /\ h.copy = c /\ h.object = object[c] BY <2>1 DEF Insert
  <2>3. QED BY <1>2, <2>1, <2>2
<1>4. CASE \E o \in Objects, keep \in BOOLEAN : h = Delete(o, keep)
  <2>1. PICK o \in Objects, keep \in BOOLEAN : h = Delete(o, keep) BY <1>4
  <2>2. h.op = "delete" /\ h.object = o /\ h.keep = keep BY <2>1 DEF Delete
  <2>3. QED BY <1>2, <2>1, <2>2
<1>5. QED BY <1>2, <1>3, <1>4 DEF Tasks

-----------------------------------------------------------------------------
(* Where a step takes a copy.                                              *)

\* No copy moves.
Still == Singly' /\ \A d \in Copies : \A p : At(p, d)' <=> At(p, d)

\* One copy is now at the places of Q, the others where they were.
Moved(c, Q) ==
    /\ Singly'
    /\ \A p : At(p, c)' <=> p \in Q
    /\ \A d \in Copies : \A p : d # c => (At(p, d)' <=> At(p, d))

\* A step that turns over the event queue alone.
LEMMA EventsOnly ==
    ASSUME Singly, UNCHANGED <<object, security, helper, tasks>>, NEW Out, NEW In,
           Passes(events, events', Out, In, WorkEvents)
    PROVE  /\ Singly'
           /\ \A d \in Copies : \A p : p \notin Work => (At(p, d)' <=> At(p, d))
           /\ \A d \in Copies : \A p \in Work :
                At(p, d)' <=> (At(p, d) /\ CopyEvent(p, d) \notin Out) \/ CopyEvent(p, d) \in In
<1>1. /\ \A t, c : CopyEvent(t, c)' = CopyEvent(t, c)
      /\ \A c : Insert(c)' = Insert(c)
  BY Fixed
<1>2. WorkEvents' = WorkEvents /\ Inserts' = Inserts BY <1>1 DEF WorkEvents, Inserts
<1>3. Singly' BY <1>2 DEF Singly, Passes
<1>4. ASSUME NEW d \in Copies, NEW p, p \notin Work PROVE At(p, d)' <=> At(p, d)
  BY <1>1, <1>4 DEF At
<1>5. ASSUME NEW d \in Copies, NEW p \in Work
      PROVE  At(p, d)' <=> (At(p, d) /\ CopyEvent(p, d) \notin Out) \/ CopyEvent(p, d) \in In
  <2>1. p \notin {"security", "helper", "tasks"} BY DEF Work
  <2>2. At(p, d) <=> Has(events, CopyEvent(p, d)) BY <2>1 DEF At
  <2>3. At(p, d)' <=> Has(events', CopyEvent(p, d)) BY <1>1, <2>1 DEF At
  <2>4. CopyEvent(p, d) \in WorkEvents BY DEF WorkEvents
  <2>5. QED BY <2>2, <2>3, <2>4 DEF Passes
<1>6. QED BY <1>3, <1>4, <1>5

\* A step that raises an event about no copy's next handler moves none.
LEMMA RaiseStill ==
    ASSUME IInv, UNCHANGED <<object, security, helper, tasks>>, NEW x \in Events, x \notin WorkEvents,
           events' = Append(events, x)
    PROVE  events' \in Seq(Events) /\ Grown(events, events', x) /\ Still
<1>1. events' \in Seq(Events) /\ Grown(events, events', x) BY AppendGrows DEF IInv, Typed
<1>2. Singly BY DEF IInv
<1>3. Passes(events, events', {}, {x}, WorkEvents) BY <1>1, <1>2, PassAppend DEF Singly
<1>4. \A d \in Copies : \A p \in Work : CopyEvent(p, d) # x BY DEF WorkEvents
<1>5. Still BY <1>2, <1>3, <1>4, EventsOnly DEF Still
<1>6. QED BY <1>1, <1>5

\* Nor does one that handles such an event.
LEMMA HandleStill ==
    ASSUME IInv, UNCHANGED <<object, security, helper, tasks>>, events # <<>>,
           NEW h, h = Head(events), h \notin WorkEvents, events' = Tail(events)
    PROVE  events' \in Seq(Events) /\ Shrunk(events, events', h) /\ Still
<1>0. Typed /\ Singly BY DEF IInv
<1>1. events' \in Seq(Events) /\ Shrunk(events, events', h) BY <1>0, HeadEvent
<1>3. Passes(events, events', {h}, {}, WorkEvents) BY <1>0, <1>1, PassTail DEF Singly
<1>4. \A d \in Copies : \A p \in Work : CopyEvent(p, d) # h BY DEF WorkEvents
<1>5. Still BY <1>0, <1>3, <1>4, EventsOnly DEF Still
<1>6. QED BY <1>1, <1>5

\* A handler takes the event that was the only trace of its copy, and posts nothing
\* or an event about something else.
LEMMA HandleEnds ==
    ASSUME IInv, UNCHANGED <<object, security, helper, tasks>>, events # <<>>,
           NEW h, h = Head(events), h.type \in Work,
           \/ events' = Tail(events)
           \/ \E x \in Events : x \notin WorkEvents /\ events' = Append(Tail(events), x)
    PROVE  events' \in Seq(Events) /\ Moved(h.copy, {})
<1>0. Typed /\ Singly /\ Apart BY DEF IInv
<1>1. PICK t : t = Tail(events) OBVIOUS
<1>2. /\ t \in Seq(Events) /\ Shrunk(events, t, h) /\ h.copy \in Copies
      /\ h = CopyEvent(h.type, h.copy)
  BY <1>0, <1>1, HeadEvent DEF AllTypes
<1>3. events' \in Seq(Events) /\ \E In : /\ Passes(events, events', {h}, In, WorkEvents)
                                         /\ In \intersect WorkEvents = {}
  <2>1. CASE events' = t
    <3>1. Passes(events, events', {h}, {}, WorkEvents) BY <1>0, <1>2, <2>1, PassTail DEF Singly
    <3>2. QED BY <1>2, <2>1, <3>1
  <2>2. ASSUME NEW x \in Events, x \notin WorkEvents, events' = Append(t, x)
        PROVE  /\ events' \in Seq(Events)
               /\ Passes(events, events', {h}, {x}, WorkEvents) /\ {x} \intersect WorkEvents = {}
    <3>1. events' \in Seq(Events) /\ Grown(t, events', x) BY <1>2, <2>2, AppendGrows
    <3>2. QED BY <1>0, <1>2, <2>2, <3>1, PassBoth DEF Singly
  <2>3. QED BY <1>1, <2>1, <2>2
<1>4. PICK In : Passes(events, events', {h}, In, WorkEvents) /\ In \intersect WorkEvents = {} BY <1>3
<1>5. /\ Singly'
      /\ \A d \in Copies : \A p : p \notin Work => (At(p, d)' <=> At(p, d))
      /\ \A d \in Copies : \A p \in Work :
           At(p, d)' <=> (At(p, d) /\ CopyEvent(p, d) # h) \/ CopyEvent(p, d) \in In
  BY <1>0, <1>4, EventsOnly
<1>6. \A d \in Copies : \A p \in Work : CopyEvent(p, d) \notin In BY <1>4 DEF WorkEvents
<1>7. At(h.type, h.copy) BY <1>2 DEF Shrunk, At
<1>8. \A p : At(p, h.copy) => p = h.type BY <1>0, <1>2, <1>7 DEF Apart
<1>9. \A d \in Copies : \A p : CopyEvent(p, d) = h => p = h.type /\ d = h.copy BY <1>2, Different
<1>10. \A p : ~At(p, h.copy)' BY <1>2, <1>5, <1>6, <1>8
<1>11. \A d \in Copies : \A p : d # h.copy => (At(p, d)' <=> At(p, d)) BY <1>5, <1>6, <1>9
<1>12. QED BY <1>3, <1>5, <1>10, <1>11 DEF Moved

\* A step that turns over several queues.
LEMMA Flow ==
    ASSUME UNCHANGED object,
           NEW EO, NEW EI, Passes(events, events', EO, EI, WorkEvents),
           NEW SO, NEW SI, Passes(security, security', SO, SI, Copies),
           NEW HO, NEW HI, Passes(helper, helper', HO, HI, Copies),
           NEW TO, NEW TI, Passes(tasks, tasks', TO, TI, Inserts)
    PROVE  /\ Singly'
           /\ \A d \in Copies : \A p : At(p, d)' <=>
                \/ p \in Work /\ ((At(p, d) /\ CopyEvent(p, d) \notin EO) \/ CopyEvent(p, d) \in EI)
                \/ p = "security" /\ ((At(p, d) /\ d \notin SO) \/ d \in SI)
                \/ p = "helper" /\ ((At(p, d) /\ d \notin HO) \/ d \in HI)
                \/ p = "tasks" /\ ((At(p, d) /\ Insert(d) \notin TO) \/ Insert(d) \in TI)
<1>1. /\ \A t, c : CopyEvent(t, c)' = CopyEvent(t, c)
      /\ \A c : Insert(c)' = Insert(c)
  BY Fixed
<1>2. WorkEvents' = WorkEvents /\ Inserts' = Inserts BY <1>1 DEF WorkEvents, Inserts
<1>3. Singly' BY <1>2 DEF Singly, Passes
<1> SUFFICES ASSUME NEW d \in Copies, NEW p
             PROVE  At(p, d)' <=>
                \/ p \in Work /\ ((At(p, d) /\ CopyEvent(p, d) \notin EO) \/ CopyEvent(p, d) \in EI)
                \/ p = "security" /\ ((At(p, d) /\ d \notin SO) \/ d \in SI)
                \/ p = "helper" /\ ((At(p, d) /\ d \notin HO) \/ d \in HI)
                \/ p = "tasks" /\ ((At(p, d) /\ Insert(d) \notin TO) \/ Insert(d) \in TI)
    BY <1>3
<1>4. Insert(d) \in Inserts BY DEF Inserts
<1>5. CASE p \in Work
  <2>1. p \notin {"security", "helper", "tasks"} BY <1>5 DEF Work
  <2>2. At(p, d) <=> Has(events, CopyEvent(p, d)) BY <1>5, <2>1 DEF At
  <2>3. At(p, d)' <=> Has(events', CopyEvent(p, d)) BY <1>1, <1>5, <2>1 DEF At
  <2>4. CopyEvent(p, d) \in WorkEvents BY <1>5 DEF WorkEvents
  <2>5. QED BY <1>5, <2>1, <2>2, <2>3, <2>4 DEF Passes
<1>6. CASE p \notin Work BY <1>1, <1>4, <1>6 DEF At, Passes
<1>7. QED BY <1>5, <1>6

\* A queue that is left alone.
LEMMA Untouched ==
    ASSUME IInv
    PROVE  /\ UNCHANGED events => Passes(events, events', {}, {}, WorkEvents)
           /\ UNCHANGED security => Passes(security, security', {}, {}, Copies)
           /\ UNCHANGED helper => Passes(helper, helper', {}, {}, Copies)
           /\ UNCHANGED tasks => Passes(tasks, tasks', {}, {}, Inserts)
BY PassNothing DEF IInv, Singly

\* A copy is at one place: what is appended to another one is new there.
LEMMA Elsewhere ==
    ASSUME IInv, NEW c \in Copies, NEW from, NEW to, from # to,
           At(from, c) \/ \A p : ~At(p, c)
    PROVE  /\ ~At(to, c)
           /\ to \in Work => ~Has(events, CopyEvent(to, c))
           /\ to = "security" => ~Has(security, c)
           /\ to = "helper" => ~Has(helper, c)
           /\ to = "tasks" => ~Has(tasks, Insert(c))
<1>1. ~At(to, c) BY DEF IInv, Apart
<1>2. QED BY <1>1 DEF At

\* The copy of the head of a queue is there.
LEMMA AtHead ==
    ASSUME IInv
    PROVE  /\ \A h : events # <<>> /\ h = Head(events) /\ h.type \in Work =>
                h.copy \in Copies /\ h = CopyEvent(h.type, h.copy) /\ At(h.type, h.copy)
           /\ \A h : security # <<>> /\ h = Head(security) => h \in Copies /\ At("security", h)
           /\ \A h : helper # <<>> /\ h = Head(helper) => h \in Copies /\ At("helper", h)
           /\ \A h : tasks # <<>> /\ h = Head(tasks) /\ h.op = "insert" =>
                h.copy \in Copies /\ h = Insert(h.copy) /\ At("tasks", h.copy)
<1>0. Typed /\ security \in Seq(Copies) /\ helper \in Seq(Copies) BY DEF IInv, Typed, TypeOK
<1>1. ASSUME NEW h, events # <<>>, h = Head(events), h.type \in Work
      PROVE  h.copy \in Copies /\ h = CopyEvent(h.type, h.copy) /\ At(h.type, h.copy)
  <2>1. h.copy \in Copies /\ h = CopyEvent(h.type, h.copy) BY <1>0, <1>1, HeadEvent DEF AllTypes
  <2>2. Has(events, h) BY <1>0, <1>1, HeadEvent DEF Shrunk
  <2>3. QED BY <1>1, <2>1, <2>2 DEF At
<1>2. ASSUME NEW h, security # <<>>, h = Head(security) PROVE h \in Copies /\ At("security", h)
  <2>0. PICK t : t = Tail(security) OBVIOUS
  <2>1. h \in Copies /\ Has(security, h)
    BY <1>0, <1>2, <2>0, TailShrinks DEF Shrunk
  <2>2. QED BY <2>1 DEF At
<1>3. ASSUME NEW h, helper # <<>>, h = Head(helper) PROVE h \in Copies /\ At("helper", h)
  <2>0. PICK t : t = Tail(helper) OBVIOUS
  <2>1. h \in Copies /\ Has(helper, h)
    BY <1>0, <1>3, <2>0, TailShrinks DEF Shrunk
  <2>2. QED BY <2>1 DEF At
<1>4. ASSUME NEW h, tasks # <<>>, h = Head(tasks), h.op = "insert"
      PROVE  h.copy \in Copies /\ h = Insert(h.copy) /\ At("tasks", h.copy)
  <2>1. h.copy \in Copies /\ h = Insert(h.copy) BY <1>0, <1>4, HeadTask
  <2>2. Has(tasks, h) BY <1>0, <1>4, HeadTask DEF Shrunk
  <2>3. QED BY <2>1, <2>2 DEF At
<1>5. QED BY <1>1, <1>2, <1>3, <1>4

\* A thread hands its copy over.
LEMMA ReceiveDoneMoves ==
    ASSUME IInv, NEW r \in Receivers, ReceiveDone(r), NEW c, c = rx[r].copy
    PROVE  /\ c \in Copies /\ events' \in Seq(Events) /\ Moved(c, {"RECEIVED"})
           /\ Grown(events, events', CopyEvent("RECEIVED", c))
<1>1. c \in Copies /\ Receiving(c) BY DEF IInv, Typed, Threads, ReceiveDone, Receiving
<1>2. \A p : ~At(p, c) BY <1>1 DEF IInv, Fate, FateOf
<1>3. PICK x : x = CopyEvent("RECEIVED", c) OBVIOUS
<1>4. x \in Events /\ events' = Append(events, x)
  BY <1>1, <1>3, Known DEF AllTypes, Work, ReceiveDone, Raise
<1>5. events' \in Seq(Events) /\ Grown(events, events', x) BY <1>4, AppendGrows DEF IInv, Typed
<1>6. ~Has(events, x) BY <1>2, <1>3 DEF At, Work
<1>7. Passes(events, events', {}, {x}, WorkEvents) BY <1>5, <1>6, PassAppend DEF IInv, Singly
<1>8. UNCHANGED <<object, security, helper, tasks>> /\ Singly
  BY DEF ReceiveDone, helperVars, storeVars, IInv
<1>9. /\ Singly'
      /\ \A d \in Copies : \A p : p \notin Work => (At(p, d)' <=> At(p, d))
      /\ \A d \in Copies : \A p \in Work :
           At(p, d)' <=> (At(p, d) /\ CopyEvent(p, d) \notin {}) \/ CopyEvent(p, d) \in {x}
  BY <1>7, <1>8, EventsOnly
<1>10. \A d \in Copies : \A p : CopyEvent(p, d) = x => p = "RECEIVED" /\ d = c BY <1>3, Different
<1>11. \A p : At(p, c)' <=> p \in {"RECEIVED"} BY <1>1, <1>2, <1>3, <1>9, <1>10 DEF Work
<1>12. \A d \in Copies : \A p : d # c => (At(p, d)' <=> At(p, d)) BY <1>9, <1>10
<1>13. QED BY <1>1, <1>3, <1>5, <1>9, <1>11, <1>12 DEF Moved

\* A handler passes the copy on with another event.
LEMMA HandlePasses ==
    ASSUME IInv, UNCHANGED <<object, security, helper, tasks>>, events # <<>>,
           NEW h, h = Head(events), h.type \in Work, NEW to \in Work, to # h.type,
           events' = Append(Tail(events), CopyEvent(to, h.copy))
    PROVE  events' \in Seq(Events) /\ Moved(h.copy, {to})
<1>1. PICK t, x, c, from : t = Tail(events) /\ x = CopyEvent(to, h.copy) /\ c = h.copy /\ from = h.type
  OBVIOUS
<1>2. c \in Copies /\ h = CopyEvent(from, c) /\ At(from, c) BY <1>1, AtHead
<1>3. t \in Seq(Events) /\ Shrunk(events, t, h) BY <1>1, HeadEvent DEF IInv
<1>4. x \in Events BY <1>1, <1>2, Known DEF AllTypes
<1>5. events' \in Seq(Events) /\ Grown(t, events', x) BY <1>1, <1>3, <1>4, AppendGrows
<1>6. ~Has(events, x) BY <1>1, <1>2, Elsewhere
<1>7. Passes(events, events', {h}, {x}, WorkEvents) BY <1>3, <1>5, <1>6, PassBoth DEF IInv, Singly
<1>8. /\ Singly'
      /\ \A d \in Copies : \A p : p \notin Work => (At(p, d)' <=> At(p, d))
      /\ \A d \in Copies : \A p \in Work :
           At(p, d)' <=> (At(p, d) /\ CopyEvent(p, d) # h) \/ CopyEvent(p, d) = x
  BY <1>7, EventsOnly DEF IInv
<1>9. \A d \in Copies : \A p : /\ CopyEvent(p, d) = x => p = to /\ d = c
                               /\ CopyEvent(p, d) = h => p = from /\ d = c
  BY <1>1, <1>2, Different
<1>10. \A p : At(p, c) => p = from BY <1>2 DEF IInv, Apart
<1>11. \A p : At(p, c)' <=> p \in {to} BY <1>1, <1>2, <1>8, <1>9, <1>10
<1>12. \A d \in Copies : \A p : d # c => (At(p, d)' <=> At(p, d)) BY <1>8, <1>9
<1>13. QED BY <1>1, <1>5, <1>8, <1>11, <1>12 DEF Moved

\* A handler hands the copy over to a helper thread or to the data store.
LEMMA HandleHands ==
    ASSUME IInv, UNCHANGED object, events # <<>>,
           NEW h, h = Head(events), h.type \in Work, NEW to \in {"security", "helper", "tasks"},
           events' = Tail(events),
           security' = IF to = "security" THEN Append(security, h.copy) ELSE security,
           helper' = IF to = "helper" THEN Append(helper, h.copy) ELSE helper,
           tasks' = IF to = "tasks" THEN Append(tasks, Insert(h.copy)) ELSE tasks
    PROVE  /\ events' \in Seq(Events) /\ Moved(h.copy, {to})
           /\ security' \in Seq(Copies) /\ helper' \in Seq(Copies) /\ tasks' \in Seq(Tasks)
<1>0. Typed /\ Singly /\ security \in Seq(Copies) /\ helper \in Seq(Copies) /\ tasks \in Seq(Tasks)
  BY DEF IInv, Typed, TypeOK
<1>1. PICK c, from, x : c = h.copy /\ from = h.type /\ x = Insert(h.copy) OBVIOUS
<1>2. c \in Copies /\ h = CopyEvent(from, c) /\ At(from, c) BY <1>1, AtHead
<1>3. from # to BY <1>1 DEF Work
<1>4. x \in Tasks BY <1>1, <1>2, Known
<1>5. events' \in Seq(Events) /\ Shrunk(events, events', h) BY <1>0, HeadEvent
<1>6. Passes(events, events', {h}, {}, WorkEvents) BY <1>0, <1>5, PassTail DEF Singly
<1>7. /\ to = "security" => ~Has(security, c)
      /\ to = "helper" => ~Has(helper, c)
      /\ to = "tasks" => ~Has(tasks, x)
  BY <1>1, <1>2, <1>3, Elsewhere
<1>8. security' \in Seq(Copies) /\ \E SI : /\ Passes(security, security', {}, SI, Copies)
                                           /\ SI = IF to = "security" THEN {c} ELSE {}
  <2>1. CASE to = "security"
    <3>1. security' \in Seq(Copies) /\ Grown(security, security', c)
      BY <1>0, <1>1, <1>2, <2>1, AppendGrows
    <3>2. Passes(security, security', {}, {c}, Copies) BY <1>0, <1>7, <2>1, <3>1, PassAppend DEF Singly
    <3>3. QED BY <2>1, <3>1, <3>2
  <2>2. CASE to # "security" BY <1>0, <2>2, Untouched
  <2>3. QED BY <2>1, <2>2
<1>9. helper' \in Seq(Copies) /\ \E HI : /\ Passes(helper, helper', {}, HI, Copies)
                                         /\ HI = IF to = "helper" THEN {c} ELSE {}
  <2>1. CASE to = "helper"
    <3>1. helper' \in Seq(Copies) /\ Grown(helper, helper', c)
      BY <1>0, <1>1, <1>2, <2>1, AppendGrows
    <3>2. Passes(helper, helper', {}, {c}, Copies) BY <1>0, <1>7, <2>1, <3>1, PassAppend DEF Singly
    <3>3. QED BY <2>1, <3>1, <3>2
  <2>2. CASE to # "helper" BY <1>0, <2>2, Untouched
  <2>3. QED BY <2>1, <2>2
<1>10. tasks' \in Seq(Tasks) /\ \E TI : /\ Passes(tasks, tasks', {}, TI, Inserts)
                                        /\ TI = IF to = "tasks" THEN {x} ELSE {}
  <2>1. CASE to = "tasks"
    <3>1. tasks' \in Seq(Tasks) /\ Grown(tasks, tasks', x)
      BY <1>0, <1>1, <1>4, <2>1, AppendGrows
    <3>2. Passes(tasks, tasks', {}, {x}, Inserts) BY <1>0, <1>7, <2>1, <3>1, PassAppend DEF Singly
    <3>3. QED BY <2>1, <3>1, <3>2
  <2>2. CASE to # "tasks" BY <1>0, <2>2, Untouched
  <2>3. QED BY <2>1, <2>2
<1>11. PICK SI, HI, TI :
         /\ Passes(security, security', {}, SI, Copies) /\ SI = IF to = "security" THEN {c} ELSE {}
         /\ Passes(helper, helper', {}, HI, Copies) /\ HI = IF to = "helper" THEN {c} ELSE {}
         /\ Passes(tasks, tasks', {}, TI, Inserts) /\ TI = IF to = "tasks" THEN {x} ELSE {}
  BY <1>8, <1>9, <1>10
<1>12. /\ Singly'
       /\ \A d \in Copies : \A p : At(p, d)' <=>
            \/ p \in Work /\ ((At(p, d) /\ CopyEvent(p, d) \notin {h}) \/ CopyEvent(p, d) \in {})
            \/ p = "security" /\ ((At(p, d) /\ d \notin {}) \/ d \in SI)
            \/ p = "helper" /\ ((At(p, d) /\ d \notin {}) \/ d \in HI)
            \/ p = "tasks" /\ ((At(p, d) /\ Insert(d) \notin {}) \/ Insert(d) \in TI)
  BY <1>6, <1>11, Flow
<1>13. /\ \A d \in Copies : \A p : CopyEvent(p, d) = h => p = from /\ d = c
       /\ \A d \in Copies : Insert(d) = x => d = c
  BY <1>1, <1>2, Different
<1>14. \A p : At(p, c) => p = from BY <1>2 DEF IInv, Apart
<1>15. \A p : At(p, c)' <=> p \in {to}
  <2>1. from \in Work BY <1>1
  <2>2. \A p : At(p, c)' => p = to BY <1>2, <1>3, <1>11, <1>12, <1>14, <2>1 DEF Work
  <2>3. At(to, c)' BY <1>1, <1>2, <1>11, <1>12
  <2>4. QED BY <2>2, <2>3
<1>16. ASSUME NEW d \in Copies, NEW p, d # c PROVE At(p, d)' <=> At(p, d)
  <2>1. d \notin SI /\ d \notin HI /\ Insert(d) \notin TI /\ CopyEvent(p, d) # h
    BY <1>11, <1>13, <1>16
  <2>2. At(p, d) => p \in Work \union {"security", "helper", "tasks"} BY DEF At
  <2>3. QED BY <1>12, <2>1, <2>2
<1>17. QED BY <1>1, <1>5, <1>8, <1>9, <1>10, <1>12, <1>15, <1>16 DEF Moved

\* A helper thread is done with the copy and raises an event about it.
LEMMA HelperRaises ==
    ASSUME IInv, UNCHANGED <<object, tasks>>, NEW from \in {"security", "helper"}, NEW c,
           from = "security" => /\ security # <<>> /\ c = Head(security)
                                /\ security' = Tail(security) /\ UNCHANGED helper,
           from = "helper" => /\ helper # <<>> /\ c = Head(helper)
                              /\ helper' = Tail(helper) /\ UNCHANGED security,
           NEW x \in Events, NEW Q, events' = Append(events, x),
           \/ Q = {} /\ x \notin WorkEvents
           \/ \E to \in Work : Q = {to} /\ x = CopyEvent(to, c)
    PROVE  /\ c \in Copies /\ At(from, c) /\ Moved(c, Q)
           /\ events' \in Seq(Events) /\ security' \in Seq(Copies) /\ helper' \in Seq(Copies)
           /\ Grown(events, events', x)
<1>0. Typed /\ Singly /\ security \in Seq(Copies) /\ helper \in Seq(Copies)
  BY DEF IInv, Typed, TypeOK
<1>1. c \in Copies /\ At(from, c) BY AtHead
<1>2. events' \in Seq(Events) /\ Grown(events, events', x) BY <1>0, AppendGrows DEF Typed
<1>3. x \in WorkEvents => ~Has(events, x)
  <2>1. \A to \in Work : to # from BY DEF Work
  <2>2. QED BY <1>1, <2>1, Elsewhere
<1>4. Passes(events, events', {}, {x}, WorkEvents) BY <1>0, <1>2, <1>3, PassAppend DEF Singly
<1>5. security' \in Seq(Copies) /\ \E SO : /\ Passes(security, security', SO, {}, Copies)
                                           /\ SO = IF from = "security" THEN {c} ELSE {}
  <2>1. CASE from = "security"
    <3>1. security' \in Seq(Copies) /\ Shrunk(security, security', c) BY <1>0, <2>1, TailShrinks
    <3>2. Passes(security, security', {c}, {}, Copies) BY <1>0, <3>1, PassTail DEF Singly
    <3>3. QED BY <2>1, <3>1, <3>2
  <2>2. CASE from = "helper" BY <1>0, <2>2, Untouched
  <2>3. QED BY <2>1, <2>2
<1>6. helper' \in Seq(Copies) /\ \E HO : /\ Passes(helper, helper', HO, {}, Copies)
                                         /\ HO = IF from = "helper" THEN {c} ELSE {}
  <2>1. CASE from = "helper"
    <3>1. helper' \in Seq(Copies) /\ Shrunk(helper, helper', c) BY <1>0, <2>1, TailShrinks
    <3>2. Passes(helper, helper', {c}, {}, Copies) BY <1>0, <3>1, PassTail DEF Singly
    <3>3. QED BY <2>1, <3>1, <3>2
  <2>2. CASE from = "security" BY <1>0, <2>2, Untouched
  <2>3. QED BY <2>1, <2>2
<1>7. Passes(tasks, tasks', {}, {}, Inserts) BY Untouched
<1>8. PICK SO, HO :
         /\ Passes(security, security', SO, {}, Copies) /\ SO = IF from = "security" THEN {c} ELSE {}
         /\ Passes(helper, helper', HO, {}, Copies) /\ HO = IF from = "helper" THEN {c} ELSE {}
  BY <1>5, <1>6
<1>9. /\ Singly'
      /\ \A d \in Copies : \A p : At(p, d)' <=>
           \/ p \in Work /\ ((At(p, d) /\ CopyEvent(p, d) \notin {}) \/ CopyEvent(p, d) \in {x})
           \/ p = "security" /\ ((At(p, d) /\ d \notin SO) \/ d \in {})
           \/ p = "helper" /\ ((At(p, d) /\ d \notin HO) \/ d \in {})
           \/ p = "tasks" /\ ((At(p, d) /\ Insert(d) \notin {}) \/ Insert(d) \in {})
  BY <1>4, <1>7, <1>8, Flow
<1>10. \A p : At(p, c) => p = from BY <1>1 DEF IInv, Apart
<1>11. ASSUME NEW d \in Copies, NEW p \in Work PROVE CopyEvent(p, d) = x <=> p \in Q /\ d = c
  <2>1. CopyEvent(p, d) \in WorkEvents BY DEF WorkEvents
  <2>2. CASE Q = {} /\ x \notin WorkEvents BY <2>1, <2>2
  <2>3. CASE \E to \in Work : Q = {to} /\ x = CopyEvent(to, c) BY <2>3, Different
  <2>4. QED BY <2>2, <2>3
<1>12. \A p : At(p, c)' <=> p \in Q
  <2>1. Q \subseteq Work /\ from \notin Work BY DEF Work
  <2>2. \A p : At(p, c)' => p \in Q BY <1>1, <1>8, <1>9, <1>10, <1>11, <2>1
  <2>3. \A p \in Q : At(p, c)' BY <1>1, <1>9, <1>11, <2>1
  <2>4. QED BY <2>2, <2>3
<1>13. ASSUME NEW d \in Copies, NEW p, d # c PROVE At(p, d)' <=> At(p, d)
  <2>1. d \notin SO /\ d \notin HO BY <1>8, <1>13
  <2>2. p \in Work => CopyEvent(p, d) # x BY <1>11, <1>13
  <2>3. At(p, d) => p \in Work \union {"security", "helper", "tasks"} BY DEF At
  <2>4. QED BY <1>9, <2>1, <2>2, <2>3
<1>14. QED BY <1>1, <1>2, <1>5, <1>6, <1>9, <1>12, <1>13 DEF Moved

\* The data store thread is done with the copy.
LEMMA InsertMoves ==
    ASSUME IInv, _insertDataObject, NEW h, h = Head(tasks), NEW c, c = h.copy
    PROVE  /\ c \in Copies /\ At("tasks", c) /\ Moved(c, {}) /\ h.object = object[c]
           /\ events' \in Seq(Events) /\ tasks' \in Seq(Tasks)
           /\ Grown(events, events', CopyEvent("INSERTED", c))
<1>0. Typed /\ Singly BY DEF IInv
<1>1. tasks # <<>> /\ h.op = "insert" /\ tasks' = Tail(tasks) /\ UNCHANGED <<object, security, helper>>
  BY DEF _insertDataObject, helperVars
<1>2. c \in Copies /\ h = Insert(c) /\ At("tasks", c) BY <1>1, AtHead
<1>3. tasks' \in Seq(Tasks) /\ Shrunk(tasks, tasks', h) /\ h.object = object[c] BY <1>0, <1>1, HeadTask
<1>4. Passes(tasks, tasks', {h}, {}, Inserts) BY <1>0, <1>3, PassTail DEF Singly
<1>5. PICK x : x = CopyEvent("INSERTED", c) OBVIOUS
<1>6. x \in Events /\ events' = Append(events, x)
  BY <1>2, <1>5, Known DEF AllTypes, _insertDataObject, Raise
<1>7. events' \in Seq(Events) /\ Grown(events, events', x) BY <1>0, <1>6, AppendGrows DEF Typed
<1>8. \A d \in Copies : \A p \in Work : CopyEvent(p, d) # x
  <2>1. "INSERTED" \notin Work BY DEF Work
  <2>2. QED BY <1>5, <2>1, Different
<1>9. x \notin WorkEvents BY <1>8 DEF WorkEvents
<1>10. Passes(events, events', {}, {x}, WorkEvents) BY <1>0, <1>7, <1>9, PassAppend DEF Singly
<1>11. Passes(security, security', {}, {}, Copies) /\ Passes(helper, helper', {}, {}, Copies)
  BY <1>1, Untouched
<1>12. /\ Singly'
       /\ \A d \in Copies : \A p : At(p, d)' <=>
            \/ p \in Work /\ ((At(p, d) /\ CopyEvent(p, d) \notin {}) \/ CopyEvent(p, d) \in {x})
            \/ p = "security" /\ ((At(p, d) /\ d \notin {}) \/ d \in {})
            \/ p = "helper" /\ ((At(p, d) /\ d \notin {}) \/ d \in {})
            \/ p = "tasks" /\ ((At(p, d) /\ Insert(d) \notin {h}) \/ Insert(d) \in {})
  BY <1>1, <1>4, <1>10, <1>11, Flow
<1>13. \A p : At(p, c) => p = "tasks" BY <1>2 DEF IInv, Apart
<1>14. \A p : At(p, c)' <=> p \in {} BY <1>2, <1>8, <1>12, <1>13 DEF Work
<1>15. ASSUME NEW d \in Copies, NEW p, d # c PROVE At(p, d)' <=> At(p, d)
  <2>1. Insert(d) # h BY <1>2, <1>15, Different
  <2>2. At(p, d) => p \in Work \union {"security", "helper", "tasks"} BY DEF At
  <2>3. QED BY <1>8, <1>12, <2>1, <2>2
<1>16. QED BY <1>2, <1>3, <1>5, <1>7, <1>12, <1>14, <1>15 DEF Moved

\* A deletion is asked for.
LEMMA deleteDataObjectStill ==
    ASSUME IInv, NEW o \in Objects, NEW keep \in BOOLEAN, deleteDataObject(o, keep)
    PROVE  Still /\ tasks' \in Seq(Tasks)
<1>0. Typed /\ Singly BY DEF IInv
<1>1. PICK x : x = Delete(o, keep) OBVIOUS
<1>2. x \in Tasks /\ x \notin Inserts BY <1>1, Known, Different DEF Inserts
<1>3. /\ tasks' = Append(tasks, x) /\ UNCHANGED <<object, events, security, helper>>
  BY <1>1 DEF deleteDataObject, Delete, copyVars, helperVars
<1>4. tasks' \in Seq(Tasks) /\ Grown(tasks, tasks', x) BY <1>0, <1>2, <1>3, AppendGrows DEF Typed
<1>5. Passes(tasks, tasks', {}, {x}, Inserts) BY <1>0, <1>2, <1>4, PassAppend DEF Singly
<1>6. /\ Passes(events, events', {}, {}, WorkEvents)
      /\ Passes(security, security', {}, {}, Copies) /\ Passes(helper, helper', {}, {}, Copies)
  BY <1>3, Untouched
<1>7. /\ Singly'
      /\ \A d \in Copies : \A p : At(p, d)' <=>
           \/ p \in Work /\ ((At(p, d) /\ CopyEvent(p, d) \notin {}) \/ CopyEvent(p, d) \in {})
           \/ p = "security" /\ ((At(p, d) /\ d \notin {}) \/ d \in {})
           \/ p = "helper" /\ ((At(p, d) /\ d \notin {}) \/ d \in {})
           \/ p = "tasks" /\ ((At(p, d) /\ Insert(d) \notin {}) \/ Insert(d) \in {x})
  BY <1>3, <1>5, <1>6, Flow
<1>8. \A d \in Copies : Insert(d) # x BY <1>2 DEF Inserts
<1>9. \A d, p : At(p, d) => p \in Work \union {"security", "helper", "tasks"} BY DEF At
<1>10. QED BY <1>4, <1>7, <1>8, <1>9 DEF Still

\* A deletion is carried out.
LEMMA _deleteDataObjectStill ==
    ASSUME IInv, _deleteDataObject, NEW h, h = Head(tasks)
    PROVE  /\ Still /\ tasks' \in Seq(Tasks) /\ events' \in Seq(Events)
           /\ h.object \in Objects /\ h.keep \in BOOLEAN
           /\ IF h.object \in store THEN Grown(events, events', Deleted(h.object, h.keep))
              ELSE events' = events
<1>0. Typed /\ Singly BY DEF IInv
<1>1. tasks # <<>> /\ h.op = "delete" /\ tasks' = Tail(tasks) /\ UNCHANGED <<object, security, helper>>
  BY DEF _deleteDataObject, copyVars, helperVars
<1>2. h.object \in Objects /\ h.keep \in BOOLEAN /\ h = Delete(h.object, h.keep)
  BY <1>0, <1>1, HeadTask
<1>3. h \notin Inserts BY <1>2, Different DEF Inserts
<1>4. tasks' \in Seq(Tasks) /\ Shrunk(tasks, tasks', h) BY <1>0, <1>1, HeadTask
<1>5. Passes(tasks, tasks', {h}, {}, Inserts) BY <1>0, <1>4, PassTail DEF Singly
<1>6. PICK x : x = Deleted(h.object, h.keep) OBVIOUS
<1>7. x \in Events /\ x \notin WorkEvents BY <1>2, <1>6, Known, Different DEF AllTypes, WorkEvents
<1>8. /\ events' \in Seq(Events) /\ Passes(events, events', {}, {x}, WorkEvents)
      /\ IF h.object \in store THEN Grown(events, events', x) ELSE events' = events
  <2>1. CASE h.object \in store
    <3>1. events' = Append(events, x) BY <1>6, <2>1 DEF _deleteDataObject, Raise
    <3>2. events' \in Seq(Events) /\ Grown(events, events', x)
      BY <1>0, <1>7, <3>1, AppendGrows DEF Typed
    <3>3. Passes(events, events', {}, {x}, WorkEvents) BY <1>0, <1>7, <3>2, PassAppend DEF Singly
    <3>4. QED BY <2>1, <3>2, <3>3
  <2>2. CASE h.object \notin store
    <3>1. events' = events BY <2>2 DEF _deleteDataObject
    <3>2. Passes(events, events', {}, {}, WorkEvents) BY <3>1, Untouched
    <3>3. QED BY <1>0, <1>7, <2>2, <3>1, <3>2 DEF Typed, Passes
  <2>3. QED BY <2>1, <2>2
<1>9. Passes(security, security', {}, {}, Copies) /\ Passes(helper, helper', {}, {}, Copies)
  BY <1>1, Untouched
<1>10. /\ Singly'
       /\ \A d \in Copies : \A p : At(p, d)' <=>
            \/ p \in Work /\ ((At(p, d) /\ CopyEvent(p, d) \notin {}) \/ CopyEvent(p, d) \in {x})
            \/ p = "security" /\ ((At(p, d) /\ d \notin {}) \/ d \in {})
            \/ p = "helper" /\ ((At(p, d) /\ d \notin {}) \/ d \in {})
            \/ p = "tasks" /\ ((At(p, d) /\ Insert(d) \notin {h}) \/ Insert(d) \in {})
  BY <1>1, <1>5, <1>8, <1>9, Flow
<1>11. \A d \in Copies : Insert(d) # h BY <1>3 DEF Inserts
<1>12. \A d \in Copies : \A p \in Work : CopyEvent(p, d) # x BY <1>7 DEF WorkEvents
<1>13. \A d, p : At(p, d) => p \in Work \union {"security", "helper", "tasks"} BY DEF At
<1>14. Still BY <1>10, <1>11, <1>12, <1>13 DEF Still
<1>15. QED BY <1>2, <1>4, <1>6, <1>8, <1>14

-----------------------------------------------------------------------------
(* The kinds of steps.                                                     *)

\* A step that neither raises nor handles an announcement or a notice of an insertion,
\* and handles no deletion.
Undisturbed ==
    /\ \A c \in Copies : (Inc(c)' <=> Inc(c)) /\ (Ins(c)' <=> Ins(c))
    /\ \A o : Deletion(o) => Deletion(o)'
    /\ \A c \in Copies : (Failing(c) => Failing(c)') /\ (InOrder(c) => InOrder(c)')

\* Nothing happens to the event queue.
LEMMA KeptSame == ASSUME UNCHANGED <<object, events>> PROVE Undisturbed
BY DEF Undisturbed, Inc, Ins, Deletion, Failing, InOrder, CopyEvent

\* An event of another kind is raised.
LEMMA KeptGrown ==
    ASSUME UNCHANGED object, NEW x, Grown(events, events', x),
           \A c \in Copies : x # CopyEvent("INCOMING", c) /\ x # CopyEvent("INSERTED", c)
    PROVE  Undisturbed
<1>1. \A t, c : CopyEvent(t, c)' = CopyEvent(t, c) BY Fixed
<1>2. \A c \in Copies : (Inc(c)' <=> Inc(c)) /\ (Ins(c)' <=> Ins(c)) BY <1>1 DEF Inc, Ins, Grown
<1>3. \A o : Deletion(o) => Deletion(o)' BY DEF Deletion, Grown
<1>4. \A c \in Copies : Failing(c) => Failing(c)' BY <1>1 DEF Failing, Grown
<1>5. \A c \in Copies : InOrder(c) => InOrder(c)' BY <1>1 DEF InOrder, Once, Grown
<1>6. QED BY <1>2, <1>3, <1>4, <1>5 DEF Undisturbed

\* An event about a copy's next handler is handled, and another kind may be raised.
LEMMA KeptHandled ==
    ASSUME IInv, UNCHANGED object, events # <<>>, NEW h, h = Head(events), h.type \in Work,
           \/ events' = Tail(events)
           \/ \E x \in Events : /\ events' = Append(Tail(events), x)
                                /\ \A c \in Copies : /\ x # CopyEvent("INCOMING", c)
                                                     /\ x # CopyEvent("INSERTED", c)
    PROVE  Undisturbed
<1>1. \A t, c : CopyEvent(t, c)' = CopyEvent(t, c) BY Fixed
<1>2. PICK t : t = Tail(events) OBVIOUS
<1>3. /\ t \in Seq(Events) /\ Shrunk(events, t, h) /\ h.type \in AllTypes
      /\ h = CopyEvent(h.type, h.copy)
  BY <1>2, HeadEvent DEF IInv, AllTypes
<1>4. /\ \A c : CopyEvent("INCOMING", c) # h /\ CopyEvent("INSERTED", c) # h
      /\ \A o, k : Deleted(o, k) # h
  BY <1>3, Different DEF Work
<1>5. /\ \A e : Has(t, e) => Has(events, e)
      /\ \A e : Has(events, e) => Has(t, e) \/ e = h
      /\ \A a, b : Before(events, a, b) => Before(t, a, b)
      /\ \A a, b : Followed(events, a, b) => Followed(t, a, b)
  BY <1>3 DEF Shrunk
<1>6. CASE events' = t
  <2>1. \A c \in Copies : (Inc(c)' <=> Inc(c)) /\ (Ins(c)' <=> Ins(c))
    BY <1>1, <1>4, <1>5, <1>6 DEF Inc, Ins
  <2>2. \A o : Deletion(o) => Deletion(o)' BY <1>4, <1>5, <1>6 DEF Deletion
  <2>3. \A c \in Copies : Failing(c) => Failing(c)' BY <1>1, <1>5, <1>6 DEF Failing
  <2>4. \A c \in Copies : InOrder(c) => InOrder(c)' BY <1>1, <1>5, <1>6 DEF InOrder, Once
  <2>5. QED BY <2>1, <2>2, <2>3, <2>4 DEF Undisturbed
<1>7. ASSUME NEW x \in Events, events' = Append(t, x),
             \A c \in Copies : x # CopyEvent("INCOMING", c) /\ x # CopyEvent("INSERTED", c)
      PROVE  Undisturbed
  <2>0. Grown(t, events', x) BY <1>3, <1>7, AppendGrows
  <2>1. \A c \in Copies : (Inc(c)' <=> Inc(c)) /\ (Ins(c)' <=> Ins(c))
    BY <1>1, <1>4, <1>5, <1>7, <2>0 DEF Inc, Ins, Grown
  <2>2. \A o : Deletion(o) => Deletion(o)' BY <1>4, <1>5, <2>0 DEF Deletion, Grown
  <2>3. \A c \in Copies : Failing(c) => Failing(c)' BY <1>1, <1>5, <1>7, <2>0 DEF Failing, Grown
  <2>4. \A c \in Copies : InOrder(c) => InOrder(c)'
    BY <1>1, <1>5, <1>7, <2>0 DEF InOrder, Once, Grown
  <2>5. QED BY <2>1, <2>2, <2>3, <2>4 DEF Undisturbed
<1>8. QED BY <1>2, <1>6, <1>7

Queues ==
    /\ events \in Seq(Events) /\ tasks \in Seq(Tasks)
    /\ security \in Seq(Copies) /\ helper \in Seq(Copies)

aside == <<periodic, rx, object, duplicate, copies, filterVars, store, news, kept, deletes>>

\* A copy that waits is settled.
Settles(c, fate) ==
    /\ Moved(c, {}) /\ Settle(c, fate)
    /\ fate \in {"duplicate", "refused", "withheld"}
    /\ fate = "duplicate" => c \in duplicate
    /\ fate = "refused" => Deletion(object[c])'

\* It goes on to its next handler.
GoesOn(c, q) ==
    /\ Moved(c, {q}) /\ UNCHANGED outcome
    /\ q # "RECEIVED" /\ c \notin duplicate

Handover ==
    /\ Undisturbed /\ Queues' /\ UNCHANGED aside
    /\ \E c \in Copies : /\ \E p : At(p, c)
                         /\ ~Inc(c)
                         /\ (\E fate : Settles(c, fate)) \/ (\E q : GoesOn(c, q))

\* A copy that waits was announced, unless RECEIVED is behind its announcement.
LEMMA WaitingAnnounced ==
    ASSUME IInv, NEW c \in Copies, NEW p, At(p, c)
    PROVE  Inc(c) => p = "RECEIVED"
<1>1. outcome[c] = "acknowledged" BY DEF IInv, Fate, FateOf
<1>2. Inc(c) => At("RECEIVED", c) BY <1>1 DEF IInv, Announcement, AnnouncementOf
<1>3. QED BY <1>2 DEF IInv, Apart

\* The copy whose RECEIVED is handled was announced.
LEMMA ReceivedAnnounced ==
    ASSUME IInv, Handle("RECEIVED"), NEW h, h = Head(events)
    PROVE  /\ events # <<>> /\ h.type = "RECEIVED" /\ h.copy \in Copies
           /\ h.object = object[h.copy] /\ At("RECEIVED", h.copy) /\ ~Inc(h.copy)
<1>1. h.type = "RECEIVED" /\ events # <<>> BY DEF Handle
<1>2. PICK c, t : c = h.copy /\ t = Tail(events) OBVIOUS
<1>3. c \in Copies /\ At("RECEIVED", c) /\ h = CopyEvent("RECEIVED", c) BY <1>1, <1>2, AtHead DEF Work
<1>4. Shrunk(events, t, h) /\ h.object = object[c] BY <1>1, <1>2, HeadEvent DEF IInv, AllTypes, Work
<1>5. Before(events, CopyEvent("INCOMING", c), h) BY <1>3 DEF IInv, Announcement, AnnouncementOf, InOrder
<1>6. ~Has(t, CopyEvent("INCOMING", c)) BY <1>4, <1>5 DEF Shrunk
<1>7. CopyEvent("INCOMING", c) # h BY <1>3, Different
<1>8. ~Inc(c) BY <1>4, <1>6, <1>7 DEF Shrunk, Inc
<1>9. QED BY <1>1, <1>2, <1>3, <1>4, <1>8

\* An event of one kind is not of another.
LEMMA OtherKinds ==
    /\ \A c, d : \A t \in Work : CopyEvent(t, c) # CopyEvent("INCOMING", d)
                                 /\ CopyEvent(t, c) # CopyEvent("INSERTED", d)
    /\ \A o, k, d : /\ Deleted(o, k) # CopyEvent("INCOMING", d)
                    /\ Deleted(o, k) # CopyEvent("INSERTED", d)
                    /\ Deleted(o, k) \notin WorkEvents
    /\ \A c \in Copies : /\ CopyEvent("INCOMING", c) \notin WorkEvents
                         /\ CopyEvent("INSERTED", c) \notin WorkEvents
<1>1. "INCOMING" \notin Work /\ "INSERTED" \notin Work BY DEF Work
<1>2. Work \subseteq AllTypes /\ "INCOMING" \in AllTypes /\ "INSERTED" \in AllTypes BY DEF AllTypes
<1>3. QED BY <1>1, <1>2, Different DEF WorkEvents

\* SecurityManager::onReceivedDataObject hands a copy over or settles it.
LEMMA ReceivedHandover ==
    ASSUME IInv, onReceivedDuplicate \/ onReceivedDataObject \/ onReceivedWithoutCapability
    PROVE  Handover
<1>0. Handle("RECEIVED") BY DEF onReceivedDuplicate, onReceivedDataObject, onReceivedWithoutCapability
<1>1. PICK h, c : h = Head(events) /\ c = Head(events).copy OBVIOUS
<1>2. /\ events # <<>> /\ h.type = "RECEIVED" /\ c \in Copies /\ h.copy = c
      /\ h.object = object[c] /\ At("RECEIVED", c) /\ ~Inc(c) /\ "RECEIVED" \in Work
  BY <1>0, <1>1, ReceivedAnnounced DEF Work
<1>3. UNCHANGED aside /\ UNCHANGED <<object, helper, tasks>>
  BY DEF onReceivedDuplicate, onReceivedDataObject, onReceivedWithoutCapability, aside, helperVars,
         storeVars, filterVars
<1>4. Queues BY DEF IInv, Typed, TypeOK, Queues
<1>5. object[c] \in Objects BY <1>2 DEF IInv, Typed, TypeOK
<1>6. ASSUME events' = Tail(events), UNCHANGED security, NEW fate \in {"duplicate", "withheld"},
             fate = "duplicate" => c \in duplicate, Settle(c, fate)
      PROVE  Handover
  <2>1. events' \in Seq(Events) /\ Moved(c, {}) BY <1>1, <1>2, <1>3, <1>6, HandleEnds
  <2>2. Undisturbed BY <1>1, <1>2, <1>3, <1>6, KeptHandled
  <2>3. Settles(c, fate) BY <1>6, <2>1 DEF Settles
  <2>4. Queues' BY <1>3, <1>4, <1>6, <2>1, Fixed DEF Queues
  <2>5. QED BY <1>2, <1>3, <2>2, <2>3, <2>4 DEF Handover
<1>7. CASE onReceivedDuplicate
  <2>1. /\ events' = Tail(events) /\ UNCHANGED security /\ c \in duplicate /\ Settle(c, "duplicate")
    BY <1>1, <1>7 DEF onReceivedDuplicate, helperVars
  <2>2. QED BY <1>6, <2>1
<1>8. CASE onReceivedWithoutCapability
  <2>1. /\ events' = Tail(events) /\ UNCHANGED security /\ Settle(c, "withheld")
    BY <1>1, <1>8 DEF onReceivedWithoutCapability, helperVars
  <2>2. QED BY <1>6, <2>1
<1>9. CASE onReceivedDataObject
  <2>0. c \notin duplicate BY <1>1, <1>9 DEF onReceivedDataObject
  <2>1. CASE events' = Append(Tail(events), CopyEvent("VERIFIED", c)) /\ UNCHANGED <<outcome, security>>
    <3>0. "VERIFIED" \in Work BY DEF Work
    <3>1. events' \in Seq(Events) /\ Moved(c, {"VERIFIED"})
      BY <1>1, <1>2, <1>3, <2>1, <3>0, HandlePasses
    <3>2. CopyEvent("VERIFIED", c) \in Events BY <1>2, <3>0, Known DEF AllTypes
    <3>3. Undisturbed BY <1>1, <1>2, <1>3, <2>1, <3>0, <3>2, KeptHandled, OtherKinds
    <3>4. GoesOn(c, "VERIFIED") BY <2>0, <2>1, <3>1 DEF GoesOn
    <3>5. Queues' BY <1>3, <1>4, <2>1, <3>1, Fixed DEF Queues
    <3>6. QED BY <1>2, <1>3, <3>3, <3>4, <3>5 DEF Handover
  <2>2. CASE security' = Append(security, c) /\ events' = Tail(events) /\ UNCHANGED outcome
    <3>1. events' \in Seq(Events) /\ Moved(c, {"security"}) /\ security' \in Seq(Copies)
      BY <1>1, <1>2, <1>3, <2>2, HandleHands
    <3>3. Undisturbed BY <1>1, <1>2, <1>3, <2>2, KeptHandled
    <3>4. GoesOn(c, "security") BY <2>0, <2>2, <3>1 DEF GoesOn
    <3>5. Queues' BY <1>3, <1>4, <2>2, <3>1, Fixed DEF Queues
    <3>6. QED BY <1>2, <1>3, <3>3, <3>4, <3>5 DEF Handover
  <2>3. CASE /\ events' = Append(Tail(events), Deleted(object[c], FALSE))
             /\ Settle(c, "refused") /\ UNCHANGED security
    <3>0. PICK x : x = Deleted(object[c], FALSE) OBVIOUS
    <3>1. x \in Events /\ x \notin WorkEvents BY <1>5, <3>0, Known, OtherKinds
    <3>2. events' \in Seq(Events) /\ Moved(c, {})
      BY <1>1, <1>2, <1>3, <2>3, <3>0, <3>1, HandleEnds
    <3>9. \A d \in Copies : x # CopyEvent("INCOMING", d) /\ x # CopyEvent("INSERTED", d)
      BY <3>0, OtherKinds
    <3>10. events' = Append(Tail(events), x) BY <2>3, <3>0
    <3>3. Undisturbed BY <1>1, <1>2, <1>3, <3>1, <3>9, <3>10, KeptHandled
    <3>4. Has(events', x)
      <4>1. PICK t : t = Tail(events) OBVIOUS
      <4>2. t \in Seq(Events) BY <1>1, <1>2, <4>1, HeadEvent DEF IInv
      <4>3. Grown(t, events', x) BY <2>3, <3>0, <3>1, <4>1, <4>2, AppendGrows
      <4>4. QED BY <4>3 DEF Grown
    <3>5. Deletion(object[c])' BY <1>3, <3>0, <3>4 DEF Deletion
    <3>6. Settles(c, "refused") BY <2>3, <3>2, <3>5 DEF Settles
    <3>7. Queues' BY <1>3, <1>4, <2>3, <3>2, Fixed DEF Queues
    <3>8. QED BY <1>2, <1>3, <3>3, <3>6, <3>7 DEF Handover
  <2>4. QED BY <1>1, <1>2, <1>9, <2>1, <2>2, <2>3 DEF onReceivedDataObject
<1>10. QED BY <1>7, <1>8, <1>9

\* A helper thread's verdict hands a copy over or settles it.
LEMMA HelperHandover ==
    ASSUME IInv, UNCHANGED <<object, tasks>>, UNCHANGED aside,
           NEW from \in {"security", "helper"}, NEW to \in Work \ {"RECEIVED"}, NEW c,
           from = "security" => /\ security # <<>> /\ c = Head(security)
                                /\ security' = Tail(security) /\ UNCHANGED helper,
           from = "helper" => /\ helper # <<>> /\ c = Head(helper)
                              /\ helper' = Tail(helper) /\ UNCHANGED security,
           \/ Raise(CopyEvent(to, c)) /\ UNCHANGED outcome
           \/ Raise(Deleted(object[c], FALSE)) /\ Settle(c, "refused")
    PROVE  Handover
<1>0. Queues BY DEF IInv, Typed, TypeOK, Queues
<1>1. c \in Copies /\ At(from, c) BY AtHead
<1>2. from # "RECEIVED" OBVIOUS
<1>3. ~Inc(c) BY <1>1, <1>2, WaitingAnnounced
<1>4. c \notin duplicate BY <1>1, <1>2 DEF IInv, Fate, FateOf
<1>5. object[c] \in Objects BY <1>1 DEF IInv, Typed, TypeOK
<1>6. CASE Raise(CopyEvent(to, c)) /\ UNCHANGED outcome
  <2>0. PICK x : x = CopyEvent(to, c) OBVIOUS
  <2>1. x \in Events BY <1>1, <2>0, Known DEF AllTypes
  <2>2. events' = Append(events, x) BY <1>6, <2>0 DEF Raise
  <2>3. /\ Moved(c, {to}) /\ events' \in Seq(Events) /\ security' \in Seq(Copies)
        /\ helper' \in Seq(Copies) /\ Grown(events, events', x)
    BY <2>0, <2>1, <2>2, HelperRaises
  <2>4. \A d \in Copies : x # CopyEvent("INCOMING", d) /\ x # CopyEvent("INSERTED", d)
    BY <2>0, OtherKinds
  <2>5. Undisturbed BY <2>3, <2>4, KeptGrown
  <2>6. GoesOn(c, to) BY <1>4, <1>6, <2>3 DEF GoesOn
  <2>7. Queues' BY <1>0, <2>3, Fixed DEF Queues
  <2>8. QED BY <1>1, <1>3, <2>5, <2>6, <2>7 DEF Handover
<1>7. CASE Raise(Deleted(object[c], FALSE)) /\ Settle(c, "refused")
  <2>0. PICK x : x = Deleted(object[c], FALSE) OBVIOUS
  <2>1. x \in Events /\ x \notin WorkEvents BY <1>5, <2>0, Known, OtherKinds
  <2>2. events' = Append(events, x) BY <1>7, <2>0 DEF Raise
  <2>3. /\ Moved(c, {}) /\ events' \in Seq(Events) /\ security' \in Seq(Copies)
        /\ helper' \in Seq(Copies) /\ Grown(events, events', x)
    BY <2>0, <2>1, <2>2, HelperRaises
  <2>4. \A d \in Copies : x # CopyEvent("INCOMING", d) /\ x # CopyEvent("INSERTED", d)
    BY <2>0, OtherKinds
  <2>5. Undisturbed BY <2>3, <2>4, KeptGrown
  <2>6. Deletion(object[c])' BY <2>0, <2>3 DEF Deletion, Grown
  <2>7. Settles(c, "refused") BY <1>7, <2>3, <2>6 DEF Settles
  <2>8. Queues' BY <1>0, <2>3, Fixed DEF Queues
  <2>9. QED BY <1>1, <1>3, <2>5, <2>7, <2>8 DEF Handover
<1>8. QED BY <1>6, <1>7

\* DataManager hands a verified copy over to its helper or to the data store.
LEMMA VerifiedHandover ==
    ASSUME IInv, onVerifiedDataObject \/ onDataTaskComplete
    PROVE  Handover
<1>1. PICK h, c : h = Head(events) /\ c = Head(events).copy OBVIOUS
<1>2. events # <<>> /\ h.type \in Work \ {"RECEIVED"} /\ events' = Tail(events)
  BY <1>1 DEF onVerifiedDataObject, onDataTaskComplete, Handle, Work
<1>3. h.copy = c /\ c \in Copies /\ At(h.type, c) BY <1>1, <1>2, AtHead
<1>4. ~Inc(c) /\ c \notin duplicate BY <1>2, <1>3, WaitingAnnounced DEF IInv, Fate, FateOf
<1>5. UNCHANGED aside /\ UNCHANGED <<object, outcome, security>>
  BY DEF onVerifiedDataObject, onDataTaskComplete, aside, copyVars, helperVars, filterVars
<1>6. InsertTask(c) => tasks' = Append(tasks, Insert(c)) BY DEF InsertTask, Insert
<1>7. \E to \in {"helper", "tasks"} :
         /\ helper' = IF to = "helper" THEN Append(helper, c) ELSE helper
         /\ tasks' = IF to = "tasks" THEN Append(tasks, Insert(c)) ELSE tasks
  <2>1. \/ helper' = Append(helper, c) /\ UNCHANGED tasks
        \/ tasks' = Append(tasks, Insert(c)) /\ UNCHANGED helper
    BY <1>1, <1>6 DEF onVerifiedDataObject, onDataTaskComplete, helperVars
  <2>2. CASE helper' = Append(helper, c) /\ UNCHANGED tasks BY <2>2
  <2>3. CASE tasks' = Append(tasks, Insert(c)) /\ UNCHANGED helper BY <2>3
  <2>4. QED BY <2>1, <2>2, <2>3
<1>8. PICK to \in {"helper", "tasks"} :
         /\ helper' = IF to = "helper" THEN Append(helper, c) ELSE helper
         /\ tasks' = IF to = "tasks" THEN Append(tasks, Insert(c)) ELSE tasks
  BY <1>7
<1>9. to # "security" /\ to # "RECEIVED" OBVIOUS
<1>10. security' = IF to = "security" THEN Append(security, h.copy) ELSE security BY <1>5, <1>9
<1>11. /\ events' \in Seq(Events) /\ Moved(h.copy, {to})
       /\ security' \in Seq(Copies) /\ helper' \in Seq(Copies) /\ tasks' \in Seq(Tasks)
  BY <1>1, <1>2, <1>3, <1>5, <1>8, <1>10, HandleHands
<1>12. Undisturbed BY <1>1, <1>2, <1>5, KeptHandled
<1>13. GoesOn(c, to) BY <1>3, <1>4, <1>5, <1>9, <1>11 DEF GoesOn
<1>14. Queues' BY <1>5, <1>11, Fixed DEF Queues
<1>15. QED BY <1>3, <1>4, <1>5, <1>12, <1>13, <1>14 DEF Handover

\* The steps that move a copy on, but for the first and the last one.
Handlers ==
    \/ onReceivedDuplicate \/ onReceivedDataObject \/ onReceivedWithoutCapability
    \/ onSecurityTaskComplete \/ onVerifiedDataObject \/ VerifyData \/ onDataTaskComplete

\* Each of them hands a copy over.
LEMMA HandlersHandOver == ASSUME IInv, Handlers PROVE Handover
<1>1. CASE onReceivedDuplicate \/ onReceivedDataObject \/ onReceivedWithoutCapability
  BY <1>1, ReceivedHandover
<1>2. CASE onVerifiedDataObject \/ onDataTaskComplete BY <1>2, VerifiedHandover
<1>3. CASE onSecurityTaskComplete
  <2>1. PICK c : c = Head(security) OBVIOUS
  <2>2. /\ UNCHANGED <<object, tasks, helper>> /\ UNCHANGED aside
        /\ security # <<>> /\ security' = Tail(security)
        /\ \/ Raise(CopyEvent("VERIFIED", c)) /\ UNCHANGED outcome
           \/ Raise(Deleted(object[c], FALSE)) /\ Settle(c, "refused")
    BY <1>3, <2>1 DEF onSecurityTaskComplete, aside, storeVars, filterVars
  <2>3. "VERIFIED" \in Work \ {"RECEIVED"} BY DEF Work
  <2>4. QED BY <2>1, <2>2, <2>3, HelperHandover
<1>4. CASE VerifyData
  <2>1. PICK c : c = Head(helper) OBVIOUS
  <2>2. /\ UNCHANGED <<object, tasks, security>> /\ UNCHANGED aside
        /\ helper # <<>> /\ helper' = Tail(helper)
        /\ \/ Raise(CopyEvent("DATA_TASK", c)) /\ UNCHANGED outcome
           \/ Raise(Deleted(object[c], FALSE)) /\ Settle(c, "refused")
    BY <1>4, <2>1 DEF VerifyData, aside, storeVars, filterVars
  <2>3. "DATA_TASK" \in Work \ {"RECEIVED"} BY DEF Work
  <2>4. QED BY <2>1, <2>2, <2>3, HelperHandover
<1>5. QED BY <1>1, <1>2, <1>3, <1>4 DEF Handlers

\* A step that touches no queue.
LEMMA Calm ==
    ASSUME IInv, UNCHANGED <<object, events, security, helper, tasks>>
    PROVE  Still /\ Undisturbed /\ Queues'
<1>1. Undisturbed BY KeptSame
<1>2. Queues BY DEF IInv, Typed, TypeOK, Queues
<1>3. Queues' BY <1>2, Fixed DEF Queues
<1>4. \A d : \A p : At(p, d)' <=> At(p, d) BY Fixed DEF At
<1>5. WorkEvents' = WorkEvents /\ Inserts' = Inserts BY Fixed DEF WorkEvents, Inserts
<1>6. Singly' BY <1>5 DEF IInv, Singly
<1>7. QED BY <1>1, <1>3, <1>4, <1>6 DEF Still

\* A thread announces its copy.
LEMMA RaiseIncomingStill ==
    ASSUME IInv, NEW r \in Receivers, RaiseIncoming(r), NEW c, c = rx[r].copy
    PROVE  /\ c \in Copies /\ Early(c) /\ Still /\ Queues'
           /\ Grown(events, events', CopyEvent("INCOMING", c))
<1>1. c \in Copies /\ Early(c) BY DEF IInv, Typed, Threads, RaiseIncoming, Early
<1>2. PICK x : x = CopyEvent("INCOMING", c) OBVIOUS
<1>3. x \in Events /\ x \notin WorkEvents BY <1>1, <1>2, Known, OtherKinds DEF AllTypes
<1>4. events' = Append(events, x) /\ UNCHANGED <<object, security, helper, tasks>>
  BY <1>2 DEF RaiseIncoming, Raise, copyVars, helperVars, storeVars
<1>5. events' \in Seq(Events) /\ Grown(events, events', x) /\ Still BY <1>3, <1>4, RaiseStill
<1>6. Queues' BY <1>4, <1>5, Fixed DEF IInv, Typed, TypeOK, Queues
<1>7. QED BY <1>1, <1>2, <1>5, <1>6

\* A transfer fails.
LEMMA ReceiveFailsStill ==
    ASSUME IInv, NEW r \in Receivers, ReceiveFails(r), NEW c, c = rx[r].copy
    PROVE  /\ c \in Copies /\ Receiving(c) /\ Still /\ Queues' /\ Undisturbed
           /\ Grown(events, events', Deleted(object[c], FALSE))
<1>1. c \in Copies /\ Receiving(c) BY DEF IInv, Typed, Threads, ReceiveFails, Receiving
<1>2. PICK x : x = Deleted(object[c], FALSE) OBVIOUS
<1>3. object[c] \in Objects BY <1>1 DEF IInv, Typed, TypeOK
<1>4. x \in Events /\ x \notin WorkEvents BY <1>2, <1>3, Known, OtherKinds
<1>5. events' = events \o <<x>> /\ UNCHANGED <<object, security, helper, tasks>>
  BY <1>2 DEF ReceiveFails, FailureEvents, helperVars, storeVars
<1>6. events' = Append(events, x) BY <1>4, <1>5 DEF IInv, Typed
<1>7. events' \in Seq(Events) /\ Grown(events, events', x) /\ Still BY <1>4, <1>5, <1>6, RaiseStill
<1>8. Queues' BY <1>5, <1>7, Fixed DEF IInv, Typed, TypeOK, Queues
<1>9. \A d \in Copies : x # CopyEvent("INCOMING", d) /\ x # CopyEvent("INSERTED", d)
  BY <1>2, OtherKinds
<1>10. Undisturbed BY <1>5, <1>7, <1>9, KeptGrown
<1>11. QED BY <1>1, <1>2, <1>7, <1>8, <1>10

\* An announcement or the notice of an insertion is handled.
LEMMA NoticeStill ==
    ASSUME IInv, NEW type \in {"INCOMING", "INSERTED"}, Handle(type), events' = Tail(events),
           UNCHANGED <<object, security, helper, tasks>>, NEW c, c = Head(events).copy
    PROVE  /\ c \in Copies /\ Head(events).object = object[c] /\ Still /\ Queues'
           /\ Shrunk(events, events', CopyEvent(type, c))
<1>1. PICK h, t : h = Head(events) /\ t = Tail(events) OBVIOUS
<1>2. events # <<>> /\ h.type = type BY <1>1 DEF Handle
<1>3. c \in Copies /\ h.object = object[c] /\ h = CopyEvent(type, c)
  BY <1>1, <1>2, HeadEvent DEF IInv, AllTypes
<1>4. h \notin WorkEvents BY <1>3, OtherKinds
<1>5. events' \in Seq(Events) /\ Shrunk(events, events', h) /\ Still BY <1>1, <1>2, <1>4, HandleStill
<1>6. Queues' BY <1>5, Fixed DEF IInv, Typed, TypeOK, Queues
<1>7. QED BY <1>1, <1>3, <1>5, <1>6

\* The notice of a deletion is handled.
LEMMA DeletedStill ==
    ASSUME IInv, onDeletedDataObject, NEW h, h = Head(events)
    PROVE  /\ h.object \in Objects /\ h.keep \in BOOLEAN /\ Still /\ Queues'
           /\ Shrunk(events, events', Deleted(h.object, h.keep))
           /\ \A c \in Copies : (Inc(c)' <=> Inc(c)) /\ (Ins(c)' <=> Ins(c))
           /\ \A c \in Copies : (Failing(c) => Failing(c)') /\ (InOrder(c) => InOrder(c)')
<1>1. /\ events # <<>> /\ h.type = "DELETED" /\ events' = Tail(events)
      /\ UNCHANGED <<object, security, helper, tasks>>
  BY DEF onDeletedDataObject, Handle, copyVars, helperVars, storeVars
<1>2. PICK t : t = Tail(events) OBVIOUS
<1>3. h.object \in Objects /\ h.keep \in BOOLEAN /\ h = Deleted(h.object, h.keep)
  BY <1>1, <1>2, HeadEvent DEF IInv
<1>4. h \notin WorkEvents BY <1>3, OtherKinds
<1>5. events' \in Seq(Events) /\ Shrunk(events, events', h) /\ Still BY <1>1, <1>4, HandleStill
<1>6. Queues' BY <1>1, <1>5, Fixed DEF IInv, Typed, TypeOK, Queues
<1>7. \A c : CopyEvent("INCOMING", c) # h /\ CopyEvent("INSERTED", c) # h BY <1>3, OtherKinds
<1>8. \A u, c : CopyEvent(u, c)' = CopyEvent(u, c) BY <1>1, Fixed
<1>9. \A c \in Copies : (Inc(c)' <=> Inc(c)) /\ (Ins(c)' <=> Ins(c))
  BY <1>5, <1>7, <1>8 DEF Inc, Ins, Shrunk
<1>10. \A c \in Copies : (Failing(c) => Failing(c)') /\ (InOrder(c) => InOrder(c)')
  BY <1>1, <1>5, <1>8 DEF Failing, InOrder, Once, Shrunk
<1>11. QED BY <1>3, <1>5, <1>6, <1>9, <1>10

-----------------------------------------------------------------------------
(* Every step preserves the invariant.                                     *)

\* Every step is of one of these kinds.
LEMMA Kinds ==
    Next => \/ Handlers \/ _insertDataObject \/ _deleteDataObject
            \/ onIncomingDataObject \/ onInsertedDataObject \/ onDeletedDataObject
            \/ onPeriodicBloomfilterUpdate
            \/ \E o \in Objects, keep \in BOOLEAN : deleteDataObject(o, keep)
            \/ \E r \in Receivers : TestFilter(r) \/ Accept(r) \/ RaiseIncoming(r)
                                    \/ ReceiveDone(r) \/ ReceiveFails(r)
BY DEF Next, Protocols, HandleEvent, DataStoreRun, Handlers

\* A copy that waits goes to one place at most.
LEMMA ApartStep == ASSUME IInv, Next PROVE Apart' /\ Singly' /\ Queues' /\ UNCHANGED <<object, periodic>>
<1>0. Apart BY DEF IInv
<1>1. Still => Apart' /\ Singly' BY <1>0 DEF Still, Apart
<1>2. ASSUME NEW c \in Copies, NEW Q, Moved(c, Q), \A p, q \in Q : p = q PROVE Apart' /\ Singly'
  BY <1>0, <1>2 DEF Moved, Apart
<1>3. CASE Handlers
  <2>1. Handover BY <1>3, HandlersHandOver
  <2>2. PICK c \in Copies : (\E fate : Settles(c, fate)) \/ (\E q : GoesOn(c, q))
    BY <2>1 DEF Handover
  <2>3. \E Q : Moved(c, Q) /\ \A p, q \in Q : p = q
    <3>1. CASE \E fate : Settles(c, fate)
      <4>1. Moved(c, {}) BY <3>1 DEF Settles
      <4>2. QED BY <4>1
    <3>2. CASE \E q : GoesOn(c, q)
      <4>1. PICK q : Moved(c, {q}) BY <3>2 DEF GoesOn
      <4>2. QED BY <4>1
    <3>3. QED BY <2>2, <3>1, <3>2
  <2>4. QED BY <1>2, <2>1, <2>3 DEF Handover, aside
<1>4. CASE _insertDataObject
  <2>1. PICK h, c : h = Head(tasks) /\ c = h.copy OBVIOUS
  <2>2. c \in Copies /\ Moved(c, {}) /\ events' \in Seq(Events) /\ tasks' \in Seq(Tasks)
    BY <1>4, <2>1, InsertMoves
  <2>3. UNCHANGED <<object, security, helper, periodic>> BY <1>4 DEF _insertDataObject, helperVars
  <2>4. Queues' BY <2>2, <2>3, Fixed DEF IInv, Typed, TypeOK, Queues
  <2>5. QED BY <1>2, <2>2, <2>3, <2>4
<1>5. CASE _deleteDataObject
  <2>1. PICK h : h = Head(tasks) OBVIOUS
  <2>2. Still /\ events' \in Seq(Events) /\ tasks' \in Seq(Tasks) BY <1>5, <2>1, _deleteDataObjectStill
  <2>3. UNCHANGED <<object, security, helper, periodic>>
    BY <1>5 DEF _deleteDataObject, helperVars, copyVars
  <2>4. Queues' BY <2>2, <2>3, Fixed DEF IInv, Typed, TypeOK, Queues
  <2>5. QED BY <1>1, <2>2, <2>3, <2>4
<1>6. CASE onIncomingDataObject \/ onInsertedDataObject
  <2>1. PICK c : c = Head(events).copy OBVIOUS
  <2>2. /\ Handle("INCOMING") \/ Handle("INSERTED")
        /\ events' = Tail(events) /\ UNCHANGED <<object, security, helper, tasks, periodic>>
    BY <1>6 DEF onIncomingDataObject, onInsertedDataObject, helperVars, storeVars, copyVars
  <2>3. Still /\ Queues' BY <2>1, <2>2, NoticeStill
  <2>4. QED BY <1>1, <2>2, <2>3
<1>7. CASE onDeletedDataObject
  <2>1. PICK h : h = Head(events) OBVIOUS
  <2>2. Still /\ Queues' BY <1>7, <2>1, DeletedStill
  <2>3. UNCHANGED <<object, periodic>> BY <1>7 DEF onDeletedDataObject, copyVars
  <2>4. QED BY <1>1, <2>2, <2>3
<1>8. ASSUME NEW o \in Objects, NEW keep \in BOOLEAN, deleteDataObject(o, keep)
      PROVE  Apart' /\ Singly' /\ Queues' /\ UNCHANGED <<object, periodic>>
  <2>1. Still /\ tasks' \in Seq(Tasks) BY <1>8, deleteDataObjectStill
  <2>2. UNCHANGED <<object, periodic, events, security, helper>>
    BY <1>8 DEF deleteDataObject, copyVars, helperVars
  <2>3. Queues' BY <2>1, <2>2, Fixed DEF IInv, Typed, TypeOK, Queues
  <2>4. QED BY <1>1, <2>1, <2>2, <2>3
<1>9. CASE onPeriodicBloomfilterUpdate
  <2>1. UNCHANGED <<object, events, security, helper, tasks, periodic>>
    BY <1>9 DEF onPeriodicBloomfilterUpdate, copyVars, helperVars, storeVars
  <2>2. QED BY <1>1, <2>1, Calm
<1>10. ASSUME NEW r \in Receivers, TestFilter(r) \/ Accept(r)
       PROVE  Apart' /\ Singly' /\ Queues' /\ UNCHANGED <<object, periodic>>
  <2>1. UNCHANGED <<object, events, security, helper, tasks, periodic>>
    BY <1>10 DEF TestFilter, Accept, copyVars, helperVars, storeVars
  <2>2. QED BY <1>1, <2>1, Calm
<1>11. ASSUME NEW r \in Receivers, RaiseIncoming(r) \/ ReceiveFails(r)
       PROVE  Apart' /\ Singly' /\ Queues' /\ UNCHANGED <<object, periodic>>
  <2>1. PICK c : c = rx[r].copy OBVIOUS
  <2>2. Still /\ Queues' BY <1>11, <2>1, RaiseIncomingStill, ReceiveFailsStill
  <2>3. UNCHANGED <<object, periodic>> BY <1>11 DEF RaiseIncoming, ReceiveFails, copyVars
  <2>4. QED BY <1>1, <2>2, <2>3
<1>12. ASSUME NEW r \in Receivers, ReceiveDone(r)
       PROVE  Apart' /\ Singly' /\ Queues' /\ UNCHANGED <<object, periodic>>
  <2>1. PICK c : c = rx[r].copy OBVIOUS
  <2>2. c \in Copies /\ events' \in Seq(Events) /\ Moved(c, {"RECEIVED"})
    BY <1>12, <2>1, ReceiveDoneMoves
  <2>3. UNCHANGED <<object, security, helper, tasks, periodic>>
    BY <1>12 DEF ReceiveDone, helperVars, storeVars
  <2>4. Queues' BY <2>2, <2>3, Fixed DEF IInv, Typed, TypeOK, Queues
  <2>5. QED BY <1>2, <2>2, <2>3, <2>4
<1>13. QED BY <1>3, <1>4, <1>5, <1>6, <1>7, <1>8, <1>9, <1>10, <1>11, <1>12, Kinds

\* A thread starts or goes on with a copy.
LEMMA ThreadGoesOn ==
    ASSUME IInv, NEW r \in Receivers, NEW c \in Copies, NEW label \in {"tested", "accepted", "receiving"},
           Step(r, label, c),
           \/ rx[r].pc = "idle" /\ ~Receiving(c)
           \/ rx[r].pc # "idle" /\ rx[r].copy = c
    PROVE  /\ Threads' /\ Receiving(c)' /\ (Early(c)' <=> label # "receiving")
           /\ \A d : d # c => (Receiving(d)' <=> Receiving(d)) /\ (Early(d)' <=> Early(d))
           /\ rx' \in [Receivers -> [pc : {"idle", "tested", "accepted", "receiving"},
                                     copy : Copies \union {NoCopy}]]
<1>1. /\ rx \in [Receivers -> [pc : {"idle", "tested", "accepted", "receiving"},
                               copy : Copies \union {NoCopy}]]
      /\ Threads
  BY DEF IInv, Typed, TypeOK
<1>2. /\ rx'[r].pc = label /\ rx'[r].copy = c
      /\ \A u \in Receivers : u # r => rx'[u] = rx[u]
  BY <1>1 DEF Step
<1>3. \A u \in Receivers : u # r /\ rx[u].pc # "idle" => rx[u].copy # c
  BY <1>1 DEF Threads, Receiving
<1>4. Threads' BY <1>1, <1>2, <1>3 DEF Threads
<1>5. Receiving(c)' BY <1>2 DEF Receiving
<1>6. Early(c)' <=> label # "receiving" BY <1>2, <1>3 DEF Early
<1>7. ASSUME NEW d, d # c PROVE (Receiving(d)' <=> Receiving(d)) /\ (Early(d)' <=> Early(d))
  BY <1>2, <1>7 DEF Receiving, Early
<1>8. QED BY <1>1, <1>4, <1>5, <1>6, <1>7 DEF Step

\* A thread is done with its copy.
LEMMA ThreadEnds ==
    ASSUME IInv, NEW r \in Receivers, NEW c, rx[r].pc # "idle", rx[r].copy = c, Step(r, "idle", NoCopy)
    PROVE  /\ Threads' /\ ~Receiving(c)' /\ ~Early(c)'
           /\ \A d : d # c => (Receiving(d)' <=> Receiving(d)) /\ (Early(d)' <=> Early(d))
           /\ rx' \in [Receivers -> [pc : {"idle", "tested", "accepted", "receiving"},
                                     copy : Copies \union {NoCopy}]]
<1>1. /\ rx \in [Receivers -> [pc : {"idle", "tested", "accepted", "receiving"},
                               copy : Copies \union {NoCopy}]]
      /\ Threads
  BY DEF IInv, Typed, TypeOK
<1>2. /\ rx'[r].pc = "idle"
      /\ \A u \in Receivers : u # r => rx'[u] = rx[u]
  BY <1>1 DEF Step
<1>3. \A u \in Receivers : u # r /\ rx[u].pc # "idle" => rx[u].copy # c BY <1>1 DEF Threads
<1>4. Threads' BY <1>1, <1>2 DEF Threads
<1>5. ~Receiving(c)' /\ ~Early(c)' BY <1>2, <1>3 DEF Receiving, Early
<1>6. ASSUME NEW d, d # c PROVE (Receiving(d)' <=> Receiving(d)) /\ (Early(d)' <=> Early(d))
  BY <1>2, <1>6 DEF Receiving, Early
<1>7. QED BY <1>1, <1>4, <1>5, <1>6 DEF Step

\* The copy a transfer starts with is a new one.
LEMMA NewCopy ==
    ASSUME IInv, NEW r \in Receivers, TestFilter(r), NEW c, c = copies + 1
    PROVE  /\ c \in Copies /\ outcome[c] = "unused" /\ ~Receiving(c) /\ ~Inc(c) /\ c \notin duplicate
           /\ ~Ins(c) /\ c \notin news /\ \A p : ~At(p, c)
<1>1. copies \in Nat /\ copies < MaxCopies BY DEF IInv, Typed, TypeOK, TestFilter
<1>2. c \in Copies /\ c > copies BY <1>1 DEF Copies
<1>3. FateOf(c) /\ AnnouncementOf(c) BY <1>2 DEF IInv, Fate, Announcement
<1>4. outcome[c] = "unused" BY <1>2, <1>3 DEF FateOf
<1>5. QED BY <1>2, <1>3, <1>4 DEF FateOf, AnnouncementOf

\* What a thread does to rx.
LEMMA ThreadSteps ==
    ASSUME IInv, NEW r \in Receivers
    PROVE  /\ \A c : TestFilter(r) /\ c = copies + 1 =>
                /\ Threads' /\ Receiving(c)' /\ Early(c)'
                /\ \A d : d # c => (Receiving(d)' <=> Receiving(d)) /\ (Early(d)' <=> Early(d))
           /\ \A c : Accept(r) /\ c = rx[r].copy =>
                /\ Threads' /\ c \in Copies /\ Receiving(c) /\ Early(c)
                /\ \A d : (Receiving(d)' <=> Receiving(d)) /\ (Early(d)' <=> Early(d))
           /\ \A c : RaiseIncoming(r) /\ c = rx[r].copy =>
                /\ Threads' /\ c \in Copies /\ Receiving(c) /\ Early(c)
                /\ ~Early(c)' /\ Receiving(c)'
                /\ \A d : d # c => (Receiving(d)' <=> Receiving(d)) /\ (Early(d)' <=> Early(d))
           /\ \A c : (ReceiveDone(r) \/ ReceiveFails(r)) /\ c = rx[r].copy =>
                /\ Threads' /\ c \in Copies /\ Receiving(c) /\ ~Early(c)
                /\ ~Receiving(c)' /\ ~Early(c)'
                /\ \A d : d # c => (Receiving(d)' <=> Receiving(d)) /\ (Early(d)' <=> Early(d))
<1>0. Threads BY DEF IInv, Typed
<1>1. ASSUME NEW c, TestFilter(r), c = copies + 1
      PROVE  /\ Threads' /\ Receiving(c)' /\ Early(c)'
             /\ \A d : d # c => (Receiving(d)' <=> Receiving(d)) /\ (Early(d)' <=> Early(d))
  <2>1. c \in Copies /\ ~Receiving(c) BY <1>1, NewCopy
  <2>2. rx[r].pc = "idle" /\ Step(r, "tested", c) BY <1>1 DEF TestFilter
  <2>3. QED BY <2>1, <2>2, ThreadGoesOn
<1>2. ASSUME NEW c, Accept(r), c = rx[r].copy
      PROVE  /\ Threads' /\ c \in Copies /\ Receiving(c) /\ Early(c)
             /\ \A d : (Receiving(d)' <=> Receiving(d)) /\ (Early(d)' <=> Early(d))
  <2>1. rx[r].pc = "tested" /\ Step(r, "accepted", c) BY <1>2 DEF Accept
  <2>2. c \in Copies /\ Receiving(c) /\ Early(c) BY <1>0, <1>2, <2>1 DEF Threads, Receiving, Early
  <2>3. /\ Threads' /\ Receiving(c)' /\ Early(c)'
        /\ \A d : d # c => (Receiving(d)' <=> Receiving(d)) /\ (Early(d)' <=> Early(d))
    BY <1>2, <2>1, <2>2, ThreadGoesOn
  <2>4. QED BY <2>2, <2>3
<1>3. ASSUME NEW c, RaiseIncoming(r), c = rx[r].copy
      PROVE  /\ Threads' /\ c \in Copies /\ Receiving(c) /\ Early(c)
             /\ ~Early(c)' /\ Receiving(c)'
             /\ \A d : d # c => (Receiving(d)' <=> Receiving(d)) /\ (Early(d)' <=> Early(d))
  <2>1. rx[r].pc = "accepted" /\ Step(r, "receiving", c) BY <1>3 DEF RaiseIncoming
  <2>2. c \in Copies /\ Receiving(c) /\ Early(c) BY <1>0, <1>3, <2>1 DEF Threads, Receiving, Early
  <2>3. QED BY <1>3, <2>1, <2>2, ThreadGoesOn
<1>4. ASSUME NEW c, ReceiveDone(r) \/ ReceiveFails(r), c = rx[r].copy
      PROVE  /\ Threads' /\ c \in Copies /\ Receiving(c) /\ ~Early(c)
             /\ ~Receiving(c)' /\ ~Early(c)'
             /\ \A d : d # c => (Receiving(d)' <=> Receiving(d)) /\ (Early(d)' <=> Early(d))
  <2>1. rx[r].pc = "receiving" /\ Step(r, "idle", NoCopy) BY <1>4 DEF ReceiveDone, ReceiveFails
  <2>2. c \in Copies /\ Receiving(c) /\ ~Early(c) BY <1>0, <1>4, <2>1 DEF Threads, Receiving, Early
  <2>3. QED BY <1>4, <2>1, <2>2, ThreadEnds
<1>5. QED BY <1>1, <1>2, <1>3, <1>4

\* Every variable keeps its type.
LEMMA TypedStep == ASSUME IInv, Next PROVE Typed'
<1>0. TypeOK /\ Threads BY DEF IInv, Typed
<1>1. Queues' /\ UNCHANGED <<object, periodic>> BY ApartStep
<1>2. Threads'
  <2>1. UNCHANGED rx => Threads' BY <1>0 DEF Threads
  <2>2. Handlers => UNCHANGED rx BY HandlersHandOver DEF Handover, aside
  <2>3. ASSUME NEW r \in Receivers,
               TestFilter(r) \/ Accept(r) \/ RaiseIncoming(r) \/ ReceiveDone(r) \/ ReceiveFails(r)
        PROVE  Threads'
    BY <2>3, ThreadSteps
  <2>4. \/ _insertDataObject \/ _deleteDataObject
        \/ onIncomingDataObject \/ onInsertedDataObject \/ onDeletedDataObject
        \/ onPeriodicBloomfilterUpdate
        \/ \E o \in Objects, keep \in BOOLEAN : deleteDataObject(o, keep)
        => UNCHANGED rx
    BY DEF _insertDataObject, _deleteDataObject, onIncomingDataObject, onInsertedDataObject,
           onDeletedDataObject, onPeriodicBloomfilterUpdate, deleteDataObject
  <2>5. QED BY <2>1, <2>2, <2>3, <2>4, Kinds

<1>3. rx' \in [Receivers -> [pc : {"idle", "tested", "accepted", "receiving"},
                             copy : Copies \union {NoCopy}]]
  <2>0. rx \in [Receivers -> [pc : {"idle", "tested", "accepted", "receiving"},
                              copy : Copies \union {NoCopy}]]
    BY <1>0 DEF TypeOK
  <2>1. ASSUME NEW r \in Receivers, NEW c \in Copies \union {NoCopy},
               NEW label \in {"idle", "tested", "accepted", "receiving"}, Step(r, label, c)
        PROVE  rx' \in [Receivers -> [pc : {"idle", "tested", "accepted", "receiving"},
                                      copy : Copies \union {NoCopy}]]
    BY <2>0, <2>1 DEF Step
  <2>2. Handlers => UNCHANGED rx BY HandlersHandOver DEF Handover, aside
  <2>3. ASSUME NEW r \in Receivers, TestFilter(r)
        PROVE  rx' \in [Receivers -> [pc : {"idle", "tested", "accepted", "receiving"},
                                      copy : Copies \union {NoCopy}]]
    <3>1. PICK c : c = copies + 1 OBVIOUS
    <3>2. c \in Copies BY <2>3, <3>1, NewCopy
    <3>3. Step(r, "tested", c) BY <2>3, <3>1 DEF TestFilter
    <3>4. QED BY <2>1, <3>2, <3>3
  <2>4. ASSUME NEW r \in Receivers, Accept(r) \/ RaiseIncoming(r)
        PROVE  rx' \in [Receivers -> [pc : {"idle", "tested", "accepted", "receiving"},
                                      copy : Copies \union {NoCopy}]]
    <3>1. PICK c : c = rx[r].copy OBVIOUS
    <3>2. c \in Copies \union {NoCopy} BY <2>0, <3>1
    <3>3. Step(r, "accepted", c) \/ Step(r, "receiving", c) BY <2>4, <3>1 DEF Accept, RaiseIncoming
    <3>4. QED BY <2>1, <3>2, <3>3
  <2>5. ASSUME NEW r \in Receivers, ReceiveDone(r) \/ ReceiveFails(r)
        PROVE  rx' \in [Receivers -> [pc : {"idle", "tested", "accepted", "receiving"},
                                      copy : Copies \union {NoCopy}]]
    BY <2>1, <2>5 DEF ReceiveDone, ReceiveFails
  <2>6. \/ _insertDataObject \/ _deleteDataObject
        \/ onIncomingDataObject \/ onInsertedDataObject \/ onDeletedDataObject
        \/ onPeriodicBloomfilterUpdate
        \/ \E o \in Objects, keep \in BOOLEAN : deleteDataObject(o, keep)
        => UNCHANGED rx
    BY DEF _insertDataObject, _deleteDataObject, onIncomingDataObject, onInsertedDataObject,
           onDeletedDataObject, onPeriodicBloomfilterUpdate, deleteDataObject
  <2>7. QED BY <2>0, <2>2, <2>3, <2>4, <2>5, <2>6, Kinds
<1> DEFINE Fates == {"unused", "receiving", "acknowledged", "failed",
                     "duplicate", "refused", "withheld", "stored"}
<1>4. outcome' \in [Copies -> Fates]
  <2>0. outcome \in [Copies -> Fates] BY <1>0 DEF TypeOK
  <2>1. ASSUME NEW c, NEW fate \in Fates, Settle(c, fate) PROVE outcome' \in [Copies -> Fates]
    BY <2>0, <2>1 DEF Settle
  <2>2. CASE Handlers
    <3>1. Handover BY <2>2, HandlersHandOver
    <3>2. PICK c \in Copies : (\E fate : Settles(c, fate)) \/ (\E q : GoesOn(c, q))
      BY <3>1 DEF Handover
    <3>3. CASE \E q : GoesOn(c, q) BY <2>0, <3>3 DEF GoesOn
    <3>4. CASE \E fate : Settles(c, fate)
      <4>1. PICK fate : Settles(c, fate) BY <3>4
      <4>2. fate \in Fates /\ Settle(c, fate) BY <4>1 DEF Settles
      <4>3. QED BY <2>1, <4>2
    <3>5. QED BY <3>2, <3>3, <3>4
  <2>3. CASE _insertDataObject
    <3>1. PICK c, fate : /\ c = Head(tasks).copy
                         /\ fate = IF Head(tasks).object \in store THEN "duplicate" ELSE "stored"
      OBVIOUS
    <3>2. Settle(c, fate) BY <2>3, <3>1 DEF _insertDataObject
    <3>3. fate \in Fates BY <3>1
    <3>4. QED BY <2>1, <3>2, <3>3
  <2>4. ASSUME NEW r \in Receivers, TestFilter(r) \/ ReceiveDone(r) \/ ReceiveFails(r)
        PROVE  outcome' \in [Copies -> Fates]
    <3>1. PICK c, d : c = rx[r].copy /\ d = copies + 1 OBVIOUS
    <3>2. Settle(d, "receiving") \/ Settle(c, "acknowledged") \/ Settle(c, "failed")
      BY <2>4, <3>1 DEF TestFilter, ReceiveDone, ReceiveFails
    <3>3. QED BY <2>1, <3>2
  <2>5. \/ _deleteDataObject
        \/ onIncomingDataObject \/ onInsertedDataObject \/ onDeletedDataObject
        \/ onPeriodicBloomfilterUpdate
        \/ \E o \in Objects, keep \in BOOLEAN : deleteDataObject(o, keep)
        \/ \E r \in Receivers : Accept(r) \/ RaiseIncoming(r)
        => UNCHANGED outcome
    BY DEF _deleteDataObject, onIncomingDataObject, onInsertedDataObject, copyVars,
           onDeletedDataObject, onPeriodicBloomfilterUpdate, deleteDataObject, Accept, RaiseIncoming
  <2>6. QED BY <2>0, <2>2, <2>3, <2>4, <2>5, Kinds
<1> HIDE DEF Fates
<1>5. duplicate' \subseteq Copies /\ copies' \in 0..MaxCopies
  <2>0. duplicate \subseteq Copies /\ copies \in 0..MaxCopies BY <1>0 DEF TypeOK
  <2>1. Handlers => UNCHANGED <<duplicate, copies>> BY HandlersHandOver DEF Handover, aside
  <2>2. CASE _insertDataObject
    <3>1. PICK h, c : h = Head(tasks) /\ c = h.copy OBVIOUS
    <3>2. c \in Copies BY <2>2, <3>1, InsertMoves
    <3>3. duplicate' \subseteq duplicate \union {c} /\ UNCHANGED copies
      BY <2>2, <3>1 DEF _insertDataObject, StoreMarks
    <3>4. QED BY <2>0, <3>2, <3>3
  <2>3. CASE onIncomingDataObject
    <3>1. PICK c : c = Head(events).copy OBVIOUS
    <3>2. /\ Handle("INCOMING") /\ events' = Tail(events)
          /\ UNCHANGED <<object, security, helper, tasks, copies>>
          /\ duplicate' \subseteq duplicate \union {c}
      BY <2>3, <3>1 DEF onIncomingDataObject, helperVars, storeVars, Marked
    <3>3. c \in Copies BY <3>1, <3>2, NoticeStill
    <3>4. QED BY <2>0, <3>2, <3>3
  <2>4. ASSUME NEW r \in Receivers, TestFilter(r) PROVE duplicate' \subseteq Copies /\ copies' \in 0..MaxCopies
    BY <2>0, <2>4 DEF TestFilter
  <2>5. \/ _deleteDataObject \/ onInsertedDataObject \/ onDeletedDataObject
        \/ onPeriodicBloomfilterUpdate
        \/ \E o \in Objects, keep \in BOOLEAN : deleteDataObject(o, keep)
        \/ \E r \in Receivers : Accept(r) \/ RaiseIncoming(r) \/ ReceiveDone(r) \/ ReceiveFails(r)
        => UNCHANGED <<duplicate, copies>>
    BY DEF _deleteDataObject, onInsertedDataObject, copyVars, onDeletedDataObject, ReceiveDone,
           onPeriodicBloomfilterUpdate, deleteDataObject, Accept, RaiseIncoming, ReceiveFails
  <2>6. QED BY <2>0, <2>1, <2>2, <2>3, <2>4, <2>5, Kinds
<1>6. doBF' \subseteq Objects /\ localBF' \subseteq Objects /\ kept' \subseteq Objects
  <2>0. /\ doBF \subseteq Objects /\ localBF \subseteq Objects /\ kept \subseteq Objects
        /\ object \in [Copies -> Objects]
    BY <1>0 DEF TypeOK
  <2>1. Handlers => UNCHANGED <<doBF, localBF, kept>>
    BY HandlersHandOver DEF Handover, aside, filterVars
  <2>2. CASE onIncomingDataObject
    <3>1. PICK c, o : c = Head(events).copy /\ o = Head(events).object OBVIOUS
    <3>2. /\ Handle("INCOMING") /\ events' = Tail(events)
          /\ UNCHANGED <<object, security, helper, tasks, kept>>
          /\ localBF' = localBF \union {o}
          /\ doBF' \in {doBF, doBF \union {o}, localBF'}
      BY <2>2, <3>1 DEF onIncomingDataObject, helperVars, storeVars, setBloomfilter
    <3>3. c \in Copies /\ o = object[c] BY <3>1, <3>2, NoticeStill
    <3>4. o \in Objects BY <2>0, <3>3
    <3>5. QED BY <2>0, <3>2, <3>4
  <2>3. CASE onDeletedDataObject
    <3>1. PICK h, o : h = Head(events) /\ o = Head(events).object OBVIOUS
    <3>2. o \in Objects BY <2>3, <3>1, DeletedStill
    <3>3. /\ localBF' \in {localBF, localBF \ {o}} /\ doBF' \in {doBF, localBF'}
          /\ kept' \in {kept, kept \union {o}, kept \ {o}}
      BY <2>3, <3>1 DEF onDeletedDataObject, setBloomfilter
    <3>4. QED BY <2>0, <3>2, <3>3
  <2>4. onPeriodicBloomfilterUpdate => doBF' = localBF /\ UNCHANGED <<localBF, kept>>
    BY DEF onPeriodicBloomfilterUpdate, setBloomfilter
  <2>5. ASSUME NEW r \in Receivers, Accept(r)
        PROVE  doBF' \subseteq Objects /\ UNCHANGED <<localBF, kept>>
    <3>1. PICK c : c = rx[r].copy OBVIOUS
    <3>2. c \in Copies BY <2>5, <3>1, ThreadSteps
    <3>3. doBF' = doBF \union {object[c]} /\ UNCHANGED <<localBF, kept>> BY <2>5, <3>1 DEF Accept
    <3>4. QED BY <2>0, <3>2, <3>3
  <2>6. \/ _insertDataObject \/ _deleteDataObject \/ onInsertedDataObject
        \/ \E o \in Objects, keep \in BOOLEAN : deleteDataObject(o, keep)
        \/ \E r \in Receivers : TestFilter(r) \/ RaiseIncoming(r) \/ ReceiveDone(r) \/ ReceiveFails(r)
        => UNCHANGED <<doBF, localBF, kept>>
    BY DEF _insertDataObject, _deleteDataObject, onInsertedDataObject, filterVars, ReceiveDone,
           deleteDataObject, TestFilter, RaiseIncoming, ReceiveFails
  <2>7. QED BY <2>0, <2>1, <2>2, <2>3, <2>4, <2>5, <2>6, Kinds
<1>7. store' \subseteq Objects /\ news' \subseteq Copies /\ deletes' \in 0..MaxDeletes
  <2>0. /\ store \subseteq Objects /\ news \subseteq Copies /\ deletes \in 0..MaxDeletes
        /\ object \in [Copies -> Objects]
    BY <1>0 DEF TypeOK
  <2>1. Handlers => UNCHANGED <<store, news, deletes>> BY HandlersHandOver DEF Handover, aside
  <2>2. CASE _insertDataObject
    <3>1. PICK h, c : h = Head(tasks) /\ c = h.copy OBVIOUS
    <3>2. c \in Copies /\ h.object = object[c] BY <2>2, <3>1, InsertMoves
    <3>3. store' = store \union {object[c]} /\ UNCHANGED <<news, deletes>>
      BY <2>2, <3>1, <3>2 DEF _insertDataObject
    <3>4. QED BY <2>0, <3>2, <3>3
  <2>3. CASE onInsertedDataObject
    <3>1. PICK c : c = Head(events).copy OBVIOUS
    <3>2. /\ Handle("INSERTED") /\ events' = Tail(events)
          /\ UNCHANGED <<object, security, helper, tasks, store, deletes>>
          /\ news' \subseteq news \union {c}
      BY <2>3, <3>1 DEF onInsertedDataObject, helperVars, storeVars, copyVars, Announced
    <3>3. c \in Copies BY <3>1, <3>2, NoticeStill
    <3>4. QED BY <2>0, <3>2, <3>3
  <2>4. CASE \E o \in Objects, keep \in BOOLEAN : deleteDataObject(o, keep)
    BY <2>0, <2>4 DEF deleteDataObject
  <2>5. _deleteDataObject => store' \subseteq store /\ UNCHANGED <<news, deletes>>
    BY DEF _deleteDataObject
  <2>6. \/ onIncomingDataObject \/ onDeletedDataObject \/ onPeriodicBloomfilterUpdate
        \/ \E r \in Receivers : TestFilter(r) \/ Accept(r) \/ RaiseIncoming(r)
                                \/ ReceiveDone(r) \/ ReceiveFails(r)
        => UNCHANGED <<store, news, deletes>>
    BY DEF onIncomingDataObject, onDeletedDataObject, onPeriodicBloomfilterUpdate, storeVars,
           TestFilter, Accept, RaiseIncoming, ReceiveDone, ReceiveFails
  <2>7. QED BY <2>0, <2>1, <2>2, <2>3, <2>4, <2>5, <2>6, Kinds
<1>8. object \in [Copies -> Objects] /\ periodic \in BOOLEAN BY <1>0 DEF TypeOK
<1>9. events' \in Seq(Event)
  <2>1. Events \subseteq Event
    <3>1. \A ty \in AllTypes, c \in Copies : CopyEvent(ty, c) \in Event
      BY <1>8 DEF CopyEvent, Event, AllTypes, Work
    <3>2. \A o \in Objects, keep \in BOOLEAN : Deleted(o, keep) \in Event BY DEF Deleted, Event
    <3>3. QED BY <3>1, <3>2 DEF Events
  <2>2. events' \in Seq(Events) BY <1>1, Fixed DEF Queues
  <2>3. QED BY <2>1, <2>2
<1>10. tasks' \in Seq([op : {"insert", "delete"}, copy : Copies \union {NoCopy},
                       object : Objects, keep : BOOLEAN])
  <2>1. Tasks \subseteq [op : {"insert", "delete"}, copy : Copies \union {NoCopy},
                         object : Objects, keep : BOOLEAN]
    <3>1. \A c \in Copies : Insert(c) \in [op : {"insert", "delete"}, copy : Copies \union {NoCopy},
                                          object : Objects, keep : BOOLEAN]
      BY <1>8 DEF Insert
    <3>2. \A o \in Objects, keep \in BOOLEAN :
            Delete(o, keep) \in [op : {"insert", "delete"}, copy : Copies \union {NoCopy},
                                object : Objects, keep : BOOLEAN]
      BY DEF Delete
    <3>3. QED BY <3>1, <3>2 DEF Tasks
  <2>2. tasks' \in Seq(Tasks) BY <1>1, Fixed DEF Queues
  <2> DEFINE T == [op : {"insert", "delete"}, copy : Copies \union {NoCopy},
                   object : Objects, keep : BOOLEAN]
  <2>3. Tasks \subseteq T BY <2>1
  <2> HIDE DEF T
  <2>4. tasks' \in Seq(T) BY <2>2, <2>3
  <2>5. QED BY <2>4 DEF T
<1>11. TypeOK' BY <1>1, <1>3, <1>4, <1>5, <1>6, <1>7, <1>8, <1>9, <1>10 DEF TypeOK, Queues, Fates
<1>12. QED BY <1>1, <1>2, <1>11 DEF Typed, Queues

\* A copy that a step does not touch.
LEMMA FateFrame ==
    ASSUME NEW d \in Copies, FateOf(d), copies \in Nat, copies' \in {copies, copies + 1},
           Receiving(d)' <=> Receiving(d), \A p : At(p, d)' <=> At(p, d),
           outcome'[d] = outcome[d], d \in duplicate' <=> d \in duplicate,
           Ins(d)' <=> Ins(d), d \in news' <=> d \in news
    PROVE  FateOf(d)'
<1>1. d > copies' => d > copies BY DEF Copies
<1>2. d > copies' => outcome'[d] = "unused" BY <1>1 DEF FateOf
<1>3. QED BY <1>2 DEF FateOf

\* Steps that concern no copy.
OfNoCopy ==
    \/ _deleteDataObject \/ onDeletedDataObject \/ onPeriodicBloomfilterUpdate
    \/ \E o \in Objects, keep \in BOOLEAN : deleteDataObject(o, keep)
    \/ \E r \in Receivers : Accept(r)

\* They leave all copies as they are.
LEMMA NoCopyTouched ==
    ASSUME IInv, OfNoCopy
    PROVE  /\ Still /\ UNCHANGED <<object, outcome, duplicate, copies, news>>
           /\ \A d \in Copies : /\ (Inc(d)' <=> Inc(d)) /\ (Ins(d)' <=> Ins(d))
                                /\ (Failing(d) => Failing(d)') /\ (InOrder(d) => InOrder(d)')
           /\ \A d : (Receiving(d)' <=> Receiving(d)) /\ (Early(d)' <=> Early(d))
<1>1. UNCHANGED rx => \A d : (Receiving(d)' <=> Receiving(d)) /\ (Early(d)' <=> Early(d))
  BY DEF Receiving, Early
<1>2. CASE _deleteDataObject
  <2>1. PICK h, x : h = Head(tasks) /\ x = Deleted(h.object, h.keep) OBVIOUS
  <2>2. /\ UNCHANGED <<object, outcome, duplicate, copies, news, rx>>
    BY <1>2 DEF _deleteDataObject, copyVars
  <2>3. Still /\ (Grown(events, events', x) \/ events' = events) BY <1>2, <2>1, _deleteDataObjectStill
  <2>4. \A d \in Copies : x # CopyEvent("INCOMING", d) /\ x # CopyEvent("INSERTED", d)
    BY <2>1, OtherKinds
  <2>5. Undisturbed BY <2>2, <2>3, <2>4, KeptGrown, KeptSame
  <2>6. QED BY <1>1, <2>2, <2>3, <2>5 DEF Undisturbed
<1>3. CASE onDeletedDataObject
  <2>1. PICK h : h = Head(events) OBVIOUS
  <2>2. UNCHANGED <<object, outcome, duplicate, copies, news, rx>>
    BY <1>3 DEF onDeletedDataObject, copyVars
  <2>3. /\ Still
        /\ \A d \in Copies : (Inc(d)' <=> Inc(d)) /\ (Ins(d)' <=> Ins(d))
        /\ \A d \in Copies : (Failing(d) => Failing(d)') /\ (InOrder(d) => InOrder(d)')
    BY <1>3, <2>1, DeletedStill
  <2>4. QED BY <1>1, <2>2, <2>3
<1>4. ASSUME NEW o \in Objects, NEW keep \in BOOLEAN, deleteDataObject(o, keep)
      PROVE  /\ Still /\ UNCHANGED <<object, outcome, duplicate, copies, news, rx>> /\ Undisturbed
  <2>1. Still BY <1>4, deleteDataObjectStill
  <2>2. UNCHANGED <<object, events, outcome, duplicate, copies, news, rx>>
    BY <1>4 DEF deleteDataObject, copyVars
  <2>3. QED BY <2>1, <2>2, KeptSame
<1>5. CASE onPeriodicBloomfilterUpdate
  <2>1. UNCHANGED <<object, events, security, helper, tasks, outcome, duplicate, copies, news, rx>>
    BY <1>5 DEF onPeriodicBloomfilterUpdate, copyVars, helperVars, storeVars
  <2>2. Still /\ Undisturbed BY <2>1, Calm
  <2>3. QED BY <1>1, <2>1, <2>2 DEF Undisturbed
<1>6. ASSUME NEW r \in Receivers, Accept(r)
      PROVE  /\ Still /\ UNCHANGED <<object, outcome, duplicate, copies, news>> /\ Undisturbed
             /\ \A d : (Receiving(d)' <=> Receiving(d)) /\ (Early(d)' <=> Early(d))
  <2>1. UNCHANGED <<object, events, security, helper, tasks, outcome, duplicate, copies, news>>
    BY <1>6 DEF Accept, copyVars, helperVars, storeVars
  <2>2. Still /\ Undisturbed BY <2>1, Calm
  <2>3. PICK c : c = rx[r].copy OBVIOUS
  <2>4. \A d : (Receiving(d)' <=> Receiving(d)) /\ (Early(d)' <=> Early(d))
    BY <1>6, <2>3, ThreadSteps
  <2>5. QED BY <2>1, <2>2, <2>4
<1>7. CASE \E o \in Objects, keep \in BOOLEAN : deleteDataObject(o, keep)
  BY <1>1, <1>4, <1>7 DEF Undisturbed
<1>8. CASE \E r \in Receivers : Accept(r) BY <1>6, <1>8 DEF Undisturbed
<1>9. QED BY <1>2, <1>3, <1>5, <1>7, <1>8 DEF OfNoCopy

\* What became of every copy still tells where it is.
LEMMA FateStep == ASSUME IInv, Next PROVE Fate'
<1> SUFFICES ASSUME NEW d \in Copies PROVE FateOf(d)' BY DEF Fate
<1>0. /\ FateOf(d) /\ AnnouncementOf(d) /\ copies \in Nat /\ object' = object
      /\ outcome \in [Copies -> {"unused", "receiving", "acknowledged", "failed",
                                 "duplicate", "refused", "withheld", "stored"}]
  BY ApartStep DEF IInv, Fate, Announcement, Typed, TypeOK
<1>1. \A u, c : CopyEvent(u, c)' = CopyEvent(u, c) BY <1>0, Fixed
<1>2. ASSUME NEW c \in Copies, NEW fate, Settle(c, fate)
      PROVE  outcome'[c] = fate /\ (d # c => outcome'[d] = outcome[d])
  BY <1>0, <1>2 DEF Settle
<1>3. CASE Handlers
  <2>1. Handover BY <1>3, HandlersHandOver
  <2>2. /\ UNCHANGED <<rx, duplicate, copies, news>> /\ (Ins(d)' <=> Ins(d))
    BY <2>1 DEF Handover, aside, Undisturbed
  <2>3. Receiving(d)' <=> Receiving(d) BY <2>2 DEF Receiving
  <2>4. PICK c \in Copies : /\ \E p : At(p, c)
                            /\ (\E fate : Settles(c, fate)) \/ (\E q : GoesOn(c, q))
    BY <2>1 DEF Handover
  <2>5. CASE d # c
    <3>1. \A p : At(p, d)' <=> At(p, d) BY <2>4, <2>5 DEF Settles, GoesOn, Moved
    <3>2. outcome'[d] = outcome[d] BY <1>2, <2>4, <2>5 DEF Settles, GoesOn
    <3>3. QED BY <1>0, <2>2, <2>3, <3>1, <3>2, FateFrame
  <2>6. CASE d = c
    <3>1. outcome[d] = "acknowledged" BY <1>0, <2>4, <2>6 DEF FateOf
    <3>2. ~Ins(d) /\ d \notin news /\ ~Receiving(d) /\ ~(d > copies) BY <1>0, <3>1 DEF FateOf
    <3>3. CASE \E fate : Settles(c, fate)
      <4>1. PICK fate : Settles(c, fate) BY <3>3
      <4>2. outcome'[d] = fate /\ fate \in {"duplicate", "refused", "withheld"}
        BY <1>2, <2>6, <4>1 DEF Settles
      <4>3. \A p : ~At(p, d)' BY <2>6, <4>1 DEF Settles, Moved
      <4>4. QED BY <2>2, <2>3, <3>2, <4>2, <4>3 DEF FateOf
    <3>4. CASE \E q : GoesOn(c, q)
      <4>1. PICK q : GoesOn(c, q) BY <3>4
      <4>2. outcome'[d] = "acknowledged" BY <3>1, <4>1 DEF GoesOn
      <4>3. (\A p : At(p, d)' <=> p = q) /\ q # "RECEIVED" /\ d \notin duplicate
        BY <2>6, <4>1 DEF GoesOn, Moved
      <4>4. QED BY <2>2, <2>3, <3>2, <4>2, <4>3 DEF FateOf
    <3>5. QED BY <2>4, <3>3, <3>4
  <2>7. QED BY <2>5, <2>6
<1>4. CASE OfNoCopy BY <1>0, <1>4, NoCopyTouched, FateFrame DEF Still
<1>5. CASE _insertDataObject
  <2>1. PICK h, c, fate : /\ h = Head(tasks) /\ c = h.copy
                          /\ fate = IF h.object \in store THEN "duplicate" ELSE "stored"
    OBVIOUS
  <2>2. /\ c \in Copies /\ At("tasks", c) /\ Moved(c, {})
        /\ Grown(events, events', CopyEvent("INSERTED", c))
    BY <1>5, <2>1, InsertMoves
  <2>3. /\ UNCHANGED <<rx, copies, news>> /\ Settle(c, fate)
        /\ duplicate' = IF h.object \in store THEN duplicate \union {c} ELSE duplicate
    BY <1>5, <2>1 DEF _insertDataObject, StoreMarks
  <2>4. Receiving(d)' <=> Receiving(d) BY <2>3 DEF Receiving
  <2>5. Ins(c)' BY <1>1, <2>2 DEF Ins, Grown
  <2>6. CASE d # c
    <3>1. \A p : At(p, d)' <=> At(p, d) BY <2>2, <2>6 DEF Moved
    <3>2. outcome'[d] = outcome[d] BY <1>2, <2>2, <2>3, <2>6
    <3>3. Ins(d)' <=> Ins(d) BY <1>1, <2>2, <2>6, Different DEF Ins, Grown
    <3>4. d \in duplicate' <=> d \in duplicate BY <2>3, <2>6
    <3>5. QED BY <1>0, <2>3, <2>4, <3>1, <3>2, <3>3, <3>4, FateFrame
  <2>7. CASE d = c
    <3>1. outcome[d] = "acknowledged" /\ d \notin duplicate BY <1>0, <2>2, <2>7 DEF FateOf
    <3>2. d \notin news /\ ~Receiving(d) /\ ~(d > copies) BY <1>0, <3>1 DEF FateOf
    <3>3. outcome'[d] = fate BY <1>2, <2>2, <2>3, <2>7
    <3>4. \A p : ~At(p, d)' BY <2>2, <2>7 DEF Moved
    <3>5. /\ fate \in {"duplicate", "stored"}
          /\ d \in duplicate' <=> fate = "duplicate"
      BY <2>1, <2>3, <2>7, <3>1
    <3>6. QED BY <2>3, <2>4, <2>5, <2>7, <3>2, <3>3, <3>4, <3>5 DEF FateOf
  <2>8. QED BY <2>6, <2>7
<1>6. CASE onIncomingDataObject
  <2>1. PICK c : c = Head(events).copy OBVIOUS
  <2>2. /\ Handle("INCOMING") /\ events' = Tail(events)
        /\ UNCHANGED <<object, security, helper, tasks, rx, outcome, copies, news>>
        /\ duplicate' \in {duplicate, duplicate \union {c}}
    BY <1>6, <2>1 DEF onIncomingDataObject, helperVars, storeVars, Marked
  <2>3. c \in Copies /\ Still /\ Shrunk(events, events', CopyEvent("INCOMING", c))
    BY <2>1, <2>2, NoticeStill
  <2>4. Receiving(d)' <=> Receiving(d) BY <2>2 DEF Receiving
  <2>5. \A p : At(p, d)' <=> At(p, d) BY <2>3 DEF Still
  <2>6. Ins(d)' <=> Ins(d) BY <1>1, <2>3, Different DEF Ins, Shrunk
  <2>7. CASE d # c
    <3>1. d \in duplicate' <=> d \in duplicate BY <2>2, <2>7
    <3>2. QED BY <1>0, <2>2, <2>4, <2>5, <2>6, <3>1, FateFrame
  <2>8. CASE d = c
    <3>1. Inc(d) BY <2>3, <2>8 DEF Inc, Shrunk
    <3>2. \A p : At(p, d) => p = "RECEIVED" BY <3>1, WaitingAnnounced
    <3>3. outcome[d] \in {"receiving", "failed", "acknowledged"} BY <1>0, <3>1 DEF AnnouncementOf, FateOf
    <3>4. ~Ins(d) BY <1>0, <3>3 DEF FateOf
    <3>5. QED BY <1>0, <2>2, <2>4, <2>5, <2>6, <3>2, <3>4 DEF FateOf
  <2>9. QED BY <2>7, <2>8
<1>7. CASE onInsertedDataObject
  <2>1. PICK c : c = Head(events).copy OBVIOUS
  <2>2. /\ Handle("INSERTED") /\ events' = Tail(events)
        /\ UNCHANGED <<object, security, helper, tasks, rx, outcome, duplicate, copies>>
        /\ news' = IF c \in duplicate THEN news ELSE news \union {c}
    BY <1>7, <2>1 DEF onInsertedDataObject, helperVars, storeVars, copyVars, Announced
  <2>3. c \in Copies /\ Still /\ Shrunk(events, events', CopyEvent("INSERTED", c))
    BY <2>1, <2>2, NoticeStill
  <2>4. Receiving(d)' <=> Receiving(d) BY <2>2 DEF Receiving
  <2>5. \A p : At(p, d)' <=> At(p, d) BY <2>3 DEF Still
  <2>6. CASE d # c
    <3>1. Ins(d)' <=> Ins(d) BY <1>1, <2>3, <2>6, Different DEF Ins, Shrunk
    <3>2. d \in news' <=> d \in news BY <2>2, <2>6
    <3>3. QED BY <1>0, <2>2, <2>4, <2>5, <3>1, <3>2, FateFrame
  <2>7. CASE d = c
    <3>1. Ins(d) BY <2>3, <2>7 DEF Ins, Shrunk
    <3>2. d \in duplicate => outcome[d] = "duplicate" /\ (d \in news' <=> d \in news)
      BY <1>0, <2>2, <2>7, <3>1 DEF FateOf
    <3>3. d \notin duplicate => outcome[d] = "stored" /\ d \in news'
      BY <1>0, <2>2, <2>7, <3>1 DEF FateOf
    <3>4. QED BY <1>0, <2>2, <2>4, <2>5, <3>1, <3>2, <3>3 DEF FateOf
  <2>8. QED BY <2>6, <2>7
<1>8. ASSUME NEW r \in Receivers, TestFilter(r) PROVE FateOf(d)'
  <2>1. PICK c : c = copies + 1 OBVIOUS
  <2>2. /\ c \in Copies /\ outcome[c] = "unused" /\ ~Receiving(c)
        /\ ~Ins(c) /\ c \notin news /\ \A p : ~At(p, c)
    BY <1>8, <2>1, NewCopy
  <2>3. /\ Settle(c, "receiving") /\ copies' = copies + 1
        /\ UNCHANGED <<object, events, security, helper, tasks, duplicate, news>>
    BY <1>8, <2>1 DEF TestFilter, helperVars, storeVars
  <2>4. Still /\ Undisturbed BY <2>3, Calm
  <2>5. /\ Receiving(c)' /\ \A e : e # c => (Receiving(e)' <=> Receiving(e))
    BY <1>8, <2>1, ThreadSteps
  <2>6. (\A p : At(p, d)' <=> At(p, d)) /\ (Ins(d)' <=> Ins(d)) BY <2>4 DEF Still, Undisturbed
  <2>7. CASE d # c
    <3>1. outcome'[d] = outcome[d] BY <1>2, <2>2, <2>3, <2>7
    <3>2. QED BY <1>0, <2>3, <2>5, <2>6, <2>7, <3>1, FateFrame
  <2>8. CASE d = c
    <3>1. outcome'[d] = "receiving" BY <1>2, <2>2, <2>3, <2>8
    <3>2. ~(d > copies') BY <1>0, <2>1, <2>3, <2>8
    <3>3. QED BY <2>2, <2>3, <2>5, <2>6, <2>8, <3>1, <3>2 DEF FateOf
  <2>9. QED BY <2>7, <2>8
<1>9. ASSUME NEW r \in Receivers, RaiseIncoming(r) PROVE FateOf(d)'
  <2>1. PICK c : c = rx[r].copy OBVIOUS
  <2>2. Still /\ Grown(events, events', CopyEvent("INCOMING", c)) BY <1>9, <2>1, RaiseIncomingStill
  <2>3. UNCHANGED <<outcome, duplicate, copies, news>> BY <1>9 DEF RaiseIncoming, copyVars
  <2>4. Receiving(d)' <=> Receiving(d) BY <1>9, <2>1, ThreadSteps
  <2>5. Ins(d)' <=> Ins(d) BY <1>1, <2>2, Different DEF Ins, Grown
  <2>6. QED BY <1>0, <2>2, <2>3, <2>4, <2>5, FateFrame DEF Still
<1>10. ASSUME NEW r \in Receivers, ReceiveFails(r) PROVE FateOf(d)'
  <2>1. PICK c : c = rx[r].copy OBVIOUS
  <2>2. c \in Copies /\ Receiving(c) /\ Still /\ Undisturbed BY <1>10, <2>1, ReceiveFailsStill
  <2>3. UNCHANGED <<duplicate, copies, news>> /\ Settle(c, "failed") BY <1>10, <2>1 DEF ReceiveFails
  <2>4. ~Receiving(c)' /\ \A e : e # c => (Receiving(e)' <=> Receiving(e))
    BY <1>10, <2>1, ThreadSteps
  <2>5. (\A p : At(p, d)' <=> At(p, d)) /\ (Ins(d)' <=> Ins(d)) BY <2>2 DEF Still, Undisturbed
  <2>6. CASE d # c
    <3>1. outcome'[d] = outcome[d] BY <1>2, <2>2, <2>3, <2>6
    <3>2. QED BY <1>0, <2>3, <2>4, <2>5, <2>6, <3>1, FateFrame
  <2>7. CASE d = c
    <3>1. outcome[d] = "receiving" BY <1>0, <2>2, <2>7 DEF FateOf
    <3>2. ~Ins(d) /\ d \notin news /\ ~(d > copies) /\ \A p : ~At(p, d) BY <1>0, <3>1 DEF FateOf
    <3>3. outcome'[d] = "failed" BY <1>2, <2>2, <2>3, <2>7
    <3>4. QED BY <2>3, <2>4, <2>5, <2>7, <3>2, <3>3 DEF FateOf
  <2>8. QED BY <2>6, <2>7
<1>11. ASSUME NEW r \in Receivers, ReceiveDone(r) PROVE FateOf(d)'
  <2>1. PICK c : c = rx[r].copy OBVIOUS
  <2>2. /\ c \in Copies /\ Moved(c, {"RECEIVED"})
        /\ Grown(events, events', CopyEvent("RECEIVED", c))
    BY <1>11, <2>1, ReceiveDoneMoves
  <2>3. UNCHANGED <<duplicate, copies, news>> /\ Settle(c, "acknowledged")
    BY <1>11, <2>1 DEF ReceiveDone
  <2>4. Receiving(c) /\ ~Receiving(c)' /\ \A e : e # c => (Receiving(e)' <=> Receiving(e))
    BY <1>11, <2>1, ThreadSteps
  <2>5. Ins(d)' <=> Ins(d) BY <1>1, <2>2, Different DEF Ins, Grown
  <2>6. CASE d # c
    <3>1. outcome'[d] = outcome[d] BY <1>2, <2>2, <2>3, <2>6
    <3>2. \A p : At(p, d)' <=> At(p, d) BY <2>2, <2>6 DEF Moved
    <3>3. QED BY <1>0, <2>3, <2>4, <2>5, <2>6, <3>1, <3>2, FateFrame
  <2>7. CASE d = c
    <3>1. outcome[d] = "receiving" BY <1>0, <2>4, <2>7 DEF FateOf
    <3>2. ~Ins(d) /\ d \notin news /\ ~(d > copies) BY <1>0, <3>1 DEF FateOf
    <3>3. outcome'[d] = "acknowledged" BY <1>2, <2>2, <2>3, <2>7
    <3>4. \A p : At(p, d)' <=> p = "RECEIVED" BY <2>2, <2>7 DEF Moved
    <3>5. QED BY <2>3, <2>4, <2>5, <2>7, <3>2, <3>3, <3>4 DEF FateOf
  <2>8. QED BY <2>6, <2>7
<1>12. QED BY <1>3, <1>4, <1>5, <1>6, <1>7, <1>8, <1>9, <1>10, <1>11, Kinds DEF OfNoCopy

\* A copy that a step does not touch.
LEMMA AnnouncementFrame ==
    ASSUME NEW d \in Copies, AnnouncementOf(d), Early(d)' => Early(d),
           outcome'[d] = outcome[d], d \in duplicate' <=> d \in duplicate, Inc(d)' <=> Inc(d),
           InOrder(d) => InOrder(d)', Failing(d) => Failing(d)',
           At("RECEIVED", d)' <=> At("RECEIVED", d)
    PROVE  AnnouncementOf(d)'
BY DEF AnnouncementOf

\* A copy that waits and is announced keeps its announcement behind it.
LEMMA AnnouncementPast ==
    ASSUME NEW d \in Copies, AnnouncementOf(d), outcome'[d] # "unused", ~Early(d)', ~Inc(d)',
           InOrder(d) => InOrder(d)'
    PROVE  AnnouncementOf(d)'
BY DEF AnnouncementOf

\* A thread has the copy only while it is being received.
LEMMA EarlyReceiving == ASSUME NEW c, Early(c) PROVE Receiving(c)
BY DEF Early, Receiving

\* Events of the other kinds do not get in the way of announcements.
LEMMA OtherGrown ==
    ASSUME UNCHANGED object, NEW x, Grown(events, events', x), NEW d, x # CopyEvent("INCOMING", d)
    PROVE  /\ (Inc(d)' <=> Inc(d)) /\ (InOrder(d) => InOrder(d)') /\ (Failing(d) => Failing(d)')
<1>1. \A u, c : CopyEvent(u, c)' = CopyEvent(u, c) BY Fixed
<1>2. Inc(d)' <=> Inc(d) BY <1>1 DEF Inc, Grown
<1>3. InOrder(d) => InOrder(d)' BY <1>1 DEF InOrder, Once, Grown
<1>4. Failing(d) => Failing(d)' BY <1>1 DEF Failing, Grown
<1>5. QED BY <1>2, <1>3, <1>4

\* Nor does handling one.
LEMMA OtherShrunk ==
    ASSUME UNCHANGED object, NEW h, Shrunk(events, events', h), NEW d, h # CopyEvent("INCOMING", d)
    PROVE  /\ (Inc(d)' <=> Inc(d)) /\ (InOrder(d) => InOrder(d)') /\ (Failing(d) => Failing(d)')
<1>1. \A u, c : CopyEvent(u, c)' = CopyEvent(u, c) BY Fixed
<1>2. Inc(d)' <=> Inc(d) BY <1>1 DEF Inc, Shrunk
<1>3. InOrder(d) => InOrder(d)' BY <1>1 DEF InOrder, Once, Shrunk
<1>4. Failing(d) => Failing(d)' BY <1>1 DEF Failing, Shrunk
<1>5. QED BY <1>2, <1>3, <1>4

\* Every copy is still announced once and in order.
LEMMA AnnouncementStep == ASSUME IInv, Next PROVE Announcement'
<1> SUFFICES ASSUME NEW d \in Copies PROVE AnnouncementOf(d)' BY DEF Announcement
<1>0. /\ FateOf(d) /\ AnnouncementOf(d) /\ object' = object
      /\ outcome \in [Copies -> {"unused", "receiving", "acknowledged", "failed",
                                 "duplicate", "refused", "withheld", "stored"}]
  BY ApartStep DEF IInv, Fate, Announcement, Typed, TypeOK
<1>1. \A u, c : CopyEvent(u, c)' = CopyEvent(u, c) BY <1>0, Fixed
<1>2. ASSUME NEW c \in Copies, NEW fate, Settle(c, fate)
      PROVE  outcome'[c] = fate /\ (d # c => outcome'[d] = outcome[d])
  BY <1>0, <1>2 DEF Settle
<1>3. CASE Handlers
  <2>1. Handover BY <1>3, HandlersHandOver
  <2>2. /\ UNCHANGED <<rx, duplicate>> /\ (Inc(d)' <=> Inc(d))
        /\ (InOrder(d) => InOrder(d)') /\ (Failing(d) => Failing(d)')
    BY <2>1 DEF Handover, aside, Undisturbed
  <2>3. Early(d)' <=> Early(d) BY <2>2 DEF Early
  <2>4. PICK c \in Copies : /\ \E p : At(p, c)
                            /\ ~Inc(c)
                            /\ (\E fate : Settles(c, fate)) \/ (\E q : GoesOn(c, q))
    BY <2>1 DEF Handover
  <2>5. CASE d # c
    <3>1. \A p : At(p, d)' <=> At(p, d) BY <2>4, <2>5 DEF Settles, GoesOn, Moved
    <3>2. outcome'[d] = outcome[d] BY <1>2, <2>4, <2>5 DEF Settles, GoesOn
    <3>3. QED BY <1>0, <2>2, <2>3, <3>1, <3>2, AnnouncementFrame
  <2>6. CASE d = c
    <3>1. outcome[d] = "acknowledged" /\ ~Receiving(d) BY <1>0, <2>4, <2>6 DEF FateOf
    <3>2. ~Early(d)' BY <2>3, <3>1, EarlyReceiving
    <3>3. outcome'[d] # "unused" BY <1>2, <2>4, <2>6, <3>1 DEF Settles, GoesOn
    <3>4. QED BY <1>0, <2>2, <2>4, <2>6, <3>2, <3>3, AnnouncementPast
  <2>7. QED BY <2>5, <2>6
<1>4. CASE OfNoCopy BY <1>0, <1>4, NoCopyTouched, AnnouncementFrame DEF Still
<1>5. CASE _insertDataObject
  <2>1. PICK h, c, fate, x : /\ h = Head(tasks) /\ c = h.copy
                             /\ fate = IF h.object \in store THEN "duplicate" ELSE "stored"
                             /\ x = CopyEvent("INSERTED", c)
    OBVIOUS
  <2>2. c \in Copies /\ At("tasks", c) /\ Moved(c, {}) /\ Grown(events, events', x)
    BY <1>5, <2>1, InsertMoves
  <2>3. /\ UNCHANGED rx /\ Settle(c, fate) /\ duplicate' \in {duplicate, duplicate \union {c}}
    BY <1>5, <2>1 DEF _insertDataObject, StoreMarks
  <2>4. Early(d)' <=> Early(d) BY <2>3 DEF Early
  <2>5. x # CopyEvent("INCOMING", d) BY <2>1, Different
  <2>6. (Inc(d)' <=> Inc(d)) /\ (InOrder(d) => InOrder(d)') /\ (Failing(d) => Failing(d)')
    BY <1>0, <2>2, <2>5, OtherGrown
  <2>7. CASE d # c
    <3>1. \A p : At(p, d)' <=> At(p, d) BY <2>2, <2>7 DEF Moved
    <3>2. outcome'[d] = outcome[d] BY <1>2, <2>2, <2>3, <2>7
    <3>3. d \in duplicate' <=> d \in duplicate BY <2>3, <2>7
    <3>4. QED BY <1>0, <2>4, <2>6, <3>1, <3>2, <3>3, AnnouncementFrame
  <2>8. CASE d = c
    <3>1. outcome[d] = "acknowledged" /\ ~Receiving(d) BY <1>0, <2>2, <2>8 DEF FateOf
    <3>2. ~Early(d)' BY <2>4, <3>1, EarlyReceiving
    <3>3. outcome'[d] # "unused" BY <1>2, <2>1, <2>2, <2>3, <2>8
    <3>4. ~Inc(d) BY <2>2, <2>8, WaitingAnnounced
    <3>5. QED BY <1>0, <2>6, <3>2, <3>3, <3>4, AnnouncementPast
  <2>9. QED BY <2>7, <2>8
<1>6. CASE onIncomingDataObject
  <2>1. PICK c, h : c = Head(events).copy /\ h = CopyEvent("INCOMING", c) OBVIOUS
  <2>2. /\ Handle("INCOMING") /\ events' = Tail(events)
        /\ UNCHANGED <<object, security, helper, tasks, rx, outcome>>
        /\ duplicate' \in {duplicate, duplicate \union {c}}
    BY <1>6, <2>1 DEF onIncomingDataObject, helperVars, storeVars, Marked
  <2>3. c \in Copies /\ Still /\ Shrunk(events, events', h) BY <2>1, <2>2, NoticeStill
  <2>4. Early(d)' <=> Early(d) BY <2>2 DEF Early
  <2>5. \A p : At(p, d)' <=> At(p, d) BY <2>3 DEF Still
  <2>6. CASE d # c
    <3>1. h # CopyEvent("INCOMING", d) BY <2>1, <2>6, Different
    <3>2. (Inc(d)' <=> Inc(d)) /\ (InOrder(d) => InOrder(d)') /\ (Failing(d) => Failing(d)')
      BY <1>0, <2>3, <3>1, OtherShrunk
    <3>3. d \in duplicate' <=> d \in duplicate BY <2>2, <2>6
    <3>4. QED BY <1>0, <2>2, <2>4, <2>5, <3>2, <3>3, AnnouncementFrame
  <2>7. CASE d = c
    <3>1. Inc(d) BY <2>1, <2>3, <2>7 DEF Inc, Shrunk
    <3>2. Once(events, h) BY <1>0, <2>1, <2>7 DEF AnnouncementOf, InOrder
    <3>3. ~Inc(d)' BY <1>1, <2>1, <2>3, <2>7, <3>2 DEF Inc, Once, Shrunk
    <3>4. ~Early(d) /\ outcome[d] # "unused" BY <1>0, <3>1 DEF AnnouncementOf
    <3>5. InOrder(d) => InOrder(d)' BY <1>1, <2>3 DEF InOrder, Once, Shrunk
    <3>6. QED BY <1>0, <2>2, <2>4, <3>3, <3>4, <3>5, AnnouncementPast
  <2>8. QED BY <2>6, <2>7
<1>7. CASE onInsertedDataObject
  <2>1. PICK c, h : c = Head(events).copy /\ h = CopyEvent("INSERTED", c) OBVIOUS
  <2>2. /\ Handle("INSERTED") /\ events' = Tail(events)
        /\ UNCHANGED <<object, security, helper, tasks, rx, outcome, duplicate>>
    BY <1>7 DEF onInsertedDataObject, helperVars, storeVars, copyVars
  <2>3. c \in Copies /\ Still /\ Shrunk(events, events', h) BY <2>1, <2>2, NoticeStill
  <2>4. Early(d)' <=> Early(d) BY <2>2 DEF Early
  <2>5. h # CopyEvent("INCOMING", d) BY <2>1, Different
  <2>6. (Inc(d)' <=> Inc(d)) /\ (InOrder(d) => InOrder(d)') /\ (Failing(d) => Failing(d)')
    BY <1>0, <2>3, <2>5, OtherShrunk
  <2>7. QED BY <1>0, <2>2, <2>3, <2>4, <2>6, AnnouncementFrame DEF Still
<1>8. ASSUME NEW r \in Receivers, TestFilter(r) PROVE AnnouncementOf(d)'
  <2>1. PICK c : c = copies + 1 OBVIOUS
  <2>2. c \in Copies /\ ~Inc(c) /\ c \notin duplicate BY <1>8, <2>1, NewCopy
  <2>3. /\ Settle(c, "receiving")
        /\ UNCHANGED <<object, events, security, helper, tasks, duplicate>>
    BY <1>8, <2>1 DEF TestFilter, helperVars, storeVars
  <2>4. Still /\ Undisturbed BY <2>3, Calm
  <2>5. \A e : e # c => (Early(e)' <=> Early(e)) BY <1>8, <2>1, ThreadSteps
  <2>6. /\ (\A p : At(p, d)' <=> At(p, d)) /\ (Inc(d)' <=> Inc(d))
        /\ (InOrder(d) => InOrder(d)') /\ (Failing(d) => Failing(d)')
    BY <2>4 DEF Still, Undisturbed
  <2>7. CASE d # c
    <3>1. outcome'[d] = outcome[d] BY <1>2, <2>2, <2>3, <2>7
    <3>2. QED BY <1>0, <2>3, <2>5, <2>6, <2>7, <3>1, AnnouncementFrame
  <2>8. CASE d = c BY <1>0, <2>2, <2>3, <2>6, <2>8 DEF AnnouncementOf
  <2>9. QED BY <2>7, <2>8
<1>9. ASSUME NEW r \in Receivers, RaiseIncoming(r) PROVE AnnouncementOf(d)'
  <2>1. PICK c, x : c = rx[r].copy /\ x = CopyEvent("INCOMING", c) OBVIOUS
  <2>2. Still /\ Grown(events, events', x) BY <1>9, <2>1, RaiseIncomingStill
  <2>3. UNCHANGED <<outcome, duplicate>> BY <1>9 DEF RaiseIncoming, copyVars
  <2>4. /\ Receiving(c) /\ Early(c) /\ ~Early(c)'
        /\ \A e : e # c => (Early(e)' <=> Early(e))
    BY <1>9, <2>1, ThreadSteps
  <2>5. CASE d # c
    <3>1. x # CopyEvent("INCOMING", d) BY <2>1, <2>5, Different
    <3>2. (Inc(d)' <=> Inc(d)) /\ (InOrder(d) => InOrder(d)') /\ (Failing(d) => Failing(d)')
      BY <1>0, <2>2, <3>1, OtherGrown
    <3>3. QED BY <1>0, <2>2, <2>3, <2>4, <2>5, <3>2, AnnouncementFrame DEF Still
  <2>6. CASE d = c
    <3>1. outcome[d] = "receiving" /\ d \notin duplicate /\ ~Inc(d)
      BY <1>0, <2>4, <2>6 DEF FateOf, AnnouncementOf
    <3>2. ~At("RECEIVED", d) BY <1>0, <3>1 DEF FateOf
    <3>3. ~Has(events, CopyEvent("RECEIVED", d)) BY <3>2 DEF At, Work
    <3>4. InOrder(d)'
      <4>1. InOrder(d) /\ ~Has(events, x) BY <1>0, <2>1, <2>6, <3>1 DEF AnnouncementOf, Inc
      <4>2. x = CopyEvent("INCOMING", d) BY <2>1, <2>6
      <4>3. QED BY <1>1, <2>2, <3>3, <4>1, <4>2 DEF InOrder, Once, Grown
    <3>5. QED BY <2>3, <2>4, <2>6, <3>1, <3>4 DEF AnnouncementOf
  <2>7. QED BY <2>5, <2>6
<1>10. ASSUME NEW r \in Receivers, ReceiveFails(r) PROVE AnnouncementOf(d)'
  <2>1. PICK c, x : c = rx[r].copy /\ x = Deleted(object[c], FALSE) OBVIOUS
  <2>2. c \in Copies /\ Still /\ Undisturbed /\ Grown(events, events', x)
    BY <1>10, <2>1, ReceiveFailsStill
  <2>3. UNCHANGED duplicate /\ Settle(c, "failed") BY <1>10, <2>1 DEF ReceiveFails
  <2>4. ~Early(c)' /\ \A e : e # c => (Early(e)' <=> Early(e)) BY <1>10, <2>1, ThreadSteps
  <2>5. /\ (\A p : At(p, d)' <=> At(p, d)) /\ (Inc(d)' <=> Inc(d))
        /\ (InOrder(d) => InOrder(d)') /\ (Failing(d) => Failing(d)')
    BY <2>2 DEF Still, Undisturbed
  <2>6. CASE d # c
    <3>1. outcome'[d] = outcome[d] BY <1>2, <2>2, <2>3, <2>6
    <3>2. QED BY <1>0, <2>3, <2>4, <2>5, <2>6, <3>1, AnnouncementFrame
  <2>7. CASE d = c
    <3>1. outcome'[d] = "failed" BY <1>2, <2>2, <2>3, <2>7
    <3>2. CopyEvent("INCOMING", d) # x BY <2>1, OtherKinds
    <3>3. Failing(d)' BY <1>0, <1>1, <2>1, <2>2, <2>7, <3>2 DEF Failing, Grown
    <3>4. QED BY <1>0, <2>3, <2>4, <2>5, <2>7, <3>1, <3>3 DEF AnnouncementOf
  <2>8. QED BY <2>6, <2>7
<1>11. ASSUME NEW r \in Receivers, ReceiveDone(r) PROVE AnnouncementOf(d)'
  <2>1. PICK c, x : c = rx[r].copy /\ x = CopyEvent("RECEIVED", c) OBVIOUS
  <2>2. c \in Copies /\ Moved(c, {"RECEIVED"}) /\ Grown(events, events', x)
    BY <1>11, <2>1, ReceiveDoneMoves
  <2>3. UNCHANGED duplicate /\ Settle(c, "acknowledged") BY <1>11, <2>1 DEF ReceiveDone
  <2>4. ~Early(c)' /\ \A e : e # c => (Early(e)' <=> Early(e)) BY <1>11, <2>1, ThreadSteps
  <2>5. x # CopyEvent("INCOMING", d) BY <2>1, Different
  <2>6. (Inc(d)' <=> Inc(d)) /\ (InOrder(d) => InOrder(d)') /\ (Failing(d) => Failing(d)')
    BY <1>0, <2>2, <2>5, OtherGrown
  <2>7. CASE d # c
    <3>1. outcome'[d] = outcome[d] BY <1>2, <2>2, <2>3, <2>7
    <3>2. \A p : At(p, d)' <=> At(p, d) BY <2>2, <2>7 DEF Moved
    <3>3. QED BY <1>0, <2>3, <2>4, <2>6, <2>7, <3>1, <3>2, AnnouncementFrame
  <2>8. CASE d = c
    <3>1. outcome'[d] = "acknowledged" BY <1>2, <2>2, <2>3, <2>8
    <3>2. At("RECEIVED", d)' BY <2>2, <2>8 DEF Moved
    <3>3. QED BY <1>0, <2>3, <2>4, <2>6, <2>8, <3>1, <3>2 DEF AnnouncementOf
  <2>9. QED BY <2>7, <2>8
<1>12. QED BY <1>3, <1>4, <1>5, <1>6, <1>7, <1>8, <1>9, <1>10, <1>11, Kinds DEF OfNoCopy

\* A thread that does something else does not take an accepted copy away.
LEMMA AcceptedStays ==
    ASSUME IInv, NEW r \in Receivers, rx[r].pc # "accepted", NEW label, NEW c, Step(r, label, c)
    PROVE  \A d : Accepted(d) => Accepted(d)'
<1>1. rx \in [Receivers -> [pc : {"idle", "tested", "accepted", "receiving"},
                            copy : Copies \union {NoCopy}]]
  BY DEF IInv, Typed, TypeOK
<1>2. \A u \in Receivers : u # r => rx'[u] = rx[u] BY <1>1 DEF Step
<1>3. QED BY <1>2 DEF Accepted

\* A step that leaves the filters and the announcements alone.
LEMMA FiltersFrame ==
    ASSUME Filters, UNCHANGED <<object, doBF, localBF>>,
           \A c \in Copies : (Accepted(c) => Accepted(c)' \/ Inc(c)') /\ (Inc(c) => Inc(c)')
    PROVE  Filters'
<1>1. \A o : Awaited(o) => Awaited(o)' BY DEF Awaited
<1>2. QED BY <1>1 DEF Filters

\* A step that makes both filters the same.
LEMMA FiltersSame == ASSUME doBF' = localBF' PROVE Filters'
BY DEF Filters

\* The protocol threads' filter is still ahead by objects that are awaited.
LEMMA FiltersStep == ASSUME IInv, Next PROVE Filters'
<1>0. Filters /\ object' = object BY ApartStep DEF IInv
<1>1. \A u, c : CopyEvent(u, c)' = CopyEvent(u, c) BY <1>0, Fixed
<1>2. UNCHANGED rx => \A c : Accepted(c)' <=> Accepted(c) BY DEF Accepted
<1>3. CASE Handlers
  <2>1. Undisturbed /\ UNCHANGED <<rx, doBF, localBF>>
    BY <1>3, HandlersHandOver DEF Handover, aside, filterVars
  <2>2. QED BY <1>0, <1>2, <2>1, FiltersFrame DEF Undisturbed
<1>4. CASE _insertDataObject
  <2>1. PICK h, c, x : h = Head(tasks) /\ c = h.copy /\ x = CopyEvent("INSERTED", c) OBVIOUS
  <2>2. Grown(events, events', x) BY <1>4, <2>1, InsertMoves
  <2>3. UNCHANGED <<rx, doBF, localBF>> BY <1>4 DEF _insertDataObject, filterVars
  <2>4. \A d : Inc(d) => Inc(d)' BY <1>1, <2>2 DEF Inc, Grown
  <2>5. QED BY <1>0, <1>2, <2>3, <2>4, FiltersFrame
<1>5. CASE _deleteDataObject \/ \E o \in Objects, keep \in BOOLEAN : deleteDataObject(o, keep)
  <2>1. \A d \in Copies : Inc(d)' <=> Inc(d) BY <1>5, NoCopyTouched DEF OfNoCopy
  <2>2. UNCHANGED <<rx, doBF, localBF>> BY <1>5 DEF _deleteDataObject, deleteDataObject, filterVars
  <2>3. QED BY <1>0, <1>2, <2>1, <2>2, FiltersFrame
<1>6. CASE onPeriodicBloomfilterUpdate
  BY <1>6, FiltersSame DEF onPeriodicBloomfilterUpdate, setBloomfilter
<1>7. CASE onDeletedDataObject
  <2>1. \A d \in Copies : Inc(d)' <=> Inc(d) BY <1>7, NoCopyTouched DEF OfNoCopy
  <2>2. UNCHANGED rx /\ (doBF' = localBF' \/ UNCHANGED <<doBF, localBF>>)
    BY <1>7 DEF onDeletedDataObject, setBloomfilter
  <2>3. QED BY <1>0, <1>2, <2>1, <2>2, FiltersFrame, FiltersSame
<1>8. CASE onInsertedDataObject
  <2>1. PICK c, h : c = Head(events).copy /\ h = CopyEvent("INSERTED", c) OBVIOUS
  <2>2. /\ Handle("INSERTED") /\ events' = Tail(events)
        /\ UNCHANGED <<object, security, helper, tasks, rx, doBF, localBF>>
    BY <1>8 DEF onInsertedDataObject, helperVars, storeVars, copyVars, filterVars
  <2>3. Shrunk(events, events', h) BY <2>1, <2>2, NoticeStill
  <2>4. \A d : h # CopyEvent("INCOMING", d) BY <2>1, Different
  <2>5. \A d : Inc(d)' <=> Inc(d) BY <1>0, <2>3, <2>4, OtherShrunk
  <2>6. QED BY <1>0, <1>2, <2>2, <2>5, FiltersFrame
<1>9. CASE onIncomingDataObject
  <2>1. PICK c, h, o : c = Head(events).copy /\ h = CopyEvent("INCOMING", c) /\ o = Head(events).object
    OBVIOUS
  <2>2. /\ Handle("INCOMING") /\ events' = Tail(events)
        /\ UNCHANGED <<object, security, helper, tasks, rx>>
    BY <1>9 DEF onIncomingDataObject, helperVars, storeVars
  <2>3. c \in Copies /\ Shrunk(events, events', h) /\ o = object[c] BY <2>1, <2>2, NoticeStill
  <2>4. /\ localBF' = localBF \union {o}
        /\ \/ o \in localBF /\ doBF' = doBF
           \/ doBF' = doBF \union {o}
           \/ doBF' = localBF'
    BY <1>9, <2>1 DEF onIncomingDataObject, setBloomfilter
  <2>5. CASE doBF' = localBF' BY <2>5, FiltersSame
  <2>6. CASE (o \in localBF /\ doBF' = doBF) \/ doBF' = doBF \union {o}
    <3>1. localBF' \subseteq doBF' BY <1>0, <2>4, <2>6 DEF Filters
    <3>2. ASSUME NEW w \in doBF' \ localBF' PROVE Awaited(w)'
      <4>1. w \in doBF \ localBF /\ w # o BY <2>4, <2>6, <3>2
      <4>2. PICK d \in Copies : object[d] = w /\ (Accepted(d) \/ Inc(d))
        BY <1>0, <4>1 DEF Filters, Awaited
      <4>3. d # c BY <2>3, <4>1, <4>2
      <4>4. h # CopyEvent("INCOMING", d) BY <2>1, <4>3, Different
      <4>5. Inc(d)' <=> Inc(d) BY <1>0, <2>3, <4>4, OtherShrunk
      <4>6. Accepted(d)' <=> Accepted(d) BY <1>2, <2>2
      <4>7. QED BY <1>0, <4>2, <4>5, <4>6 DEF Awaited
    <3>3. QED BY <3>1, <3>2 DEF Filters
  <2>7. QED BY <2>4, <2>5, <2>6
<1>10. ASSUME NEW r \in Receivers, TestFilter(r) PROVE Filters'
  <2>1. PICK c : c = copies + 1 OBVIOUS
  <2>2. /\ UNCHANGED <<object, events, doBF, localBF>> /\ rx[r].pc # "accepted"
        /\ Step(r, "tested", c)
    BY <1>10, <2>1 DEF TestFilter, filterVars
  <2>3. \A d : Accepted(d) => Accepted(d)' BY <2>2, AcceptedStays
  <2>4. \A d : Inc(d)' <=> Inc(d) BY <1>1, <2>2 DEF Inc
  <2>5. QED BY <1>0, <2>2, <2>3, <2>4, FiltersFrame
<1>11. ASSUME NEW r \in Receivers, Accept(r) PROVE Filters'
  <2>1. PICK c, o : c = rx[r].copy /\ o = object[c] OBVIOUS
  <2>2. /\ UNCHANGED <<object, events, localBF>> /\ rx[r].pc # "accepted"
        /\ Step(r, "accepted", c) /\ doBF' = doBF \union {o}
    BY <1>11, <2>1 DEF Accept, copyVars
  <2>3. \A d : Accepted(d) => Accepted(d)' BY <2>2, AcceptedStays
  <2>4. \A d : Inc(d)' <=> Inc(d) BY <1>1, <2>2 DEF Inc
  <2>5. Accepted(c)' BY <2>2 DEF Step, IInv, Typed, TypeOK, Accepted
  <2>6. c \in Copies BY <1>11, <2>1, ThreadSteps
  <2>7. Awaited(o)' BY <1>0, <2>1, <2>5, <2>6 DEF Awaited
  <2>8. \A w : Awaited(w) => Awaited(w)' BY <1>0, <2>3, <2>4 DEF Awaited
  <2>9. QED BY <1>0, <2>2, <2>7, <2>8 DEF Filters
<1>12. ASSUME NEW r \in Receivers, RaiseIncoming(r) PROVE Filters'
  <2>1. PICK c, x : c = rx[r].copy /\ x = CopyEvent("INCOMING", c) OBVIOUS
  <2>2. Grown(events, events', x) BY <1>12, <2>1, RaiseIncomingStill
  <2>3. UNCHANGED <<doBF, localBF>> /\ Step(r, "receiving", c)
    BY <1>12, <2>1 DEF RaiseIncoming, filterVars
  <2>4. Inc(c)' /\ \A d : Inc(d) => Inc(d)' BY <1>1, <2>1, <2>2 DEF Inc, Grown
  <2>5. \A u \in Receivers : u # r => rx'[u] = rx[u] BY <2>3 DEF Step, IInv, Typed, TypeOK
  <2>6. \A d : Accepted(d) => Accepted(d)' \/ d = c BY <2>1, <2>5 DEF Accepted
  <2>7. QED BY <1>0, <2>3, <2>4, <2>6, FiltersFrame
<1>13. ASSUME NEW r \in Receivers, ReceiveDone(r) \/ ReceiveFails(r) PROVE Filters'
  <2>1. PICK c : c = rx[r].copy OBVIOUS
  <2>2. /\ UNCHANGED <<doBF, localBF>> /\ rx[r].pc # "accepted" /\ Step(r, "idle", NoCopy)
    BY <1>13 DEF ReceiveDone, ReceiveFails, filterVars
  <2>3. \E x : Grown(events, events', x) BY <1>13, <2>1, ReceiveDoneMoves, ReceiveFailsStill
  <2>4. \A d : Inc(d) => Inc(d)' BY <1>1, <2>3 DEF Inc, Grown
  <2>5. \A d : Accepted(d) => Accepted(d)' BY <2>2, AcceptedStays
  <2>6. QED BY <1>0, <2>2, <2>4, <2>5, FiltersFrame
<1>14. QED
  BY <1>3, <1>4, <1>5, <1>6, <1>7, <1>8, <1>9, <1>10, <1>11, <1>12, <1>13, Kinds

\* The copy is a reason for its object to be in the filter.
Because(c) == outcome[c] = "withheld" \/ Expected(c)

\* A copy that a step does not touch.
LEMMA BecauseFrame ==
    ASSUME NEW d, outcome'[d] = outcome[d], d \in duplicate' => d \in duplicate,
           Early(d)' => Early(d), Inc(d)' => Inc(d)
    PROVE  Because(d) => Because(d)'
BY DEF Because, Expected

\* The reasons that may become void one by one.
LEMMA ReasonFrame ==
    ASSUME UNCHANGED object, NEW o, Reason(o),
           o \in store => o \in store' \/ Deletion(o)', o \in kept => o \in kept',
           \A d \in Copies : object[d] = o /\ Because(d) => Because(d)' \/ Deletion(o)' \/ o \in store',
           Deletion(o) => Deletion(o)'
    PROVE  Reason(o)'
<1>1. CASE o \in store \union kept BY <1>1 DEF Reason
<1>2. ASSUME NEW d \in Copies, object[d] = o, Because(d) PROVE Reason(o)'
  <2>1. Because(d)' \/ Deletion(o)' \/ o \in store' BY <1>2
  <2>2. QED BY <1>2, <2>1 DEF Reason, Because
<1>3. CASE Deletion(o) BY <1>3 DEF Reason
<1>4. QED BY <1>1, <1>2, <1>3 DEF Reason, Because

\* Every object in the filter still has a reason to be there.
LEMMA ExplainedStep == ASSUME IInv, Next PROVE Explained'
<1> SUFFICES ASSUME NEW o \in localBF' PROVE Reason(o)' BY DEF Explained
<1>0. /\ object' = object /\ (o \in localBF => Reason(o))
      /\ outcome \in [Copies -> {"unused", "receiving", "acknowledged", "failed",
                                 "duplicate", "refused", "withheld", "stored"}]
  BY ApartStep DEF IInv, Explained, Typed, TypeOK
<1>1. \A u, c : CopyEvent(u, c)' = CopyEvent(u, c) BY <1>0, Fixed
<1>2. ASSUME NEW c \in Copies, NEW fate, Settle(c, fate)
      PROVE  outcome'[c] = fate /\ \A d \in Copies : d # c => outcome'[d] = outcome[d]
  BY <1>0, <1>2 DEF Settle
<1>3. \A d \in Copies : FateOf(d) /\ AnnouncementOf(d) BY DEF IInv, Fate, Announcement
<1>4. UNCHANGED rx => \A d : Early(d)' <=> Early(d) BY DEF Early
<1>5. ASSUME NEW x, Grown(events, events', x) PROVE Deletion(o) => Deletion(o)'
  BY <1>5 DEF Deletion, Grown
<1>6. CASE Handlers
  <2>1. Handover BY <1>6, HandlersHandOver
  <2>2. /\ UNCHANGED <<rx, duplicate, localBF, store, kept>>
        /\ \A d \in Copies : Inc(d)' <=> Inc(d)
        /\ Deletion(o) => Deletion(o)'
    BY <2>1 DEF Handover, aside, Undisturbed, filterVars
  <2>3. PICK c \in Copies : /\ \E p : At(p, c)
                            /\ (\E fate : Settles(c, fate)) \/ (\E q : GoesOn(c, q))
    BY <2>1 DEF Handover
  <2>4. ASSUME NEW d \in Copies, object[d] = o, Because(d) PROVE Because(d)' \/ Deletion(o)'
    <3>1. outcome'[d] = outcome[d] => Because(d)' BY <1>4, <2>2, <2>4, BecauseFrame
    <3>2. CASE d # c
      <4>1. outcome'[d] = outcome[d] BY <1>2, <2>3, <3>2 DEF Settles, GoesOn
      <4>2. QED BY <3>1, <4>1
    <3>3. CASE d = c /\ \E q : GoesOn(c, q) BY <3>1, <3>3 DEF GoesOn
    <3>4. ASSUME NEW fate, d = c, Settles(c, fate) PROVE Because(d)' \/ Deletion(o)'
      <4>1. outcome[d] = "acknowledged" BY <1>3, <2>3, <3>4 DEF FateOf
      <4>2. d \notin duplicate BY <2>4, <4>1 DEF Because, Expected
      <4>3. fate \in {"refused", "withheld"} /\ (fate = "refused" => Deletion(object[d])')
        BY <3>4, <4>2 DEF Settles
      <4>4. outcome'[d] = fate BY <1>2, <3>4 DEF Settles
      <4>5. (Deletion(object[d]))' => Deletion(o)' BY <1>0, <2>4
      <4>6. QED BY <4>3, <4>4, <4>5 DEF Because
    <3>5. QED BY <2>3, <3>2, <3>3, <3>4
  <2>5. QED BY <1>0, <2>2, <2>4, ReasonFrame
<1>7. CASE _insertDataObject
  <2>1. PICK h, c, fate, x : /\ h = Head(tasks) /\ c = h.copy
                             /\ fate = IF h.object \in store THEN "duplicate" ELSE "stored"
                             /\ x = CopyEvent("INSERTED", c)
    OBVIOUS
  <2>2. c \in Copies /\ Grown(events, events', x) /\ h.object = object[c] BY <1>7, <2>1, InsertMoves
  <2>3. /\ UNCHANGED <<rx, localBF, kept>> /\ Settle(c, fate)
        /\ duplicate' \in {duplicate, duplicate \union {c}} /\ store' = store \union {object[c]}
    BY <1>7, <2>1, <2>2 DEF _insertDataObject, StoreMarks, filterVars
  <2>4. \A d : x # CopyEvent("INCOMING", d) BY <2>1, Different
  <2>5. \A d : Inc(d)' <=> Inc(d) BY <1>0, <2>2, <2>4, OtherGrown
  <2>6. ASSUME NEW d \in Copies, object[d] = o, Because(d) PROVE Because(d)' \/ o \in store'
    <3>1. CASE d = c BY <2>3, <2>6, <3>1
    <3>2. CASE d # c
      <4>1. outcome'[d] = outcome[d] /\ (d \in duplicate' => d \in duplicate)
        BY <1>2, <2>2, <2>3, <3>2
      <4>2. QED BY <1>4, <2>3, <2>5, <2>6, <4>1, BecauseFrame
    <3>3. QED BY <3>1, <3>2
  <2>7. QED BY <1>0, <1>5, <2>2, <2>3, <2>6, ReasonFrame
<1>8. CASE onDeletedDataObject
  <2>1. PICK h, x : h = Head(events) /\ x = Deleted(h.object, h.keep) OBVIOUS
  <2>2. Shrunk(events, events', x) BY <1>8, <2>1, DeletedStill
  <2>3. /\ UNCHANGED <<outcome, duplicate>>
        /\ \A d \in Copies : (Inc(d)' <=> Inc(d)) /\ (Early(d)' <=> Early(d))
    BY <1>8, NoCopyTouched DEF OfNoCopy
  <2>4. \A d \in Copies : Because(d) => Because(d)' BY <2>3, BecauseFrame
  <2>5. /\ localBF' = IF ~h.keep /\ h.object \in localBF THEN localBF \ {h.object} ELSE localBF
        /\ kept' = IF h.keep /\ h.object \in localBF THEN kept \union {h.object}
                   ELSE IF ~h.keep /\ h.object \in localBF THEN kept \ {h.object} ELSE kept
        /\ UNCHANGED store
    BY <1>8, <2>1 DEF onDeletedDataObject, storeVars
  <2>6. o \in localBF BY <2>5
  <2>7. CASE o = h.object
    <3>1. o \in kept' BY <2>5, <2>6, <2>7
    <3>2. QED BY <3>1 DEF Reason
  <2>8. CASE o # h.object
    <3>1. \A k : Deleted(o, k) # x BY <2>1, <2>8, Different
    <3>2. Deletion(o) => Deletion(o)' BY <2>2, <3>1 DEF Deletion, Shrunk
    <3>3. o \in kept => o \in kept' BY <2>5, <2>8
    <3>4. QED BY <1>0, <2>4, <2>5, <2>6, <3>2, <3>3, ReasonFrame
  <2>9. QED BY <2>7, <2>8
<1>9. CASE _deleteDataObject
  <2>1. PICK h, x : h = Head(tasks) /\ x = Deleted(h.object, h.keep) OBVIOUS
  <2>2. /\ h.keep \in BOOLEAN
        /\ IF h.object \in store THEN Grown(events, events', x) ELSE events' = events
    BY <1>9, <2>1, _deleteDataObjectStill
  <2>3. /\ UNCHANGED <<outcome, duplicate>>
        /\ \A d \in Copies : (Inc(d)' <=> Inc(d)) /\ (Early(d)' <=> Early(d))
    BY <1>9, NoCopyTouched DEF OfNoCopy
  <2>4. \A d \in Copies : Because(d) => Because(d)' BY <2>3, BecauseFrame
  <2>5. UNCHANGED <<localBF, kept>> /\ store' = store \ {h.object}
    BY <1>9, <2>1 DEF _deleteDataObject, filterVars
  <2>6. events' = events => (Deletion(o) => Deletion(o)') BY DEF Deletion
  <2>7. Deletion(o) => Deletion(o)' BY <1>5, <2>2, <2>6
  <2>8. ASSUME o \in store, o \notin store' PROVE Deletion(o)'
    <3>1. o = h.object /\ Grown(events, events', x) BY <2>2, <2>5, <2>8
    <3>2. Has(events', Deleted(o, h.keep)) BY <2>1, <3>1 DEF Grown
    <3>3. QED BY <2>2, <3>2 DEF Deletion
  <2>9. QED BY <1>0, <2>4, <2>5, <2>7, <2>8, ReasonFrame
<1>10. CASE \/ onPeriodicBloomfilterUpdate
            \/ \E p \in Objects, keep \in BOOLEAN : deleteDataObject(p, keep)
            \/ \E r \in Receivers : Accept(r)
  <2>1. /\ UNCHANGED <<outcome, duplicate>>
        /\ \A d \in Copies : (Inc(d)' <=> Inc(d)) /\ (Early(d)' <=> Early(d))
    BY <1>10, NoCopyTouched DEF OfNoCopy
  <2>2. \A d \in Copies : Because(d) => Because(d)' BY <2>1, BecauseFrame
  <2>3. UNCHANGED <<events, localBF, kept, store>>
    BY <1>10 DEF onPeriodicBloomfilterUpdate, deleteDataObject, Accept, storeVars, filterVars
  <2>4. Deletion(o) => Deletion(o)' BY <2>3 DEF Deletion
  <2>5. QED BY <1>0, <2>2, <2>3, <2>4, ReasonFrame
<1>11. CASE onInsertedDataObject
  <2>1. PICK c, h : c = Head(events).copy /\ h = CopyEvent("INSERTED", c) OBVIOUS
  <2>2. /\ Handle("INSERTED") /\ events' = Tail(events)
        /\ UNCHANGED <<object, security, helper, tasks, rx, outcome, duplicate, store, kept, localBF>>
    BY <1>11 DEF onInsertedDataObject, helperVars, storeVars, copyVars, filterVars
  <2>3. Shrunk(events, events', h) BY <2>1, <2>2, NoticeStill
  <2>4. \A d : h # CopyEvent("INCOMING", d) BY <2>1, Different
  <2>5. \A d : Inc(d)' <=> Inc(d) BY <1>0, <2>3, <2>4, OtherShrunk
  <2>6. \A d : Because(d) => Because(d)' BY <1>4, <2>2, <2>5, BecauseFrame
  <2>7. \A k : Deleted(o, k) # h BY <2>1, OtherKinds
  <2>8. Deletion(o) => Deletion(o)' BY <2>3, <2>7 DEF Deletion, Shrunk
  <2>9. QED BY <1>0, <2>2, <2>6, <2>8, ReasonFrame
<1>12. CASE onIncomingDataObject
  <2>1. PICK c, h : c = Head(events).copy /\ h = CopyEvent("INCOMING", c) OBVIOUS
  <2>2. /\ Handle("INCOMING") /\ events' = Tail(events)
        /\ UNCHANGED <<object, security, helper, tasks, rx, outcome, store, kept>>
    BY <1>12 DEF onIncomingDataObject, helperVars, storeVars
  <2>3. c \in Copies /\ Shrunk(events, events', h) /\ Head(events).object = object[c]
    BY <2>1, <2>2, NoticeStill
  <2>4. /\ localBF' = localBF \union {object[c]}
        /\ duplicate' = IF object[c] \in localBF THEN duplicate \union {c} ELSE duplicate
    BY <1>12, <2>1, <2>3 DEF onIncomingDataObject, Marked
  <2>5. Inc(c) BY <2>1, <2>3 DEF Inc, Shrunk
  <2>6. CASE o \in localBF
    <3>1. ASSUME NEW d \in Copies, Because(d) PROVE Because(d)'
      <4>1. CASE d = c
        <5>1. outcome[d] = "withheld" BY <2>5, <3>1, <4>1 DEF Because, Expected
        <5>2. QED BY <2>2, <5>1 DEF Because
      <4>2. CASE d # c
        <5>1. h # CopyEvent("INCOMING", d) BY <2>1, <4>2, Different
        <5>2. Inc(d)' <=> Inc(d) BY <1>0, <2>3, <5>1, OtherShrunk
        <5>3. d \in duplicate' => d \in duplicate BY <2>4, <4>2
        <5>4. QED BY <1>4, <2>2, <3>1, <5>2, <5>3, BecauseFrame
      <4>3. QED BY <4>1, <4>2
    <3>2. \A k : Deleted(o, k) # h BY <2>1, OtherKinds
    <3>3. Deletion(o) => Deletion(o)' BY <2>3, <3>2 DEF Deletion, Shrunk
    <3>4. QED BY <1>0, <2>2, <2>6, <3>1, <3>3, ReasonFrame
  <2>7. CASE o \notin localBF
    <3>1. o = object[c] /\ duplicate' = duplicate BY <2>4, <2>7
    <3>2. /\ c \notin duplicate /\ ~Early(c) /\ InOrder(c)
          /\ \/ outcome[c] = "receiving"
             \/ At("RECEIVED", c)
             \/ Failing(c)
      BY <1>3, <2>3, <2>5 DEF AnnouncementOf
    <3>3. ~Inc(c)' BY <1>1, <2>1, <2>3, <3>2 DEF InOrder, Inc, Once, Shrunk
    <3>4. ~Early(c)' BY <1>4, <2>2, <3>2
    <3>5. CASE outcome[c] = "receiving" \/ At("RECEIVED", c)
      <4>1. outcome[c] \in {"receiving", "acknowledged"} BY <1>3, <2>3, <3>5 DEF FateOf
      <4>2. Expected(c)' BY <2>2, <3>1, <3>2, <3>3, <3>4, <4>1 DEF Expected
      <4>3. QED BY <1>0, <2>3, <3>1, <4>2 DEF Reason
    <3>6. CASE Failing(c)
      <4>1. Has(events', Deleted(o, FALSE)) BY <2>1, <2>3, <3>1, <3>6 DEF Failing, Shrunk
      <4>2. Deletion(o)' BY <4>1 DEF Deletion
      <4>3. QED BY <4>2 DEF Reason
    <3>7. QED BY <3>2, <3>5, <3>6
  <2>8. QED BY <2>6, <2>7
<1>13. ASSUME NEW r \in Receivers, TestFilter(r) PROVE Reason(o)'
  <2>1. PICK c : c = copies + 1 OBVIOUS
  <2>2. c \in Copies /\ outcome[c] = "unused" BY <1>13, <2>1, NewCopy
  <2>3. Settle(c, "receiving") /\ UNCHANGED <<object, events, duplicate, store, kept, localBF>>
    BY <1>13, <2>1 DEF TestFilter, storeVars, filterVars
  <2>4. \A e : e # c => (Early(e)' <=> Early(e)) BY <1>13, <2>1, ThreadSteps
  <2>5. \A d : Inc(d)' <=> Inc(d) BY <1>1, <2>3 DEF Inc
  <2>6. ASSUME NEW d \in Copies, Because(d) PROVE Because(d)'
    <3>1. d # c BY <2>2, <2>6 DEF Because, Expected
    <3>2. outcome'[d] = outcome[d] BY <1>2, <2>2, <2>3, <3>1
    <3>3. QED BY <2>3, <2>4, <2>5, <2>6, <3>1, <3>2, BecauseFrame
  <2>7. Deletion(o) => Deletion(o)' BY <2>3 DEF Deletion
  <2>8. QED BY <1>0, <2>3, <2>6, <2>7, ReasonFrame
<1>14. ASSUME NEW r \in Receivers, RaiseIncoming(r) PROVE Reason(o)'
  <2>1. PICK c, x : c = rx[r].copy /\ x = CopyEvent("INCOMING", c) OBVIOUS
  <2>2. Grown(events, events', x) BY <1>14, <2>1, RaiseIncomingStill
  <2>3. UNCHANGED <<outcome, duplicate, store, kept, localBF>>
    BY <1>14 DEF RaiseIncoming, copyVars, storeVars, filterVars
  <2>4. /\ c \in Copies /\ Receiving(c) /\ Early(c)
        /\ \A e : e # c => (Early(e)' <=> Early(e))
    BY <1>14, <2>1, ThreadSteps
  <2>5. ASSUME NEW d \in Copies, Because(d) PROVE Because(d)'
    <3>1. d # c BY <1>3, <2>4, <2>5 DEF Because, Expected, FateOf
    <3>2. x # CopyEvent("INCOMING", d) BY <2>1, <3>1, Different
    <3>3. Inc(d)' <=> Inc(d) BY <1>0, <2>2, <3>2, OtherGrown
    <3>4. QED BY <2>3, <2>4, <2>5, <3>1, <3>3, BecauseFrame
  <2>6. QED BY <1>0, <1>5, <2>2, <2>3, <2>5, ReasonFrame
<1>15. ASSUME NEW r \in Receivers, ReceiveDone(r) PROVE Reason(o)'
  <2>1. PICK c, x : c = rx[r].copy /\ x = CopyEvent("RECEIVED", c) OBVIOUS
  <2>2. c \in Copies /\ Grown(events, events', x) BY <1>15, <2>1, ReceiveDoneMoves
  <2>3. UNCHANGED <<duplicate, store, kept, localBF>> /\ Settle(c, "acknowledged")
    BY <1>15, <2>1 DEF ReceiveDone, storeVars, filterVars
  <2>4. Receiving(c) /\ ~Early(c)' /\ \A e : e # c => (Early(e)' <=> Early(e))
    BY <1>15, <2>1, ThreadSteps
  <2>5. \A d : x # CopyEvent("INCOMING", d) BY <2>1, Different
  <2>6. \A d : Inc(d)' <=> Inc(d) BY <1>0, <2>2, <2>5, OtherGrown
  <2>7. ASSUME NEW d \in Copies, Because(d) PROVE Because(d)'
    <3>1. CASE d # c
      <4>1. outcome'[d] = outcome[d] BY <1>2, <2>2, <2>3, <3>1
      <4>2. QED BY <2>3, <2>4, <2>6, <2>7, <3>1, <4>1, BecauseFrame
    <3>2. CASE d = c
      <4>1. outcome[d] = "receiving" BY <1>3, <2>4, <3>2 DEF FateOf
      <4>2. outcome'[d] = "acknowledged" BY <1>2, <2>2, <2>3, <3>2
      <4>3. QED BY <2>3, <2>4, <2>6, <2>7, <3>2, <4>1, <4>2 DEF Because, Expected
    <3>3. QED BY <3>1, <3>2
  <2>8. QED BY <1>0, <1>5, <2>2, <2>3, <2>7, ReasonFrame
<1>16. ASSUME NEW r \in Receivers, ReceiveFails(r) PROVE Reason(o)'
  <2>1. PICK c, x : c = rx[r].copy /\ x = Deleted(object[c], FALSE) OBVIOUS
  <2>2. c \in Copies /\ Undisturbed /\ Grown(events, events', x) BY <1>16, <2>1, ReceiveFailsStill
  <2>3. UNCHANGED <<duplicate, store, kept, localBF>> /\ Settle(c, "failed")
    BY <1>16, <2>1 DEF ReceiveFails, storeVars, filterVars
  <2>4. \A e : e # c => (Early(e)' <=> Early(e)) BY <1>16, <2>1, ThreadSteps
  <2>5. Has(events', x) BY <2>2 DEF Grown
  <2>6. ASSUME NEW d \in Copies, object[d] = o, Because(d) PROVE Because(d)' \/ Deletion(o)'
    <3>1. CASE d # c
      <4>1. outcome'[d] = outcome[d] BY <1>2, <2>2, <2>3, <3>1
      <4>2. QED BY <2>2, <2>3, <2>4, <2>6, <3>1, <4>1, BecauseFrame DEF Undisturbed
    <3>2. CASE d = c
      <4>1. Has(events', Deleted(o, FALSE)) BY <2>1, <2>5, <2>6, <3>2
      <4>2. QED BY <4>1 DEF Deletion
    <3>3. QED BY <3>1, <3>2
  <2>7. QED BY <1>0, <1>5, <2>2, <2>3, <2>6, ReasonFrame
<1>17. QED BY <1>6, <1>7, <1>8, <1>9, <1>10, <1>11, <1>12, <1>13, <1>14, <1>15, <1>16, Kinds

\* The program starts with nothing queued and nothing known.
LEMMA InitIInv == ASSUME Init PROVE IInv
<1>1. /\ rx = [r \in Receivers |-> [pc |-> "idle", copy |-> NoCopy]]
      /\ events = <<>> /\ security = <<>> /\ helper = <<>> /\ tasks = <<>>
      /\ outcome = [c \in Copies |-> "unused"]
      /\ duplicate = {} /\ news = {} /\ doBF = {} /\ localBF = {}
  BY DEF Init
<1>2. \A r \in Receivers : rx[r].pc = "idle" BY <1>1
<1>3. \A d : ~Receiving(d) /\ ~Early(d) BY <1>2 DEF Receiving, Early
<1>4. Typed
  <2>1. 0 \in 0..MaxCopies /\ 0 \in 0..MaxDeletes OBVIOUS
  <2>2. TypeOK BY <2>1 DEF Init, TypeOK
  <2>3. events \in Seq(Events) /\ tasks \in Seq(Tasks) BY <1>1
  <2>4. QED BY <1>2, <2>2, <2>3 DEF Typed, Threads
<1>5. \A e : ~Has(events, e) /\ ~Has(security, e) /\ ~Has(helper, e) /\ ~Has(tasks, e)
  BY <1>1 DEF Has
<1>6. \A a, b : /\ Before(events, a, b) /\ Before(security, a, b)
                /\ Before(helper, a, b) /\ Before(tasks, a, b)
  BY <1>1 DEF Before
<1>7. \A p, c : ~At(p, c) BY <1>5 DEF At
<1>8. Apart /\ Singly BY <1>6, <1>7 DEF Apart, Singly, Once
<1>9. \A c : ~Inc(c) /\ ~Ins(c) BY <1>5 DEF Inc, Ins
<1>10. Fate BY <1>1, <1>3, <1>7, <1>9 DEF Fate, FateOf
<1>11. Announcement BY <1>1, <1>6, <1>9 DEF Announcement, AnnouncementOf, InOrder, Once
<1>12. Filters /\ Explained BY <1>1 DEF Filters, Explained
<1>13. QED BY <1>4, <1>8, <1>10, <1>11, <1>12 DEF IInv

\* Nothing changes when no action is taken.
LEMMA StutterIInv == ASSUME IInv, UNCHANGED vars PROVE IInv'
<1>1. /\ UNCHANGED <<periodic, rx, object, outcome, duplicate, copies, doBF, localBF, events>>
      /\ UNCHANGED <<security, helper, tasks, store, news, kept, deletes>>
  BY DEF vars, copyVars, filterVars, helperVars, storeVars
<1>2. \A t, c : CopyEvent(t, c)' = CopyEvent(t, c) BY <1>1, Fixed
<1>3. \A c : Insert(c)' = Insert(c) BY <1>1, Fixed
<1>4. Events' = Events /\ Tasks' = Tasks BY <1>1, Fixed
<1>5. Typed' BY <1>1, <1>4 DEF IInv, Typed, TypeOK, Threads
<1>6. Still /\ Undisturbed BY <1>1, Calm
<1>7. \A d : (Receiving(d)' <=> Receiving(d)) /\ (Early(d)' <=> Early(d)) /\ (Accepted(d)' <=> Accepted(d))
  BY <1>1 DEF Receiving, Early, Accepted
<1>8. Apart' /\ Singly' BY <1>6 DEF Still, Apart, IInv
<1>9. ASSUME NEW d \in Copies PROVE FateOf(d)' /\ AnnouncementOf(d)'
  <2>1. FateOf(d) /\ AnnouncementOf(d) BY DEF IInv, Fate, Announcement
  <2>2. copies \in Nat BY DEF IInv, Typed, TypeOK
  <2>3. /\ \A p : At(p, d)' <=> At(p, d)
        /\ (Inc(d)' <=> Inc(d)) /\ (Ins(d)' <=> Ins(d))
        /\ (Failing(d) => Failing(d)') /\ (InOrder(d) => InOrder(d)')
    BY <1>6 DEF Still, Undisturbed
  <2>4. FateOf(d)' BY <1>1, <1>7, <2>1, <2>2, <2>3, FateFrame
  <2>5. AnnouncementOf(d)' BY <1>1, <1>7, <2>1, <2>3, AnnouncementFrame
  <2>6. QED BY <2>4, <2>5
<1>10. Filters' BY <1>1, <1>6, <1>7, FiltersFrame DEF IInv, Undisturbed
<1>11. Explained'
  <2>1. ASSUME NEW o \in localBF' PROVE Reason(o)'
    <3>1. Reason(o) /\ (Deletion(o) => Deletion(o)') BY <1>1, <1>6, <2>1 DEF IInv, Explained, Undisturbed
    <3>2. \A d \in Copies : Because(d) => Because(d)' BY <1>1, <1>6, <1>7, BecauseFrame DEF Undisturbed
    <3>3. QED BY <1>1, <3>1, <3>2, ReasonFrame
  <2>2. QED BY <2>1 DEF Explained
<1>12. QED BY <1>5, <1>8, <1>9, <1>10, <1>11 DEF IInv, Fate, Announcement

\* Every step preserves the invariant.
LEMMA IInvStep == ASSUME IInv, [Next]_vars PROVE IInv'
<1>1. CASE Next
  BY <1>1, TypedStep, ApartStep, FateStep, AnnouncementStep, FiltersStep, ExplainedStep DEF IInv
<1>2. CASE UNCHANGED vars BY <1>2, StutterIInv
<1>3. QED BY <1>1, <1>2

-----------------------------------------------------------------------------
(* The theorems.                                                           *)

\* The invariant holds in every reachable state.
THEOREM Inductive == Spec => []IInv
BY InitIInv, IInvStep, PTL DEF Spec

\* Every variable keeps its type, whatever the threads and the handlers do.
THEOREM TypeCorrect == Spec => []TypeOK
<1>1. IInv => TypeOK BY DEF IInv, Typed
<1>2. QED BY <1>1, Inductive, PTL

\* When nothing is under way no copy is announced, received or waiting.
LEMMA WhenQuiet ==
    ASSUME IInv, Quiet
    PROVE  /\ \A c : ~Receiving(c) /\ ~Accepted(c) /\ ~Inc(c) /\ ~Ins(c)
           /\ \A o : ~Deletion(o)
           /\ \A c : \A p : ~At(p, c)
<1>1. \A c : ~Receiving(c) /\ ~Accepted(c) BY DEF Quiet, Receiving, Accepted
<1>2. \A e : ~Has(events, e) /\ ~Has(security, e) /\ ~Has(helper, e) /\ ~Has(tasks, e)
  BY DEF Quiet, Has
<1>3. QED BY <1>1, <1>2 DEF Inc, Ins, Deletion, At

\* A copy whose transfer was accepted is settled: onReceivedDataObject, the helper
\* threads and the data store thread hand it on until it is stored, found to be a
\* duplicate, refused or withheld, or its transfer fails.
THEOREM Settled == Spec => []AcknowledgedIsSettled
<1>1. ASSUME IInv, Quiet, NEW c \in Copies PROVE outcome[c] \notin {"receiving", "acknowledged"}
  <2>1. FateOf(c) BY <1>1 DEF IInv, Fate
  <2>2. ~Receiving(c) /\ \A p : ~At(p, c) BY <1>1, WhenQuiet
  <2>3. QED BY <2>1, <2>2 DEF FateOf
<1>2. IInv => AcknowledgedIsSettled BY <1>1 DEF AcknowledgedIsSettled
<1>3. QED BY <1>2, Inductive, PTL

\* The filter the protocol threads test and the one DataManager keeps are the same when
\* nothing is under way.
THEOREM FiltersSettle == Spec => []FiltersAgree
<1>1. ASSUME IInv, Quiet PROVE doBF = localBF
  <2>1. \A o : ~Awaited(o) BY <1>1, WhenQuiet DEF Awaited
  <2>2. QED BY <1>1, <2>1 DEF IInv, Filters
<1>2. IInv => FiltersAgree BY <1>1 DEF FiltersAgree
<1>3. QED BY <1>2, Inductive, PTL

\* DATAOBJECT_NEW is raised for the copies that entered the store, and for no others.
THEOREM NewForStored == Spec => []NewMeansStored
<1>1. ASSUME IInv, NEW c \in news PROVE outcome[c] = "stored"
  <2>1. c \in Copies BY <1>1 DEF IInv, Typed, TypeOK
  <2>2. QED BY <1>1, <2>1 DEF IInv, Fate, FateOf
<1>2. ASSUME IInv, Quiet, NEW c \in Copies, outcome[c] = "stored" PROVE c \in news
  <2>1. ~Ins(c) BY <1>2, WhenQuiet
  <2>2. QED BY <1>2, <2>1 DEF IInv, Fate, FateOf
<1>3. IInv => NewMeansStored BY <1>1, <1>2 DEF NewMeansStored
<1>4. QED BY <1>3, Inductive, PTL

\* When nothing is under way, what the node refuses to receive is what it stores, what
\* it was asked to keep in its filter, and what was dropped for want of a capability.
THEOREM NoGhosts == Spec => []NoGhost
<1>1. ASSUME IInv, Quiet, NEW o \in doBF
      PROVE  o \in store \union kept
                     \union {object[c] : c \in {d \in Copies : outcome[d] = "withheld"}}
  <2>1. \A w : ~Awaited(w) BY <1>1, WhenQuiet DEF Awaited
  <2>2. o \in localBF BY <1>1, <2>1 DEF IInv, Filters
  <2>3. Reason(o) BY <1>1, <2>2 DEF IInv, Explained
  <2>4. ASSUME NEW c \in Copies, Expected(c) PROVE FALSE
    <3>1. FateOf(c) BY <1>1 DEF IInv, Fate
    <3>2. ~Receiving(c) /\ \A p : ~At(p, c) BY <1>1, WhenQuiet
    <3>3. QED BY <2>4, <3>1, <3>2 DEF FateOf, Expected
  <2>5. ~Deletion(o) BY <1>1, WhenQuiet
  <2>6. QED BY <2>3, <2>4, <2>5 DEF Reason
<1>2. IInv => NoGhost BY <1>1 DEF NoGhost
<1>3. QED BY <1>2, Inductive, PTL

-----------------------------------------------------------------------------
(* The store that is used here is the one ObjectStore promises.            *)

\* What a task asks the data store for, and what a queue of tasks does.
Order(t) == <<t.op, t.object>>
Orders(q) == [i \in 1..Len(q) |-> Order(q[i])]

\* Queues with the same elements in the same order are the same.
LEMMA SameQueue ==
    ASSUME NEW S, NEW a \in Seq(S), NEW b \in Seq(S), Len(a) = Len(b), \A i \in 1..Len(a) : a[i] = b[i]
    PROVE  a = b
OBVIOUS

\* A queue of tasks is a queue of orders.
LEMMA OrdersType ==
    ASSUME NEW q \in Seq(Tasks), object \in [Copies -> Objects]
    PROVE  /\ Orders(q) \in Seq({"insert", "delete"} \X Objects) /\ Len(Orders(q)) = Len(q)
           /\ \A i \in 1..Len(q) : Orders(q)[i] = Order(q[i])
<1>1. \A t \in Tasks : Order(t) \in {"insert", "delete"} \X Objects
  BY DEF Tasks, Order, Insert, Delete
<1>2. Len(q) \in Nat /\ \A i \in 1..Len(q) : q[i] \in Tasks OBVIOUS
<1>3. \A i \in 1..Len(q) : Order(q[i]) \in {"insert", "delete"} \X Objects BY <1>1, <1>2
<1>4. QED BY <1>2, <1>3 DEF Orders

\* Asking for something more.
LEMMA OrdersAppend ==
    ASSUME NEW q \in Seq(Tasks), NEW t \in Tasks, object \in [Copies -> Objects]
    PROVE  Orders(Append(q, t)) = Append(Orders(q), Order(t))
<1>1. PICK u : u = Append(q, t) OBVIOUS
<1>2. u \in Seq(Tasks) /\ Len(u) = Len(q) + 1 /\ Len(q) \in Nat BY <1>1
<1>3. u[Len(q) + 1] = t /\ \A i \in 1..Len(q) : u[i] = q[i] BY <1>1
<1>4. PICK m : m = Orders(q) OBVIOUS
<1>5. /\ m \in Seq({"insert", "delete"} \X Objects) /\ Len(m) = Len(q)
      /\ \A i \in 1..Len(q) : m[i] = Order(q[i])
  BY <1>4, OrdersType
<1>6. PICK n : n = Orders(u) OBVIOUS
<1>7. /\ n \in Seq({"insert", "delete"} \X Objects) /\ Len(n) = Len(u)
      /\ \A i \in 1..Len(u) : n[i] = Order(u[i])
  BY <1>2, <1>6, OrdersType
<1>8. PICK e : e = Order(t) OBVIOUS
<1>9. n[Len(m) + 1] = e BY <1>2, <1>3, <1>5, <1>7, <1>8
<1>10. \A i \in 1..Len(m) : n[i] = m[i] BY <1>2, <1>3, <1>5, <1>7
<1>11. n = Append(m, e) BY <1>2, <1>5, <1>7, <1>9, <1>10
<1>12. QED BY <1>1, <1>4, <1>6, <1>8, <1>11

\* Carrying out what is asked for first.
LEMMA OrdersTail ==
    ASSUME NEW q \in Seq(Tasks), q # <<>>, object \in [Copies -> Objects]
    PROVE  /\ Orders(q) # <<>> /\ Head(Orders(q)) = Order(Head(q))
           /\ Orders(Tail(q)) = Tail(Orders(q))
<1>1. PICK u, m, n : u = Tail(q) /\ m = Orders(q) /\ n = Orders(u) OBVIOUS
<1>2. /\ u \in Seq(Tasks) /\ Len(u) = Len(q) - 1 /\ Len(q) \in Nat /\ Len(q) >= 1
      /\ Head(q) = q[1] /\ \A i \in 1..Len(u) : u[i] = q[i + 1]
  BY <1>1
<1>3. /\ m \in Seq({"insert", "delete"} \X Objects) /\ Len(m) = Len(q)
      /\ \A i \in 1..Len(q) : m[i] = Order(q[i])
  BY <1>1, OrdersType
<1>4. /\ n \in Seq({"insert", "delete"} \X Objects) /\ Len(n) = Len(u)
      /\ \A i \in 1..Len(u) : n[i] = Order(u[i])
  BY <1>1, <1>2, OrdersType
<1>5. m # <<>> /\ Head(m) = Order(Head(q)) BY <1>2, <1>3
<1>6. \A i \in 1..Len(n) : i + 1 \in 1..Len(m) /\ n[i] = m[i + 1] BY <1>2, <1>3, <1>4
<1>7. PICK S, w : S = {"insert", "delete"} \X Objects /\ w = Tail(m) OBVIOUS
<1>8. /\ w \in Seq(S) /\ n \in Seq(S) /\ Len(w) = Len(n)
      /\ \A i \in 1..Len(w) : w[i] = m[i + 1]
  BY <1>2, <1>3, <1>4, <1>5, <1>7
<1>9. n = w BY <1>6, <1>8, SameQueue
<1>10. QED BY <1>1, <1>5, <1>7, <1>9

\* Only the handlers that insert, deleteDataObject and the data store thread touch the
\* queue and the store; each does what ObjectStore allows, so that insertions and
\* deletions reach the store in the order they were asked for.
THEOREM StoreAsPromised == Spec => UsesObjectStore
<1>1. ASSUME Init PROVE Abstract!Init
  <2>1. tasks = <<>> /\ store = {} BY <1>1 DEF Init
  <2>2. Len(tasks) = 0 BY <2>1
  <2>3. Asked = <<>> BY <2>2 DEF Asked
  <2>4. QED BY <2>1, <2>3 DEF Abstract!Init
<1>2. ASSUME IInv, [Next]_vars PROVE [Abstract!Next]_(Abstract!vars)
  <2>0. /\ tasks \in Seq(Tasks) /\ object \in [Copies -> Objects] /\ store \subseteq Objects
        /\ \A c \in Copies : object[c] \in Objects
    BY <1>2 DEF IInv, Typed, TypeOK
  <2>1. Asked = Orders(tasks) /\ Asked' = Orders(tasks') BY DEF Asked, Orders, Order
  <2>2. UNCHANGED <<tasks, store>> => UNCHANGED Abstract!vars BY <2>1 DEF Abstract!vars
  <2>3. ASSUME NEW t \in Tasks, tasks' = Append(tasks, t), UNCHANGED store PROVE Abstract!Next
    <3>1. Asked' = Append(Asked, Order(t)) BY <2>0, <2>1, <2>3, OrdersAppend
    <3>2. Order(t) \in {"insert", "delete"} \X Objects BY <2>0 DEF Order, Tasks, Insert, Delete
    <3>3. Abstract!Ask BY <2>3, <3>1, <3>2 DEF Abstract!Ask, Abstract!Ops
    <3>4. QED BY <3>3 DEF Abstract!Next
  <2>4. ASSUME NEW c \in Copies, InsertTask(c), UNCHANGED store PROVE Abstract!Next
    <3>1. tasks' = Append(tasks, Insert(c)) BY <2>4 DEF InsertTask, Insert
    <3>2. QED BY <2>3, <2>4, <3>1, Known
  <2>5. CASE _insertDataObject \/ _deleteDataObject
    <3>1. PICK h : h = Head(tasks) OBVIOUS
    <3>2. tasks # <<>> /\ tasks' = Tail(tasks) BY <2>5 DEF _insertDataObject, _deleteDataObject
    <3>3. h.op \in {"insert", "delete"} /\ h.object \in Objects
      <4>1. h \in Tasks BY <2>0, <3>1, <3>2
      <4>2. QED BY <2>0, <4>1 DEF Tasks, Insert, Delete
    <3>4. store' = IF h.op = "insert" THEN store \union {h.object} ELSE store \ {h.object}
      BY <2>5, <3>1 DEF _insertDataObject, _deleteDataObject
    <3>5. Asked # <<>> /\ Head(Asked) = Order(h) /\ Asked' = Tail(Asked)
      BY <2>0, <2>1, <3>1, <3>2, OrdersTail
    <3>6. Order(h)[1] = h.op /\ Order(h)[2] = h.object BY DEF Order
    <3>7. store' = Abstract!Result(Head(Asked)) BY <3>3, <3>4, <3>5, <3>6 DEF Abstract!Result
    <3>8. QED BY <3>5, <3>7 DEF Abstract!CarryOut, Abstract!Next
  <2>6. CASE onVerifiedDataObject \/ onDataTaskComplete
    <3>1. PICK h : h = Head(events) OBVIOUS
    <3>2. h.copy \in Copies
      <4>1. events # <<>> /\ h.type \in Work
        BY <2>6, <3>1 DEF onVerifiedDataObject, onDataTaskComplete, Handle, Work
      <4>2. QED BY <1>2, <3>1, <4>1, AtHead
    <3>3. UNCHANGED store /\ (UNCHANGED tasks \/ InsertTask(h.copy))
      BY <2>6, <3>1 DEF onVerifiedDataObject, onDataTaskComplete
    <3>4. QED BY <2>2, <2>4, <3>2, <3>3
  <2>7. ASSUME NEW o \in Objects, NEW keep \in BOOLEAN, deleteDataObject(o, keep) PROVE Abstract!Next
    <3>1. tasks' = Append(tasks, Delete(o, keep)) /\ UNCHANGED store
      BY <2>7 DEF deleteDataObject, Delete
    <3>2. QED BY <2>3, <3>1, Known
  <2>8. CASE \/ UNCHANGED vars
             \/ \E r \in Receivers : TestFilter(r) \/ Accept(r) \/ RaiseIncoming(r)
                                     \/ ReceiveDone(r) \/ ReceiveFails(r)
             \/ onIncomingDataObject \/ onReceivedDuplicate \/ onReceivedDataObject
             \/ onReceivedWithoutCapability \/ onInsertedDataObject \/ onDeletedDataObject
             \/ onPeriodicBloomfilterUpdate \/ onSecurityTaskComplete \/ VerifyData
    <3>1. UNCHANGED <<tasks, store>>
      BY <2>8 DEF vars, TestFilter, Accept, RaiseIncoming, ReceiveDone, ReceiveFails,
         onIncomingDataObject, onReceivedDuplicate, onReceivedDataObject, onReceivedWithoutCapability,
         onInsertedDataObject, onDeletedDataObject, onPeriodicBloomfilterUpdate,
         onSecurityTaskComplete, VerifyData, storeVars
    <3>2. QED BY <2>2, <3>1
  <2>9. QED
    BY <1>2, <2>5, <2>6, <2>7, <2>8 DEF Next, Protocols, HandleEvent, DataStoreRun
<1>3. QED BY <1>1, <1>2, Inductive, PTL DEF Spec, UsesObjectStore, Abstract!Spec
=============================================================================
