----------------------------- MODULE KernelProofs -----------------------------
(***************************************************************************)
(* Proofs about Kernel, for any number of managers, protocol instances,    *)
(* connectivities and applications.                                        *)
(***************************************************************************)
EXTENDS Kernel, FiniteSetTheorems, TLAPS

USE KernelAssumption

-----------------------------------------------------------------------------
(* The event queue.                                                        *)

Queued(e) == \E k \in 1..Len(events) : events[k] = e

\* No a is behind a b; with a = b, there is one a at most.
Ordered(a, b) == \A j, k \in 1..Len(events) : events[j] = a /\ events[k] = b => j <= k

Add(p) == Ev("ADD_PROTOCOL", p)
Del(p) == Ev("DELETE_PROTOCOL", p)
PrepareStartup == Ev("PREPARE_STARTUP", None)
Startup == Ev("STARTUP", None)
PrepareShutdown == Ev("PREPARE_SHUTDOWN", None)
StoreFinished == Ev("STORE_FINISHED", None)
Quit == Ev("QUIT", None)

-----------------------------------------------------------------------------
(* Types.                                                                  *)

Phases == {"stopped", "prepare startup", "running", "prepare shutdown", "shutdown"}
WorkerStates == {None, "idle", "running", "cancelled", "ended", "detached", "deleted"}
Events ==
    [type : {"ADD_PROTOCOL", "DELETE_PROTOCOL"}, arg : Instances]
      \union [type : {"DELETE_CONNECTIVITY"}, arg : Connectivities]
      \union [type : {"SEND", "RESEND", "RESULT"}, arg : Messages]
      \union {PrepareStartup, Startup, PrepareShutdown, StoreFinished, Quit}

Flags ==
    /\ running \in BOOLEAN /\ shutdownCalled \in BOOLEAN /\ prepareShutdown \in BOOLEAN
    /\ shutdownEvent \in BOOLEAN /\ dataStoreFinishedProcessing \in BOOLEAN
    /\ storeAsked \in BOOLEAN /\ forced \in BOOLEAN

Values ==
    /\ registry \subseteq Managers /\ prepared \subseteq Managers /\ ready \subseteq Managers
    /\ state \in [Managers -> Phases] /\ timers \subseteq {PM, AM}
    /\ events \in Seq(Events)
    /\ protocols \subseteq Instances /\ IsFiniteSet(protocols)
    /\ worker \in [Instances -> WorkerStates]
    /\ joining \in Instances \union {None}
    /\ conn \in [Connectivities -> {None, "running", "cancelled", "ended", "deleted"}]
    /\ module \in {"idle", "running", "quitting", "gone"}
    /\ apps \subseteq Apps /\ IsFiniteSet(apps)
    /\ pendingDOs \subseteq Messages /\ told \subseteq Messages

TypeOK == Flags /\ Values

-----------------------------------------------------------------------------
(* The inductive invariant.                                                *)

Phase == state[PM]
Down == Phase \in {"prepare shutdown", "shutdown"}

\* All managers are in the same phase, and leave once all of them were ready.
InStep ==
    /\ \A m \in Managers : state[m] = Phase
    /\ registry \in {Managers, {PM}, {}}
    /\ registry # Managers <=> Phase = "shutdown"
    /\ shutdownEvent => registry \subseteq ready
    /\ Phase = "shutdown" => Managers \subseteq ready

\* The managers start once, and before they are asked to shut down.
StartsOnce ==
    /\ Queued(PrepareStartup) => Phase = "stopped"
    /\ Ordered(PrepareStartup, PrepareStartup)
    /\ Phase = "stopped" <=> prepared = {}
    /\ Queued(Startup) => Phase = "prepare startup" /\ FM \in prepared
    /\ Ordered(Startup, Startup)
    /\ FM \notin prepared =>
         /\ Phase \in {"stopped", "prepare startup"}
         /\ running = FALSE /\ shutdownCalled = FALSE /\ module = "idle"

\* They are asked to shut down once.
StopsOnce ==
    /\ prepareShutdown = TRUE => shutdownCalled = TRUE /\ ~Queued(PrepareShutdown) /\ ~Down
    /\ Queued(PrepareShutdown) => shutdownCalled = TRUE /\ prepareShutdown = FALSE /\ ~Down
    /\ Ordered(PrepareShutdown, PrepareShutdown)
    /\ Ordered(Startup, PrepareShutdown)
    /\ Down => shutdownCalled = TRUE
    /\ ~Down => ready = {} /\ shutdownEvent = FALSE /\ storeAsked = FALSE /\ ~Queued(StoreFinished)

\* What the managers wait for before they are ready.
Ready ==
    /\ PM \in ready => forced = TRUE \/ protocols \subseteq {Local}
    /\ CM \in ready => \A c \in Connectivities : ~Live(c)
    /\ FM \in ready => module \notin {"running", "quitting"}
    /\ Queued(Quit) => module = "gone"
    /\ module \in {"quitting", "gone"} => Down

\* The protocol of the applications is there from the start to the end.
LocalThere ==
    /\ Queued(Add(Local)) => Phase = "stopped"
    /\ Ordered(Add(Local), PrepareStartup)
    /\ Phase = "stopped" => Local \in protocols \/ Queued(Add(Local))
    /\ Phase # "stopped" /\ registry # {} => Local \in protocols
    /\ Phase # "shutdown" => worker[Local] = "idle" /\ ~Queued(Del(Local))
    /\ Phase = "shutdown" => protocols \subseteq {Local}

\* A thread belongs to a client that is registered, or whose registration is under
\* way and is handled before the end.
Threads ==
    /\ \A p \in Instances : worker[p] \in {"running", "cancelled", "detached"} => p \in Clients
    /\ \A p \in Clients :
         /\ worker[p] = "running" => p \in protocols \/ Queued(Add(p))
         /\ worker[p] = "cancelled" => p \in protocols \/ joining = p
         /\ Ordered(Add(p), Del(Local))
    /\ registry = {} => \A p \in Instances : worker[p] \notin {"running", "cancelled"}

IInv == TypeOK /\ InStep /\ StartsOnce /\ StopsOnce /\ Ready /\ LocalThere /\ Threads

-----------------------------------------------------------------------------
(* What a step does to the event queue.                                    *)

\* Events of N are appended.
Adds(N) ==
    /\ \A e : Queued(e)' => Queued(e) \/ e \in N
    /\ \A e : Queued(e) => Queued(e)'
    /\ \A a, b : a \notin N /\ Ordered(a, b) => Ordered(a, b)'

\* One event is; it stays in order with what is not queued.
Posts(x) ==
    /\ Adds({x}) /\ Queued(x)'
    /\ \A b : Ordered(x, b) /\ ~Queued(b) => Ordered(x, b)'

\* The first event, h, is taken, and events of N are appended.
Takes(h, N) ==
    /\ Queued(h)
    /\ \A e : Queued(e)' => Queued(e) \/ e \in N
    /\ \A e : Queued(e) => Queued(e)' \/ e = h
    /\ \A a, b : a \notin N /\ Ordered(a, b) => Ordered(a, b)'
    /\ \A a : a \notin N /\ Ordered(a, h) => ~Queued(a)'

\* A step that leaves the queue alone.
LEMMA AddsNothing == events' = events => Adds({})
BY DEF Adds, Queued, Ordered

\* An event posted to the end of the queue.
LEMMA AddsOne ==
    ASSUME NEW S, events \in Seq(S), NEW x \in S, events' = Append(events, x)
    PROVE  Posts(x)
<1>1. Len(events') = Len(events) + 1 BY DEF Queued
<1>2. \A k \in 1..Len(events) : events'[k] = events[k] OBVIOUS
<1>3. events'[Len(events) + 1] = x OBVIOUS
<1>4. Len(events) \in Nat OBVIOUS
<1>5. \A e : Queued(e)' <=> Queued(e) \/ e = x
  BY <1>1, <1>2, <1>3, <1>4 DEF Queued
<1>6. ASSUME NEW a, NEW b, Ordered(a, b), a = x => ~Queued(b) PROVE Ordered(a, b)'
  <2> SUFFICES ASSUME NEW j \in 1..Len(events'), NEW k \in 1..Len(events'),
                      events'[j] = a, events'[k] = b
               PROVE  j <= k
      BY DEF Ordered
  <2>1. CASE k = Len(events) + 1 BY <1>1, <1>4, <2>1
  <2>2. CASE k # Len(events) + 1 /\ j = Len(events) + 1
    <3>1. k \in 1..Len(events) BY <1>1, <1>4, <2>2
    <3>2. QED BY <1>2, <1>3, <1>6, <2>2, <3>1 DEF Queued
  <2>3. CASE k # Len(events) + 1 /\ j # Len(events) + 1
    <3>1. k \in 1..Len(events) /\ j \in 1..Len(events) BY <1>1, <1>4, <2>3
    <3>2. QED BY <1>2, <1>6, <3>1 DEF Ordered
  <2>4. QED BY <2>1, <2>2, <2>3
<1>7. QED BY <1>5, <1>6 DEF Adds, Posts

\* Several events posted, in any order.
LEMMA AddsMany ==
    ASSUME NEW S, events \in Seq(S), NEW t \in Seq(S), NEW N, \A k \in 1..Len(t) : t[k] \in N,
           events' = events \o t
    PROVE  Adds(N) /\ \A k \in 1..Len(t) : Queued(t[k])'
<1>1. Len(events') = Len(events) + Len(t) /\ Len(events) \in Nat /\ Len(t) \in Nat OBVIOUS
<1>2. \A k \in 1..Len(events) : events'[k] = events[k] OBVIOUS
<1>3. \A k \in 1..Len(t) : events'[Len(events) + k] = t[k] OBVIOUS
<1>4. \A k \in 1..Len(events') : k \in 1..Len(events) \/ events'[k] \in N
  <2> SUFFICES ASSUME NEW k \in 1..Len(events'), k \notin 1..Len(events) PROVE events'[k] \in N
      OBVIOUS
  <2>1. k - Len(events) \in 1..Len(t) /\ k = Len(events) + (k - Len(events)) BY <1>1
  <2>2. QED BY <1>3, <2>1
<1>5. ASSUME NEW e, Queued(e)' PROVE Queued(e) \/ e \in N BY <1>2, <1>4, <1>5 DEF Queued
<1>6. ASSUME NEW e, Queued(e) PROVE Queued(e)' BY <1>1, <1>2, <1>6 DEF Queued
<1>7. ASSUME NEW a, NEW b, a \notin N, Ordered(a, b) PROVE Ordered(a, b)'
  <2> SUFFICES ASSUME NEW j \in 1..Len(events'), NEW k \in 1..Len(events'),
                      events'[j] = a, events'[k] = b
               PROVE  j <= k
      BY DEF Ordered
  <2>1. j \in 1..Len(events) BY <1>4, <1>7
  <2>2. CASE k \in 1..Len(events) BY <1>2, <1>7, <2>1, <2>2 DEF Ordered
  <2>3. CASE k \notin 1..Len(events) BY <1>1, <2>1, <2>3
  <2>4. QED BY <2>2, <2>3
<1>8. ASSUME NEW k \in 1..Len(t) PROVE Queued(t[k])'
  <2>1. Len(events) + k \in 1..Len(events') BY <1>1
  <2>2. QED BY <1>3, <2>1 DEF Queued
<1>9. QED BY <1>5, <1>6, <1>7, <1>8 DEF Adds

\* A handler that posts several events: they come behind what was queued before, and
\* what is never behind the handled event is not in the queue any more.
LEMMA TakesMany ==
    ASSUME NEW S, events \in Seq(S), NEW t \in Seq(S), NEW N, \A k \in 1..Len(t) : t[k] \in N,
           events # <<>>, NEW h, h = Head(events), events' = Tail(events) \o t
    PROVE  Takes(h, N) /\ \A k \in 1..Len(t) : Queued(t[k])'
<1>1. /\ Len(events') = Len(events) - 1 + Len(t) /\ Len(events) \in Nat /\ Len(t) \in Nat
      /\ Len(events) >= 1 /\ Len(Tail(events)) = Len(events) - 1 /\ Tail(events) \in Seq(S)
  OBVIOUS
<1>2. \A k \in 1..Len(events) - 1 : events'[k] = events[k + 1]
  <2>1. \A k \in 1..Len(Tail(events)) : events'[k] = Tail(events)[k] BY <1>1
  <2>2. \A k \in 1..Len(Tail(events)) : Tail(events)[k] = events[k + 1] OBVIOUS
  <2>3. QED BY <1>1, <2>1, <2>2
<1>3. \A k \in 1..Len(t) : events'[Len(events) - 1 + k] = t[k]
  <2>1. \A k \in 1..Len(t) : events'[Len(Tail(events)) + k] = t[k] BY <1>1
  <2>2. QED BY <1>1, <2>1
<1>4. \A k \in 1..Len(events') : k \in 1..Len(events) - 1 \/ events'[k] \in N
  <2> SUFFICES ASSUME NEW k \in 1..Len(events'), k \notin 1..Len(events) - 1 PROVE events'[k] \in N
      OBVIOUS
  <2>1. k - (Len(events) - 1) \in 1..Len(t) /\ k = Len(events) - 1 + (k - (Len(events) - 1)) BY <1>1
  <2>2. QED BY <1>3, <2>1
<1>5. ASSUME NEW e, Queued(e)' PROVE Queued(e) \/ e \in N
  BY <1>1, <1>2, <1>4, <1>5 DEF Queued
<1>6. ASSUME NEW e, Queued(e) PROVE Queued(e)' \/ e = h
  <2>1. PICK k \in 1..Len(events) : events[k] = e BY <1>6 DEF Queued
  <2>2. CASE k = 1 BY <2>1, <2>2
  <2>3. CASE k # 1
    <3>1. k - 1 \in 1..Len(events) - 1 /\ k - 1 \in 1..Len(events') /\ k = (k - 1) + 1 BY <1>1, <2>3
    <3>2. QED BY <1>2, <2>1, <3>1 DEF Queued
  <2>4. QED BY <2>2, <2>3
<1>7. ASSUME NEW a, NEW b, a \notin N, Ordered(a, b) PROVE Ordered(a, b)'
  <2> SUFFICES ASSUME NEW j \in 1..Len(events'), NEW k \in 1..Len(events'),
                      events'[j] = a, events'[k] = b
               PROVE  j <= k
      BY DEF Ordered
  <2>1. j \in 1..Len(events) - 1 BY <1>4, <1>7
  <2>2. CASE k \in 1..Len(events) - 1
    <3>1. j + 1 \in 1..Len(events) /\ k + 1 \in 1..Len(events) BY <1>1, <2>1, <2>2
    <3>2. events[j + 1] = a /\ events[k + 1] = b BY <1>2, <2>1, <2>2
    <3>3. QED BY <1>7, <3>1, <3>2 DEF Ordered
  <2>3. CASE k \notin 1..Len(events) - 1 BY <1>1, <2>1, <2>3
  <2>4. QED BY <2>2, <2>3
<1>8. ASSUME NEW k \in 1..Len(t) PROVE Queued(t[k])'
  <2>1. Len(events) - 1 + k \in 1..Len(events') BY <1>1
  <2>2. QED BY <1>3, <2>1 DEF Queued
<1>9. ASSUME NEW a, a \notin N, Ordered(a, h), Queued(a)' PROVE FALSE
  <2>1. PICK k \in 1..Len(events') : events'[k] = a BY <1>9 DEF Queued
  <2>2. k \in 1..Len(events) - 1 BY <1>4, <1>9, <2>1
  <2>3. k + 1 \in 1..Len(events) /\ 1 \in 1..Len(events) BY <1>1, <2>2
  <2>4. events[k + 1] = a /\ events[1] = h BY <1>2, <2>1, <2>2
  <2>5. k + 1 <= 1 BY <1>9, <2>3, <2>4 DEF Ordered
  <2>6. QED BY <2>2, <2>5
<1>10. Queued(h) BY <1>1 DEF Queued
<1>11. QED BY <1>5, <1>6, <1>7, <1>8, <1>9, <1>10 DEF Takes

\* A handler that posts nothing.
LEMMA TakesOnly ==
    ASSUME NEW S, events \in Seq(S), events # <<>>, NEW h, h = Head(events), events' = Tail(events)
    PROVE  Takes(h, {})
<1>1. events' = Tail(events) \o <<>> /\ <<>> \in Seq(S) OBVIOUS
<1>2. \A k \in 1..Len(<<>>) : <<>>[k] \in {} OBVIOUS
<1>3. QED BY <1>1, <1>2, TakesMany

\* A handler that posts one event.
LEMMA TakesOne ==
    ASSUME NEW S, events \in Seq(S), events # <<>>, NEW h, h = Head(events), NEW x \in S,
           events' = Append(Tail(events), x)
    PROVE  Takes(h, {x}) /\ Queued(x)'
<1>1. events' = Tail(events) \o <<x>> /\ <<x>> \in Seq(S) OBVIOUS
<1>2. \A k \in 1..Len(<<x>>) : <<x>>[k] \in {x} OBVIOUS
<1>3. Takes(h, {x}) /\ \A k \in 1..Len(<<x>>) : Queued(<<x>>[k])' BY <1>1, <1>2, TakesMany
<1>4. 1 \in 1..Len(<<x>>) /\ <<x>>[1] = x OBVIOUS
<1>5. QED BY <1>3, <1>4

\* Events the invariant does not speak of.
OtherEvents ==
    [type : {"DELETE_CONNECTIVITY"}, arg : Connectivities]
      \union [type : {"SEND", "RESEND", "RESULT"}, arg : Messages]
DelSet(P) == {Del(p) : p \in P}

\* Events of different types differ, and so do those about different instances.
LEMMA Different ==
    /\ \A p, q : Add(p) # Del(q) /\ (Add(p) = Add(q) => p = q) /\ (Del(p) = Del(q) => p = q)
    /\ \A e \in {PrepareStartup, Startup, PrepareShutdown, StoreFinished, Quit} :
         e \notin OtherEvents /\ \A p : e # Add(p) /\ e # Del(p)
    /\ \A p : Add(p) \notin OtherEvents /\ Del(p) \notin OtherEvents
    /\ PrepareStartup \notin {Startup, PrepareShutdown, StoreFinished, Quit}
    /\ Startup \notin {PrepareShutdown, StoreFinished, Quit}
    /\ PrepareShutdown \notin {StoreFinished, Quit} /\ StoreFinished # Quit
<1>1. \A p, q : Add(p) # Del(q) /\ (Add(p) = Add(q) => p = q) /\ (Del(p) = Del(q) => p = q)
  BY DEF Add, Del, Ev
<1>2. \A e \in OtherEvents : e.type \in {"DELETE_CONNECTIVITY", "SEND", "RESEND", "RESULT"}
  BY DEF OtherEvents
<1>3. /\ PrepareStartup.type = "PREPARE_STARTUP" /\ Startup.type = "STARTUP"
      /\ PrepareShutdown.type = "PREPARE_SHUTDOWN" /\ StoreFinished.type = "STORE_FINISHED"
      /\ Quit.type = "QUIT"
      /\ \A p : Add(p).type = "ADD_PROTOCOL" /\ Del(p).type = "DELETE_PROTOCOL"
  BY DEF PrepareStartup, Startup, PrepareShutdown, StoreFinished, Quit, Add, Del, Ev
<1>4. QED BY <1>1, <1>2, <1>3

\* The type of the event a handler gets tells what it is about.
LEMMA HeadKinds ==
    ASSUME TypeOK, events # <<>>, NEW h, h = Head(events)
    PROVE  /\ h \in Events /\ Tail(events) \in Seq(Events)
           /\ h.type = "ADD_PROTOCOL" => h.arg \in Instances /\ h = Add(h.arg)
           /\ h.type = "DELETE_PROTOCOL" => h.arg \in Instances /\ h = Del(h.arg)
           /\ h.type = "DELETE_CONNECTIVITY" => h.arg \in Connectivities /\ h \in OtherEvents
           /\ h.type \in {"SEND", "RESEND", "RESULT"} => h.arg \in Messages /\ h \in OtherEvents
           /\ h.type = "PREPARE_STARTUP" => h = PrepareStartup
           /\ h.type = "STARTUP" => h = Startup
           /\ h.type = "PREPARE_SHUTDOWN" => h = PrepareShutdown
           /\ h.type = "STORE_FINISHED" => h = StoreFinished
           /\ h.type = "QUIT" => h = Quit
<1>1. events \in Seq(Events) BY DEF TypeOK, Values
<1>2. h \in Events /\ Tail(events) \in Seq(Events) BY <1>1
<1>3. /\ PrepareStartup.type = "PREPARE_STARTUP" /\ Startup.type = "STARTUP"
      /\ PrepareShutdown.type = "PREPARE_SHUTDOWN" /\ StoreFinished.type = "STORE_FINISHED"
      /\ Quit.type = "QUIT"
  BY DEF PrepareStartup, Startup, PrepareShutdown, StoreFinished, Quit, Ev
<1>4. CASE h \in [type : {"ADD_PROTOCOL", "DELETE_PROTOCOL"}, arg : Instances]
  BY <1>2, <1>4 DEF Add, Del, Ev
<1>5. CASE h \in [type : {"DELETE_CONNECTIVITY"}, arg : Connectivities]
  BY <1>2, <1>5 DEF OtherEvents
<1>6. CASE h \in [type : {"SEND", "RESEND", "RESULT"}, arg : Messages]
  BY <1>2, <1>6 DEF OtherEvents
<1>7. CASE h \in {PrepareStartup, Startup, PrepareShutdown, StoreFinished, Quit}
  BY <1>2, <1>3, <1>7
<1>8. QED BY <1>2, <1>4, <1>5, <1>6, <1>7 DEF Events

\* The events the handlers post.
LEMMA EventKinds ==
    /\ \A p \in Instances : Add(p) \in Events /\ Del(p) \in Events
    /\ OtherEvents \subseteq Events
    /\ {PrepareStartup, Startup, PrepareShutdown, StoreFinished, Quit} \subseteq Events
    /\ \A c \in Connectivities : Ev("DELETE_CONNECTIVITY", c) \in OtherEvents
    /\ \A m \in Messages : {Ev("SEND", m), Ev("RESEND", m), Ev("RESULT", m)} \subseteq OtherEvents
BY DEF Events, OtherEvents, Add, Del, Ev

\* A finite set becomes a sequence of its elements, each once.
LEMMA ListOf ==
    ASSUME NEW S, IsFiniteSet(S)
    PROVE  /\ SetToSeq(S) \in Seq(S) /\ Len(SetToSeq(S)) \in Nat
           /\ \A x \in S : \E k \in 1..Len(SetToSeq(S)) : SetToSeq(S)[k] = x
<1>1. PICK n \in Nat : Cardinality(S) = n /\ ExistsBijection(1..n, S) BY FS_CardinalityType
<1>2. PICK f : f \in Bijection(1..n, S) BY <1>1 DEF ExistsBijection
<1>3. f \in [1..Cardinality(S) -> S] /\ IsInjective(f)
  BY <1>1, <1>2 DEF Bijection, Injection, IsInjective
<1>4. SetToSeq(S) \in [1..n -> S] /\ IsInjective(SetToSeq(S))
  BY <1>1, <1>3 DEF SetToSeq
<1>5. SetToSeq(S) \in Injection(1..n, S)
  BY <1>4 DEF Injection, IsInjective
<1>6. IsFiniteSet(1..n) /\ Cardinality(1..n) = n BY FS_Interval
<1>7. SetToSeq(S) \in Surjection(1..n, S) BY <1>1, <1>5, <1>6, FS_Injection
<1>8. SetToSeq(S) \in Seq(S) /\ Len(SetToSeq(S)) = n BY <1>4
<1>9. QED BY <1>7, <1>8 DEF Surjection

\* The deletions posted for finitely many instances.
LEMMA DeletionsType ==
    ASSUME NEW P, IsFiniteSet(P), P \subseteq Instances
    PROVE  /\ Deletions(P) \in Seq(Events)
           /\ \A k \in 1..Len(Deletions(P)) : Deletions(P)[k] \in DelSet(P)
           /\ \A p \in P : \E k \in 1..Len(Deletions(P)) : Deletions(P)[k] = Del(p)
<1> DEFINE s == SetToSeq(P)
<1>1. s \in Seq(P) /\ Len(s) \in Nat /\ \A x \in P : \E k \in 1..Len(s) : s[k] = x
  BY ListOf
<1> HIDE DEF s
<1>2. Deletions(P) = [i \in 1..Len(s) |-> Del(s[i])] BY DEF Deletions, Del, s
<1>3. \A i \in 1..Len(s) : s[i] \in P BY <1>1
<1>4. \A i \in 1..Len(s) : Del(s[i]) \in Events BY <1>3, EventKinds
<1>5. Deletions(P) \in Seq(Events) /\ Len(Deletions(P)) = Len(s) BY <1>1, <1>2, <1>4
<1>6. \A k \in 1..Len(s) : Deletions(P)[k] = Del(s[k]) BY <1>2
<1>7. QED BY <1>1, <1>3, <1>5, <1>6 DEF DelSet

\* The messages posted to finitely many applications.
LEMMA SendsType ==
    ASSUME NEW M, IsFiniteSet(M), M \subseteq Messages
    PROVE  /\ Sends(M) \in Seq(Events)
           /\ \A k \in 1..Len(Sends(M)) : Sends(M)[k] \in OtherEvents
           /\ \A m \in M : \E k \in 1..Len(Sends(M)) : Sends(M)[k] = Ev("SEND", m)
<1> DEFINE s == SetToSeq(M)
<1>1. s \in Seq(M) /\ Len(s) \in Nat /\ \A x \in M : \E k \in 1..Len(s) : s[k] = x
  BY ListOf
<1> HIDE DEF s
<1>2. Sends(M) = [i \in 1..Len(s) |-> Ev("SEND", s[i])] BY DEF Sends, s
<1>3. \A i \in 1..Len(s) : s[i] \in M BY <1>1
<1>4. \A i \in 1..Len(s) : Ev("SEND", s[i]) \in OtherEvents BY <1>3, EventKinds
<1>5. Sends(M) \in Seq(Events) /\ Len(Sends(M)) = Len(s) BY <1>1, <1>2, <1>4, EventKinds
<1>6. \A k \in 1..Len(s) : Sends(M)[k] = Ev("SEND", s[k]) BY <1>2
<1>7. QED BY <1>1, <1>4, <1>5, <1>6

-----------------------------------------------------------------------------
(* What each action does to the event queue.                               *)

\* More events may be added than are.
LEMMA AddsMore ==
    /\ \A N, K : N \subseteq K /\ Adds(N) => Adds(K)
    /\ \A N, K, h : N \subseteq K /\ Takes(h, N) => Takes(h, K)
BY DEF Adds, Takes

\* Actions that post nothing, or what the invariant does not speak of.
LEMMA QueueOther ==
    ASSUME TypeOK,
           \/ UNCHANGED events
           \/ \E c \in Connectivities : ConnectivityEnds(c)
           \/ \E a \in Apps : Register(a)
           \/ onNeighborStatusChange
    PROVE  events' \in Seq(Events) /\ Adds(OtherEvents)
<1>0. events \in Seq(Events) BY DEF TypeOK, Values
<1>1. CASE UNCHANGED events BY <1>0, <1>1, AddsNothing, AddsMore
<1>2. ASSUME NEW x \in OtherEvents, events' = Append(events, x)
      PROVE  events' \in Seq(Events) /\ Adds(OtherEvents)
  <2>1. x \in Events BY EventKinds
  <2>2. Adds({x}) BY <1>0, <1>2, <2>1, AddsOne DEF Posts
  <2>3. QED BY <1>0, <1>2, <2>1, <2>2, AddsMore
<1>3. ASSUME NEW c \in Connectivities, ConnectivityEnds(c)
      PROVE  events' \in Seq(Events) /\ Adds(OtherEvents)
  BY <1>2, <1>3, EventKinds DEF ConnectivityEnds
<1>4. ASSUME NEW a \in Apps, Register(a)
      PROVE  events' \in Seq(Events) /\ Adds(OtherEvents)
  <2>1. <<a, "reply">> \in Messages BY DEF Messages
  <2>2. QED BY <1>2, <1>4, <2>1, EventKinds DEF Register
<1>5. CASE onNeighborStatusChange
  <2> DEFINE M == apps \X {"update"}
  <2>1. IsFiniteSet(M) BY FS_Product, FS_Singleton DEF TypeOK, Values
  <2>2. M \subseteq Messages BY DEF TypeOK, Values, Messages
  <2>3. events' = events \o Sends(M) BY <1>5 DEF onNeighborStatusChange
  <2> HIDE DEF M
  <2>4. Sends(M) \in Seq(Events) /\ \A k \in 1..Len(Sends(M)) : Sends(M)[k] \in OtherEvents
    BY <2>1, <2>2, SendsType
  <2>5. Adds(OtherEvents) BY <1>0, <2>3, <2>4, AddsMany
  <2>6. QED BY <1>0, <2>3, <2>4, <2>5
<1>6. QED BY <1>1, <1>3, <1>4, <1>5

\* Actions that post one event the invariant speaks of.
LEMMA QueuePosts ==
    ASSUME TypeOK
    PROVE  /\ NoticeShutdown => events' \in Seq(Events) /\ Posts(PrepareShutdown)
           /\ onInitPunt => events' \in Seq(Events) /\ Posts(Startup)
           /\ ModuleQuits => events' \in Seq(Events) /\ Posts(Quit)
           /\ StoreAnswers => events' \in Seq(Events) /\ Posts(StoreFinished)
           /\ \A p \in Instances : MakeInstance(p) => events' \in Seq(Events) /\ Posts(Add(p))
           /\ \A p \in Instances : WorkerEnds(p) =>
                events' \in Seq(Events) /\ (Posts(Del(p)) \/ UNCHANGED events)
<1>0. events \in Seq(Events) BY DEF TypeOK, Values
<1>1. ASSUME NEW x \in Events, events' = Append(events, x)
      PROVE  events' \in Seq(Events) /\ Posts(x)
  BY <1>0, <1>1, AddsOne
<1>2. NoticeShutdown => events' \in Seq(Events) /\ Posts(PrepareShutdown)
  BY <1>1, EventKinds DEF NoticeShutdown, PrepareShutdown
<1>3. onInitPunt => events' \in Seq(Events) /\ Posts(Startup)
  BY <1>1, EventKinds DEF onInitPunt, Startup
<1>4. ModuleQuits => events' \in Seq(Events) /\ Posts(Quit)
  BY <1>1, EventKinds DEF ModuleQuits, Quit
<1>5. StoreAnswers => events' \in Seq(Events) /\ Posts(StoreFinished)
  BY <1>1, EventKinds DEF StoreAnswers, StoreFinished
<1>6. \A p \in Instances : MakeInstance(p) => events' \in Seq(Events) /\ Posts(Add(p))
  BY <1>1, EventKinds DEF MakeInstance, Add
<1>7. \A p \in Instances : WorkerEnds(p) =>
        events' \in Seq(Events) /\ (Posts(Del(p)) \/ UNCHANGED events)
  BY <1>0, <1>1, EventKinds DEF WorkerEnds, Del
<1>8. QED BY <1>2, <1>3, <1>4, <1>5, <1>6, <1>7

\* Whom the deletion of p tells to stop.
StopAfter(p) ==
    LET P == protocols \ {p}
        w == [worker EXCEPT ![p] = "deleted"]
    IN  IF Phase = "prepare shutdown" THEN ToldToStop(P, w)
        ELSE IF Phase = "shutdown" THEN Idle(P \intersect {Local}, w) ELSE {}

\* What registering p posts.
LatePost(p) == IF Down /\ worker[p] = "idle" THEN {Del(p)} ELSE {}

\* Handlers that post nothing.
LEMMA QueueTakesOnly ==
    ASSUME TypeOK
    PROVE  /\ onPrepareStartup => events' \in Seq(Events) /\ Takes(PrepareStartup, {})
           /\ onStartup => events' \in Seq(Events) /\ Takes(Startup, {})
           /\ onForwardingTaskComplete => events' \in Seq(Events) /\ Takes(Quit, {})
           /\ onDataStoreFinished => events' \in Seq(Events) /\ Takes(StoreFinished, {})
<1>0. events \in Seq(Events) BY DEF TypeOK, Values
<1>1. ASSUME NEW h, events # <<>>, h = Head(events), events' = Tail(events)
      PROVE  events' \in Seq(Events) /\ Takes(h, {})
  BY <1>0, <1>1, TakesOnly
<1>2. onPrepareStartup => events' \in Seq(Events) /\ Takes(PrepareStartup, {})
  BY <1>1, HeadKinds DEF onPrepareStartup, Handle
<1>3. onStartup => events' \in Seq(Events) /\ Takes(Startup, {})
  BY <1>1, HeadKinds DEF onStartup, Handle
<1>4. onForwardingTaskComplete => events' \in Seq(Events) /\ Takes(Quit, {})
  BY <1>1, HeadKinds DEF onForwardingTaskComplete, Handle
<1>5. onDataStoreFinished => events' \in Seq(Events) /\ Takes(StoreFinished, {})
  BY <1>1, HeadKinds DEF onDataStoreFinished, Handle
<1>6. QED BY <1>2, <1>3, <1>4, <1>5

\* Handlers of the events the invariant does not speak of.
LEMMA QueueTakesOther ==
    ASSUME TypeOK, onDeleteConnectivity \/ onSendResult \/ onSendDataObject \/ onSendSigned
    PROVE  events' \in Seq(Events) /\ \E h \in OtherEvents : h = Head(events) /\ Takes(h, OtherEvents)
<1>0. events \in Seq(Events) BY DEF TypeOK, Values
<1> DEFINE h == Head(events)
<1>1. ASSUME events # <<>>, h \in OtherEvents, events' = Tail(events)
      PROVE  events' \in Seq(Events) /\ \E e \in OtherEvents : e = h /\ Takes(e, OtherEvents)
  <2>1. Takes(h, {}) BY <1>0, <1>1, TakesOnly
  <2>2. Takes(h, OtherEvents) BY <2>1, AddsMore
  <2>3. QED BY <1>0, <1>1, <2>2
<1>2. ASSUME events # <<>>, h \in OtherEvents, NEW x \in OtherEvents,
             events' = Append(Tail(events), x)
      PROVE  events' \in Seq(Events) /\ \E e \in OtherEvents : e = h /\ Takes(e, OtherEvents)
  <2>0. x \in Events BY EventKinds
  <2>1. Takes(h, {x}) BY <1>0, <1>2, <2>0, TakesOne
  <2>2. Takes(h, OtherEvents) BY <2>1, AddsMore
  <2>3. QED BY <1>0, <1>2, <2>0, <2>2
<1>3. events # <<>> BY DEF Handle, onDeleteConnectivity, onSendResult, onSendDataObject, onSendSigned
<1>4. h.type \in {"DELETE_CONNECTIVITY", "RESULT", "SEND", "RESEND"}
  BY DEF Handle, onDeleteConnectivity, onSendResult, onSendDataObject, onSendSigned
<1>5. h \in OtherEvents BY <1>3, <1>4, HeadKinds
<1>6. CASE onDeleteConnectivity \/ onSendResult
  BY <1>1, <1>3, <1>5, <1>6 DEF onDeleteConnectivity, onSendResult
<1>7. CASE onSendDataObject \/ onSendSigned
  <2>1. h.type \in {"SEND", "RESEND"} BY <1>7 DEF Handle, onSendDataObject, onSendSigned
  <2>2. h.arg \in Messages BY <1>3, <2>1, HeadKinds
  <2>3. \A t \in {"RESEND", "RESULT"} : Ev(t, h.arg) \in OtherEvents BY <2>2, EventKinds
  <2>4. \/ events' = Tail(events)
        \/ \E t \in {"RESEND", "RESULT"} : events' = Append(Tail(events), Ev(t, h.arg))
    BY <1>7 DEF onSendDataObject, onSendSigned
  <2> HIDE DEF h
  <2>5. QED BY <1>1, <1>2, <1>3, <1>5, <2>3, <2>4 DEF h
<1>8. QED BY <1>6, <1>7

\* A registration, a deletion and the two phases of a shutdown.
LEMMA QueueRegister ==
    ASSUME TypeOK, registerProtocol, NEW p, p = Head(events).arg
    PROVE  /\ p \in Instances /\ events' \in Seq(Events) /\ Takes(Add(p), LatePost(p))
           /\ Down /\ worker[p] = "idle" => Queued(Del(p))'
<1>0. events \in Seq(Events) BY DEF TypeOK, Values
<1>1. events # <<>> /\ Head(events).type = "ADD_PROTOCOL" BY DEF registerProtocol, Handle
<1>2. p \in Instances /\ Head(events) = Add(p) /\ Tail(events) \in Seq(Events) BY <1>1, HeadKinds
<1>3. CASE Down /\ worker[p] = "idle"
  <2>1. events' = Append(Tail(events), Del(p))
    BY <1>3 DEF registerProtocol, Down, Phase, Del
  <2>2. Del(p) \in Events BY <1>2, EventKinds
  <2>3. Takes(Add(p), {Del(p)}) /\ Queued(Del(p))' BY <1>0, <1>1, <1>2, <2>1, <2>2, TakesOne
  <2>4. QED BY <1>2, <1>3, <2>1, <2>2, <2>3 DEF LatePost
<1>4. CASE ~(Down /\ worker[p] = "idle")
  <2>1. events' = Tail(events)
    BY <1>4 DEF registerProtocol, Down, Phase, Del
  <2>2. Takes(Add(p), {}) BY <1>0, <1>1, <1>2, <2>1, TakesOnly
  <2>3. QED BY <1>2, <1>4, <2>1, <2>2 DEF LatePost
<1>5. QED BY <1>3, <1>4

\* onDeleteProtocolEvent takes its event; an instance it tells to stop that has no
\* thread posts its own.
LEMMA QueueDelete ==
    ASSUME TypeOK, onDeleteProtocolEvent, NEW p, p = Head(events).arg
    PROVE  /\ p \in Instances /\ events' \in Seq(Events) /\ Takes(Del(p), DelSet(StopAfter(p)))
           /\ \A q \in Idle(StopAfter(p), [worker EXCEPT ![p] = "deleted"]) : Queued(Del(q))'
<1>0. events \in Seq(Events) BY DEF TypeOK, Values
<1>1. events # <<>> /\ Head(events).type = "DELETE_PROTOCOL" BY DEF onDeleteProtocolEvent, Handle
<1>2. p \in Instances /\ Head(events) = Del(p) /\ Tail(events) \in Seq(Events) BY <1>1, HeadKinds
<1> DEFINE D == Idle(StopAfter(p), [worker EXCEPT ![p] = "deleted"])
<1>3. events' = Tail(events) \o Deletions(D) BY DEF onDeleteProtocolEvent, StopAfter, Phase
<1>4. D \subseteq protocols BY DEF Idle, StopAfter, ToldToStop
<1>5. IsFiniteSet(D) /\ D \subseteq Instances BY <1>4, FS_Subset DEF TypeOK, Values
<1>6. D \subseteq StopAfter(p) BY DEF Idle
<1> HIDE DEF D
<1>7. /\ Deletions(D) \in Seq(Events)
      /\ \A k \in 1..Len(Deletions(D)) : Deletions(D)[k] \in DelSet(D)
      /\ \A q \in D : \E k \in 1..Len(Deletions(D)) : Deletions(D)[k] = Del(q)
  BY <1>5, DeletionsType
<1>8. Takes(Del(p), DelSet(D)) /\ \A q \in D : Queued(Del(q))'
  <2>1. PICK t : t = Deletions(D) OBVIOUS
  <2>2. Takes(Del(p), DelSet(D)) /\ \A k \in 1..Len(t) : Queued(t[k])'
    BY <1>0, <1>1, <1>2, <1>3, <1>7, <2>1, TakesMany
  <2>3. QED BY <1>7, <2>1, <2>2
<1>9. DelSet(D) \subseteq DelSet(StopAfter(p)) BY <1>6 DEF DelSet
<1>10. Takes(Del(p), DelSet(StopAfter(p))) BY <1>8, <1>9, AddsMore
<1>11. events' \in Seq(Events) BY <1>2, <1>3, <1>7
<1>12. QED BY <1>2, <1>8, <1>10, <1>11 DEF D

\* onPrepareShutdown takes its event, posts the goodbyes of the applications, and the
\* instances it tells to stop that have no thread post theirs.
LEMMA QueuePrepareShutdown ==
    ASSUME TypeOK, onPrepareShutdown
    PROVE  /\ events' \in Seq(Events)
           /\ Takes(PrepareShutdown, DelSet(Instances \ {Local}) \union OtherEvents)
           /\ \A q \in Idle(ToldToStop(protocols, worker), worker) : Queued(Del(q))'
           /\ \A m \in Goodbyes : Queued(Ev("SEND", m))'
<1>0. events \in Seq(Events) BY DEF TypeOK, Values
<1>1. events # <<>> /\ Head(events).type = "PREPARE_SHUTDOWN" BY DEF onPrepareShutdown, Handle
<1>2. Head(events) = PrepareShutdown /\ Tail(events) \in Seq(Events) BY <1>1, HeadKinds
<1> DEFINE D == Idle(ToldToStop(protocols, worker), worker)
           N == DelSet(Instances \ {Local}) \union OtherEvents
<1>4. D \subseteq protocols /\ Local \notin D BY DEF Idle, ToldToStop
<1>5. IsFiniteSet(D) /\ D \subseteq Instances \ {Local} BY <1>4, FS_Subset DEF TypeOK, Values
<1>6. IsFiniteSet(Goodbyes) BY FS_Product, FS_Singleton DEF TypeOK, Values, Goodbyes
<1>7. Goodbyes \subseteq Messages BY DEF TypeOK, Values, Messages, Goodbyes
<1>3. events' = (Tail(events) \o Deletions(D)) \o Sends(Goodbyes) BY DEF onPrepareShutdown
<1> HIDE DEF D
<1>8. /\ Deletions(D) \in Seq(Events)
      /\ \A k \in 1..Len(Deletions(D)) : Deletions(D)[k] \in DelSet(D)
      /\ \A q \in D : \E k \in 1..Len(Deletions(D)) : Deletions(D)[k] = Del(q)
  BY <1>5, DeletionsType
<1>9. /\ Sends(Goodbyes) \in Seq(Events)
      /\ \A k \in 1..Len(Sends(Goodbyes)) : Sends(Goodbyes)[k] \in OtherEvents
      /\ \A m \in Goodbyes : \E k \in 1..Len(Sends(Goodbyes)) : Sends(Goodbyes)[k] = Ev("SEND", m)
  BY <1>6, <1>7, SendsType
<1>10. DelSet(D) \subseteq DelSet(Instances \ {Local}) BY <1>5 DEF DelSet
<1>20. PICK t : t = Deletions(D) \o Sends(Goodbyes) OBVIOUS
<1>11. t \in Seq(Events) /\ events' = Tail(events) \o t BY <1>2, <1>3, <1>8, <1>9, <1>20
<1>12. /\ Len(t) = Len(Deletions(D)) + Len(Sends(Goodbyes))
       /\ Len(Deletions(D)) \in Nat /\ Len(Sends(Goodbyes)) \in Nat
  BY <1>8, <1>9, <1>20
<1>13. /\ \A k \in 1..Len(Deletions(D)) : t[k] = Deletions(D)[k]
       /\ \A k \in 1..Len(Sends(Goodbyes)) : t[Len(Deletions(D)) + k] = Sends(Goodbyes)[k]
  BY <1>8, <1>9, <1>20
<1>14. \A k \in 1..Len(t) : t[k] \in N
  <2> SUFFICES ASSUME NEW k \in 1..Len(t) PROVE t[k] \in N OBVIOUS
  <2>1. CASE k \in 1..Len(Deletions(D)) BY <1>8, <1>10, <1>13, <2>1
  <2>2. CASE k \notin 1..Len(Deletions(D))
    <3> DEFINE i == k - Len(Deletions(D))
    <3>1. i \in 1..Len(Sends(Goodbyes)) /\ k = Len(Deletions(D)) + i BY <1>12, <2>2
    <3>2. QED BY <1>9, <1>13, <3>1
  <2>3. QED BY <2>1, <2>2
<1> HIDE DEF N
<1>15. Takes(PrepareShutdown, N) /\ \A k \in 1..Len(t) : Queued(t[k])'
  BY <1>0, <1>1, <1>2, <1>11, <1>14, TakesMany
<1>16. \A q \in D : Queued(Del(q))'
  <2>1. 1..Len(Deletions(D)) \subseteq 1..Len(t) BY <1>12
  <2>2. QED BY <1>8, <1>13, <1>15, <2>1
<1>17. \A m \in Goodbyes : Queued(Ev("SEND", m))'
  <2>1. \A k \in 1..Len(Sends(Goodbyes)) : Len(Deletions(D)) + k \in 1..Len(t) BY <1>12
  <2>2. QED BY <1>9, <1>13, <1>15, <2>1
<1>18. events' \in Seq(Events) BY <1>2, <1>11
<1>19. QED BY <1>15, <1>16, <1>17, <1>18 DEF D, N

\* onShutdown posts at most the DELETE_PROTOCOL of the applications' protocol.
LEMMA QueueShutdown ==
    ASSUME TypeOK, onShutdown
    PROVE  /\ events' \in Seq(Events) /\ Adds(DelSet({Local}))
           /\ PM \in registry /\ Local \in protocols /\ worker[Local] = "idle" => Queued(Del(Local))'
<1>0. events \in Seq(Events) BY DEF TypeOK, Values
<1>1. CASE PM \notin registry
  <2>1. events' = events BY <1>1 DEF onShutdown
  <2>2. Adds({}) BY <2>1, AddsNothing
  <2>3. QED BY <1>0, <1>1, <2>1, <2>2, AddsMore
<1>2. CASE PM \in registry
  <2> DEFINE D == Idle(protocols \intersect {Local}, worker)
  <2>1. events' = events \o Deletions(D) BY <1>2 DEF onShutdown
  <2>2. D \subseteq protocols /\ D \subseteq {Local} BY DEF Idle
  <2>3. IsFiniteSet(D) /\ D \subseteq Instances BY <2>2, FS_Subset DEF TypeOK, Values
  <2>4. Local \in protocols /\ worker[Local] = "idle" => Local \in D BY DEF Idle
  <2> HIDE DEF D
  <2>5. /\ Deletions(D) \in Seq(Events)
        /\ \A k \in 1..Len(Deletions(D)) : Deletions(D)[k] \in DelSet(D)
        /\ \A q \in D : \E k \in 1..Len(Deletions(D)) : Deletions(D)[k] = Del(q)
    BY <2>3, DeletionsType
  <2>6. Adds(DelSet(D)) /\ \A q \in D : Queued(Del(q))'
    <3>1. PICK t : t = Deletions(D) OBVIOUS
    <3>2. Adds(DelSet(D)) /\ \A k \in 1..Len(t) : Queued(t[k])'
      BY <1>0, <2>1, <2>5, <3>1, AddsMany
    <3>3. QED BY <2>5, <3>1, <3>2
  <2>7. DelSet(D) \subseteq DelSet({Local}) BY <2>2 DEF DelSet
  <2>8. Adds(DelSet({Local})) BY <2>6, <2>7, AddsMore
  <2>9. events' \in Seq(Events) BY <1>0, <2>1, <2>5
  <2>10. QED BY <2>4, <2>6, <2>8, <2>9
<1>3. QED BY <1>1, <1>2

\* Every action leaves a queue of events.
LEMMA EventsType == TypeOK /\ Next => events' \in Seq(Events)
<1> SUFFICES ASSUME TypeOK, Next PROVE events' \in Seq(Events) OBVIOUS
<1>1. CASE UNCHANGED events BY <1>1, QueueOther
<1>2. CASE KernelStep
  <2>1. CASE NoticeShutdown \/ onInitPunt BY <2>1, QueuePosts
  <2>2. CASE onPrepareStartup \/ onStartup \/ onForwardingTaskComplete \/ onDataStoreFinished
    BY <2>2, QueueTakesOnly
  <2>3. CASE onDeleteConnectivity \/ onSendResult \/ onSendDataObject \/ onSendSigned
    BY <2>3, QueueTakesOther
  <2>4. CASE registerProtocol BY <2>4, QueueRegister
  <2>5. CASE onDeleteProtocolEvent BY <2>5, QueueDelete
  <2>6. CASE onPrepareShutdown BY <2>6, QueuePrepareShutdown
  <2>7. CASE onShutdown BY <2>7, QueueShutdown
  <2>8. QED BY <1>2, <2>1, <2>2, <2>3, <2>4, <2>5, <2>6, <2>7 DEF KernelStep
<1>3. CASE \E p \in Instances : MakeInstance(p) \/ WorkerEnds(p) BY <1>3, QueuePosts
<1>4. CASE \/ \E c \in Connectivities : ConnectivityEnds(c)
           \/ \E a \in Apps : Register(a)
           \/ onNeighborStatusChange
  BY <1>4, QueueOther
<1>5. CASE ModuleQuits \/ StoreAnswers BY <1>5, QueuePosts
<1>6. QED
  BY <1>1, <1>2, <1>3, <1>4, <1>5
  DEF Next, TimerStep, shutdown, ProtocolTimeout, ApplicationTimeout, spawn_connectivity,
      deRegisterApplication

\* Telling instances to stop ends those without a thread and cancels the others.
LEMMA StoppedEffect ==
    ASSUME NEW w \in [Instances -> WorkerStates], NEW P
    PROVE  /\ Stopped(w, P) \in [Instances -> WorkerStates]
           /\ \A p \in Instances :
                /\ p \notin P => Stopped(w, P)[p] = w[p]
                /\ w[p] \notin {"idle", "running"} => Stopped(w, P)[p] = w[p]
                /\ p \in P /\ w[p] = "running" => Stopped(w, P)[p] = "cancelled"
                /\ p \in P /\ w[p] = "idle" => Stopped(w, P)[p] = "ended"
BY DEF Stopped, WorkerStates

\* What the time-out of onShutdown makes of the instances.
LEMMA AbandonedEffect ==
    ASSUME NEW w \in [Instances -> WorkerStates], NEW P
    PROVE  /\ Abandoned(w, P) \in [Instances -> WorkerStates]
           /\ \A p \in Instances :
                /\ p \notin P \ {Local} => Abandoned(w, P)[p] = w[p]
                /\ p \in P \ {Local} => Abandoned(w, P)[p] \in {"detached", "deleted"}
                /\ Abandoned(w, P)[p] = "detached" => w[p] \in {"detached", "running", "cancelled"}
BY DEF Abandoned, WorkerStates

\* What a signal of managers leaves.
LEMMA SignalEffect ==
    ASSUME TypeOK, NEW M, M \subseteq Managers, signalIsReadyForShutdown(M)
    PROVE  /\ ready' = ready \union M /\ ready' \subseteq Managers
           /\ running' \in BOOLEAN /\ shutdownEvent' \in BOOLEAN
           /\ shutdownEvent' = TRUE => shutdownEvent = TRUE \/ registry \subseteq ready'
           /\ M = {} => running' = running /\ shutdownEvent' = shutdownEvent
           /\ running' = TRUE => running = TRUE
BY DEF TypeOK, Values, Flags, signalIsReadyForShutdown

-----------------------------------------------------------------------------
(* Types.                                                                  *)

\* The kernel starts in a typed state.
LEMMA InitType == Init => TypeOK
<1> SUFFICES ASSUME Init PROVE TypeOK OBVIOUS
<1>1. Flags BY DEF Init, Flags
<1>2. events \in Seq(Events)
  <2>1. Ev("ADD_PROTOCOL", Local) \in Events /\ Ev("PREPARE_STARTUP", None) \in Events
    BY EventKinds DEF Add, PrepareStartup, Instances
  <2>2. events = <<Ev("ADD_PROTOCOL", Local), Ev("PREPARE_STARTUP", None)>> BY DEF Init
  <2>3. QED BY <2>1, <2>2
<1>3. IsFiniteSet(protocols) /\ IsFiniteSet(apps) BY FS_EmptySet DEF Init
<1>4. worker \in [Instances -> WorkerStates] BY DEF Init, WorkerStates
<1>5. Values BY <1>2, <1>3, <1>4 DEF Init, Values, Phases
<1>6. QED BY <1>1, <1>5 DEF TypeOK

\* Every step keeps the types.
LEMMA TypeStep == TypeOK /\ [Next]_vars => TypeOK'
<1> SUFFICES ASSUME TypeOK, [Next]_vars PROVE TypeOK' OBVIOUS
<1> USE DEF TypeOK, kernelFlags, phases, instances, application
<1>1. CASE UNCHANGED vars BY <1>1 DEF vars, Flags, Values
<1>2. CASE Next
  <2>0. events' \in Seq(Events) BY <1>2, EventsType
  <2>1. CASE shutdown BY <2>0, <2>1 DEF shutdown, Flags, Values
  <2>2. CASE NoticeShutdown BY <2>0, <2>2 DEF NoticeShutdown, Flags, Values
  <2>3. CASE onPrepareStartup
    <3>1. state' \in [Managers -> Phases] /\ prepared' \subseteq Managers
      BY <2>3 DEF onPrepareStartup, Phases
    <3>2. QED BY <2>0, <2>3, <3>1 DEF onPrepareStartup, Flags, Values
  <2>4. CASE onInitPunt BY <2>0, <2>4 DEF onInitPunt, Flags, Values, Managers
  <2>5. CASE onStartup
    <3>1. conn' \in [Connectivities -> {None, "running", "cancelled", "ended", "deleted"}]
      BY <2>5 DEF onStartup, Values, Connectivities
    <3>2. QED BY <2>0, <2>5, <3>1 DEF onStartup, Flags, Values, Phases
  <2>6. CASE registerProtocol
    <3> DEFINE p == Head(events).arg
    <3>1. p \in Instances BY <2>6, QueueRegister
    <3>2. protocols' \in {protocols, protocols \union {p}} /\ worker' \in {worker, Stopped(worker, {p})}
          /\ joining' \in {joining, p}
      BY <2>6 DEF registerProtocol
    <3> HIDE DEF p
    <3>3. IsFiniteSet(protocols') /\ protocols' \subseteq Instances
      BY <3>1, <3>2, FS_AddElement DEF Values
    <3>4. worker' \in [Instances -> WorkerStates] BY <3>2, StoppedEffect DEF Values
    <3>5. joining' \in Instances \union {None} BY <3>1, <3>2 DEF Values
    <3>6. QED BY <2>0, <2>6, <3>3, <3>4, <3>5 DEF registerProtocol, Flags, Values
  <2>7. CASE onDeleteProtocolEvent
    <3> DEFINE p == Head(events).arg
               w == [worker EXCEPT ![p] = "deleted"]
               M == IF state[PM] = "prepare shutdown" /\ NonApplicationReady(protocols \ {p}) THEN {PM} ELSE {}
    <3>1. p \in Instances BY <2>7, QueueDelete
    <3>2. protocols' = protocols \ {p} /\ worker' = Stopped(w, StopAfter(p))
          /\ registry' \in {registry, registry \ {PM}} /\ signalIsReadyForShutdown(M)
      BY <2>7 DEF onDeleteProtocolEvent, StopAfter, Phase
    <3>3. IsFiniteSet(protocols') /\ protocols' \subseteq Instances
      BY <3>2, FS_RemoveElement DEF Values
    <3>4. w \in [Instances -> WorkerStates] BY DEF Values, WorkerStates
    <3>5. M \subseteq Managers BY DEF Managers
    <3> HIDE DEF p, w, M
    <3>6. worker' \in [Instances -> WorkerStates] BY <3>2, <3>4, StoppedEffect
    <3>7. ready' \subseteq Managers /\ running' \in BOOLEAN /\ shutdownEvent' \in BOOLEAN
      BY <3>2, <3>5, SignalEffect
    <3>8. QED BY <2>0, <2>7, <3>2, <3>3, <3>6, <3>7 DEF onDeleteProtocolEvent, Flags, Values
  <2>8. CASE onDeleteConnectivity
    <3>1. Head(events).arg \in Connectivities BY <2>8, HeadKinds DEF onDeleteConnectivity, Handle
    <3>2. conn' \in [Connectivities -> {None, "running", "cancelled", "ended", "deleted"}]
      BY <2>8, <3>1 DEF onDeleteConnectivity, Values
    <3>3. ready' \subseteq Managers /\ running' \in BOOLEAN /\ shutdownEvent' \in BOOLEAN
      BY <2>8, SignalEffect DEF onDeleteConnectivity, Managers
    <3>4. QED BY <2>0, <2>8, <3>2, <3>3 DEF onDeleteConnectivity, Flags, Values
  <2>9. CASE onForwardingTaskComplete
    <3>1. PICK M \in SUBSET {FM} : signalIsReadyForShutdown(M) BY <2>9 DEF onForwardingTaskComplete
    <3>2. M \subseteq Managers BY DEF Managers
    <3>3. ready' \subseteq Managers /\ running' \in BOOLEAN /\ shutdownEvent' \in BOOLEAN
      BY <3>1, <3>2, SignalEffect
    <3>4. QED BY <2>0, <2>9, <3>3 DEF onForwardingTaskComplete, Flags, Values
  <2>10. CASE onSendDataObject \/ onSendSigned
    <3>1. CASE onSendDataObject BY <2>0, <3>1 DEF onSendDataObject, Flags, Values
    <3>2. CASE onSendSigned BY <2>0, <3>2 DEF onSendSigned, Flags, Values
    <3>3. QED BY <2>10, <3>1, <3>2
  <2>11. CASE onSendResult
    <3>1. ready' \subseteq Managers /\ running' \in BOOLEAN /\ shutdownEvent' \in BOOLEAN
      BY <2>11, SignalEffect DEF onSendResult, Managers
    <3>2. QED BY <2>0, <2>11, <3>1 DEF onSendResult, Flags, Values
  <2>12. CASE onDataStoreFinished
    <3>1. ready' \subseteq Managers /\ running' \in BOOLEAN /\ shutdownEvent' \in BOOLEAN
      BY <2>12, SignalEffect DEF onDataStoreFinished, Managers
    <3>2. QED BY <2>0, <2>12, <3>1 DEF onDataStoreFinished, Flags, Values
  <2>13. CASE onPrepareShutdown
    <3>1. ready' \subseteq Managers /\ running' \in BOOLEAN /\ shutdownEvent' \in BOOLEAN
      <4> DEFINE M == Plain \union (IF NonApplicationReady(protocols) THEN {PM} ELSE {})
                \union (IF \E c \in Connectivities : Live(c) THEN {} ELSE {CM})
                \union (IF module = "running" THEN {} ELSE {FM})
                \union (IF apps = {} /\ pendingDOs = {} THEN {AM} ELSE {})
      <4>1. M \subseteq Managers BY DEF Managers
      <4>2. signalIsReadyForShutdown(M) BY <2>13 DEF onPrepareShutdown
      <4> HIDE DEF M
      <4>3. QED BY <4>1, <4>2, SignalEffect
    <3>2. Flags' BY <2>13, <3>1 DEF onPrepareShutdown, Flags
    <3>3. worker' \in [Instances -> WorkerStates]
      BY <2>13, StoppedEffect DEF onPrepareShutdown, Values
    <3>4. conn' \in [Connectivities -> {None, "running", "cancelled", "ended", "deleted"}]
      BY <2>13 DEF onPrepareShutdown, Values
    <3>5. state' \in [Managers -> Phases] BY <2>13 DEF onPrepareShutdown, Phases
    <3>6. IsFiniteSet(apps') /\ apps' \subseteq Apps BY <2>13, FS_EmptySet DEF onPrepareShutdown
    <3>7. pendingDOs' \subseteq Messages /\ told' \subseteq Messages
      BY <2>13 DEF onPrepareShutdown, Goodbyes, Messages, Values
    <3>8. module' \in {"idle", "running", "quitting", "gone"} /\ timers' \subseteq {PM, AM}
      BY <2>13 DEF onPrepareShutdown, Values
    <3>9. UNCHANGED <<registry, prepared, protocols, joining>> BY <2>13 DEF onPrepareShutdown
    <3>10. QED BY <2>0, <3>1, <3>2, <3>3, <3>4, <3>5, <3>6, <3>7, <3>8, <3>9 DEF Values
  <2>14. CASE onShutdown
    <3>1. Flags' BY <2>14 DEF onShutdown, Flags
    <3>2. worker' \in [Instances -> WorkerStates]
      <4>1. worker' = worker \/ worker' = Stopped(Abandoned(worker, protocols), protocols \intersect {Local})
        BY <2>14 DEF onShutdown
      <4>2. worker \in [Instances -> WorkerStates] BY DEF Values
      <4>3. Abandoned(worker, protocols) \in [Instances -> WorkerStates] BY <4>2, AbandonedEffect
      <4>4. QED BY <4>1, <4>2, <4>3, StoppedEffect
    <3>3. state' \in [Managers -> Phases]
      BY <2>14 DEF onShutdown, Phases, Values
    <3>4. protocols' \subseteq protocols BY <2>14 DEF onShutdown
    <3>5. IsFiniteSet(protocols') BY <3>4, FS_Subset DEF Values
    <3>6. registry' \subseteq registry BY <2>14 DEF onShutdown
    <3>7. UNCHANGED <<timers, prepared, ready, joining, conn, module, apps, pendingDOs, told>>
      BY <2>14 DEF onShutdown
    <3>8. QED BY <2>0, <3>1, <3>2, <3>3, <3>4, <3>5, <3>6, <3>7 DEF Values
  <2>15. CASE ProtocolTimeout
    <3>1. ready' \subseteq Managers /\ running' \in BOOLEAN /\ shutdownEvent' \in BOOLEAN
      BY <2>15, SignalEffect DEF ProtocolTimeout, Managers
    <3>2. QED BY <2>0, <2>15, <3>1 DEF ProtocolTimeout, Flags, Values
  <2>16. CASE ApplicationTimeout
    <3>1. PICK M \in SUBSET {AM} : signalIsReadyForShutdown(M) BY <2>16 DEF ApplicationTimeout
    <3>2. M \subseteq Managers BY DEF Managers
    <3>3. ready' \subseteq Managers /\ running' \in BOOLEAN /\ shutdownEvent' \in BOOLEAN
      BY <3>1, <3>2, SignalEffect
    <3>4. QED BY <2>0, <2>16, <3>3 DEF ApplicationTimeout, Flags, Values
  <2>17. ASSUME NEW p \in Instances, MakeInstance(p) PROVE TypeOK'
    <3>1. worker' \in [Instances -> WorkerStates] BY <2>17 DEF MakeInstance, Values, WorkerStates
    <3>2. protocols' \subseteq Instances /\ IsFiniteSet(protocols')
      BY <2>17 DEF MakeInstance, Values
    <3>3. QED BY <2>0, <2>17, <3>1, <3>2 DEF MakeInstance, Flags, Values
  <2>18. ASSUME NEW p \in Instances, WorkerEnds(p) PROVE TypeOK'
    BY <2>0, <2>18 DEF WorkerEnds, Flags, Values, WorkerStates
  <2>19. ASSUME NEW c \in Spawned, spawn_connectivity(c) PROVE TypeOK'
    BY <2>0, <2>19 DEF spawn_connectivity, Flags, Values
  <2>20. ASSUME NEW c \in Connectivities, ConnectivityEnds(c) PROVE TypeOK'
    BY <2>0, <2>20 DEF ConnectivityEnds, Flags, Values
  <2>21. ASSUME NEW a \in Apps, Register(a) PROVE TypeOK'
    <3>1. IsFiniteSet(apps') /\ apps' \subseteq Apps BY <2>21, FS_AddElement DEF Register, Values
    <3>2. pendingDOs' \subseteq Messages /\ told' \subseteq Messages
      BY <2>21 DEF Register, Values, Messages
    <3>3. QED BY <2>0, <2>21, <3>1, <3>2 DEF Register, Flags, Values
  <2>22. ASSUME NEW a \in Apps, deRegisterApplication(a) PROVE TypeOK'
    BY <2>0, <2>22, FS_RemoveElement DEF deRegisterApplication, Flags, Values
  <2>23. CASE onNeighborStatusChange
    BY <2>0, <2>23 DEF onNeighborStatusChange, Flags, Values, Messages
  <2>24. CASE ModuleQuits BY <2>0, <2>24 DEF ModuleQuits, Flags, Values
  <2>25. CASE StoreAnswers BY <2>0, <2>25 DEF StoreAnswers, Flags, Values
  <2>26. QED
    BY <1>2, <2>1, <2>2, <2>3, <2>4, <2>5, <2>6, <2>7, <2>8, <2>9, <2>10, <2>11, <2>12, <2>13,
       <2>14, <2>15, <2>16, <2>17, <2>18, <2>19, <2>20, <2>21, <2>22, <2>23, <2>24, <2>25
    DEF Next, KernelStep, TimerStep
<1>3. QED BY <1>1, <1>2

-----------------------------------------------------------------------------
(* The parts of the invariant, one lemma each.                             *)

\* What the loop knows of the registry while it runs.
LEMMA LoopFacts == TypeOK /\ InStep /\ InLoop => PM \in registry /\ joining = None
BY DEF InLoop, InStep, Managers

\* A signal of some managers, when all managers are or will be in the same phase.
LEMMA InStepSignal ==
    ASSUME TypeOK, InStep, NEW M, M \subseteq Managers, signalIsReadyForShutdown(M),
           UNCHANGED <<state, registry>>
    PROVE  InStep'
BY SignalEffect DEF InStep, Phase, TypeOK, Flags

\* Every step keeps the managers in the same phase.
LEMMA InStepStep == IInv /\ Next => InStep'
<1> SUFFICES ASSUME IInv, Next PROVE InStep' OBVIOUS
<1> USE DEF kernelFlags, phases
<1>0. TypeOK /\ InStep /\ PM \in Managers /\ AM \in Managers /\ AM # PM
  BY DEF IInv, Managers, AM, PM
<1>1. CASE UNCHANGED <<registry, shutdownEvent, state, ready>>
  BY <1>0, <1>1 DEF InStep, Phase
<1>2. CASE onPrepareStartup
  <2>1. Takes(PrepareStartup, {}) BY <1>0, <1>2, QueueTakesOnly
  <2>2. Phase = "stopped" BY <2>1 DEF Takes, IInv, StartsOnce
  <2>3. registry = Managers /\ shutdownEvent = FALSE
    BY <2>2 DEF IInv, InStep, StopsOnce, Down
  <2>4. \A m \in Managers : state'[m] = "prepare startup" BY <1>2 DEF onPrepareStartup
  <2>5. QED BY <1>0, <1>2, <2>3, <2>4 DEF onPrepareStartup, InStep, Phase
<1>3. CASE onStartup
  <2>1. Takes(Startup, {}) BY <1>0, <1>3, QueueTakesOnly
  <2>2. Phase = "prepare startup" BY <2>1 DEF Takes, IInv, StartsOnce
  <2>3. registry = Managers /\ shutdownEvent = FALSE
    BY <2>2 DEF IInv, InStep, StopsOnce, Down
  <2>4. \A m \in Managers : state'[m] = "running" BY <1>3 DEF onStartup
  <2>5. QED BY <1>0, <1>3, <2>3, <2>4 DEF onStartup, InStep, Phase
<1>4. CASE onDeleteProtocolEvent
  <2> DEFINE p == Head(events).arg
             M == IF Phase = "prepare shutdown" /\ NonApplicationReady(protocols \ {p}) THEN {PM} ELSE {}
  <2>1. signalIsReadyForShutdown(M) /\ UNCHANGED state
        /\ registry' = IF Phase = "shutdown" /\ Local \notin protocols \ {p} THEN registry \ {PM} ELSE registry
    BY <1>4 DEF onDeleteProtocolEvent, Phase
  <2>2. M \subseteq Managers BY <1>0
  <2>3. CASE registry' = registry
    <3> HIDE DEF M
    <3>1. QED BY <1>0, <2>1, <2>2, <2>3, InStepSignal
  <2>4. CASE registry' # registry
    <3>1. Phase = "shutdown" /\ registry' = registry \ {PM} /\ M = {} BY <2>1, <2>4
    <3>2. registry' = {} BY <1>0, <3>1, <2>4 DEF InStep
    <3> HIDE DEF M
    <3>3. ready' = ready BY <2>1, <3>1 DEF signalIsReadyForShutdown
    <3>4. QED BY <1>0, <2>1, <3>1, <3>2, <3>3 DEF InStep, Phase
  <2>5. QED BY <2>3, <2>4
<1>5. CASE onDeleteConnectivity
  BY <1>0, <1>5, InStepSignal DEF onDeleteConnectivity, Managers
<1>6. CASE onForwardingTaskComplete
  BY <1>0, <1>6, InStepSignal DEF onForwardingTaskComplete, Managers
<1>7. CASE onSendResult
  BY <1>0, <1>7, InStepSignal DEF onSendResult, Managers
<1>8. CASE onDataStoreFinished
  BY <1>0, <1>8, InStepSignal DEF onDataStoreFinished, Managers
<1>9. CASE ProtocolTimeout
  BY <1>0, <1>9, InStepSignal DEF ProtocolTimeout, Managers
<1>10. CASE ApplicationTimeout
  <2>1. signalIsReadyForShutdown({AM}) \/ signalIsReadyForShutdown({})
    BY <1>10 DEF ApplicationTimeout
  <2>2. UNCHANGED <<state, registry>> BY <1>10 DEF ApplicationTimeout
  <2>3. QED BY <1>0, <2>1, <2>2, InStepSignal
<1>11. CASE onPrepareShutdown
  <2> DEFINE M == Plain \union (IF NonApplicationReady(protocols) THEN {PM} ELSE {})
                \union (IF \E c \in Connectivities : Live(c) THEN {} ELSE {CM})
                \union (IF module = "running" THEN {} ELSE {FM})
                \union (IF apps = {} /\ pendingDOs = {} THEN {AM} ELSE {})
  <2>1. Queued(PrepareShutdown) BY <1>0, <1>11, QueuePrepareShutdown DEF Takes
  <2>2. registry = Managers BY <2>1 DEF IInv, InStep, StopsOnce, Down
  <2>3. signalIsReadyForShutdown(M) BY <1>11 DEF onPrepareShutdown
  <2>4. M \subseteq Managers BY DEF Managers
  <2>5. \A m \in Managers : state'[m] = "prepare shutdown" BY <1>11 DEF onPrepareShutdown
  <2>6. registry' = registry BY <1>11 DEF onPrepareShutdown
  <2> HIDE DEF M
  <2>7. shutdownEvent' = TRUE => shutdownEvent = TRUE \/ registry \subseteq ready'
    BY <1>0, <2>3, <2>4, SignalEffect
  <2>8. ready \subseteq ready' /\ shutdownEvent' \in BOOLEAN BY <1>0, <2>3, <2>4, SignalEffect
  <2>9. shutdownEvent' => registry' \subseteq ready'
    BY <1>0, <2>6, <2>7, <2>8 DEF InStep, TypeOK, Flags
  <2>10. QED BY <1>0, <2>2, <2>5, <2>6, <2>9 DEF InStep, Phase
<1>12. CASE onShutdown
  <2>1. registry # {} /\ shutdownEvent BY <1>12 DEF onShutdown, InLoop
  <2>2. registry' \in {{PM}, {}} BY <1>12 DEF onShutdown
  <2>3. \A m \in Managers : state'[m] = "shutdown"
    BY <1>0, <1>12 DEF onShutdown, InStep
  <2>4. Managers \subseteq ready BY <1>0, <2>1 DEF InStep
  <2>5. ready' = ready /\ shutdownEvent' = FALSE BY <1>12 DEF onShutdown
  <2>6. QED BY <1>0, <2>2, <2>3, <2>4, <2>5 DEF InStep, Phase
<1>13. QED
  BY <1>1, <1>2, <1>3, <1>4, <1>5, <1>6, <1>7, <1>8, <1>9, <1>10, <1>11, <1>12
  DEF Next, KernelStep, TimerStep, shutdown, NoticeShutdown, onInitPunt, registerProtocol,
      onSendDataObject, onSendSigned, MakeInstance, WorkerEnds, spawn_connectivity,
      ConnectivityEnds, Register, deRegisterApplication, onNeighborStatusChange, ModuleQuits,
      StoreAnswers

\* The events that start and stop the managers.
ControlEvents == {PrepareStartup, Startup, PrepareShutdown, StoreFinished}

\* The queue holds the same events of K, in the same order.
Neutral(K) ==
    /\ \A e \in K : Queued(e)' <=> Queued(e)
    /\ \A e \in K : \A b : Ordered(e, b) => Ordered(e, b)'

\* Posting other events leaves those of K alone.
LEMMA NeutralAdds ==
    ASSUME NEW K, NEW N, K \intersect N = {}, Adds(N) PROVE Neutral(K)
BY DEF Adds, Neutral

\* So does handling another event.
LEMMA NeutralTakes ==
    ASSUME NEW K, NEW N, NEW h, K \intersect N = {}, h \notin K, Takes(h, N) PROVE Neutral(K)
BY DEF Takes, Neutral

\* Only seven actions post or handle control events.
LEMMA NeutralStep ==
    ASSUME TypeOK, Next
    PROVE  \/ onPrepareStartup \/ onInitPunt \/ onStartup \/ NoticeShutdown \/ onPrepareShutdown
           \/ StoreAnswers \/ onDataStoreFinished
           \/ Neutral(ControlEvents)
<1>0. /\ ControlEvents \intersect OtherEvents = {} /\ ControlEvents \intersect {Quit} = {}
      /\ \A p : Add(p) \notin ControlEvents /\ Del(p) \notin ControlEvents
  BY Different DEF ControlEvents
<1>00. \A P : ControlEvents \intersect DelSet(P) = {} BY <1>0 DEF DelSet
<1>1. CASE UNCHANGED events \/ (\E c \in Connectivities : ConnectivityEnds(c))
           \/ (\E a \in Apps : Register(a)) \/ onNeighborStatusChange
  <2>1. Adds(OtherEvents) BY <1>1, QueueOther
  <2>2. QED BY <1>0, <2>1, NeutralAdds
<1>2. CASE onDeleteConnectivity \/ onSendResult \/ onSendDataObject \/ onSendSigned
  <2>1. PICK h \in OtherEvents : h = Head(events) /\ Takes(h, OtherEvents) BY <1>2, QueueTakesOther
  <2>2. h \notin ControlEvents BY <1>0
  <2>3. QED BY <1>0, <2>1, <2>2, NeutralTakes
<1>3. CASE onForwardingTaskComplete
  <2>1. Takes(Quit, {}) BY <1>3, QueueTakesOnly
  <2>2. QED BY <1>0, <2>1, NeutralTakes
<1>4. CASE ModuleQuits
  <2>1. Adds({Quit}) BY <1>4, QueuePosts DEF Posts
  <2>2. QED BY <1>0, <2>1, NeutralAdds
<1>5. CASE registerProtocol
  <2> DEFINE p == Head(events).arg
  <2>1. Takes(Add(p), LatePost(p)) BY <1>5, QueueRegister
  <2> HIDE DEF p
  <2>2. ControlEvents \intersect LatePost(p) = {} BY <1>0 DEF LatePost
  <2>3. QED BY <1>0, <2>1, <2>2, NeutralTakes
<1>6. CASE onDeleteProtocolEvent
  <2> DEFINE p == Head(events).arg
  <2>1. Takes(Del(p), DelSet(StopAfter(p))) BY <1>6, QueueDelete
  <2> HIDE DEF p
  <2>2. QED BY <1>0, <1>00, <2>1, NeutralTakes
<1>7. CASE onShutdown
  <2>1. Adds(DelSet({Local})) BY <1>7, QueueShutdown
  <2>2. QED BY <1>00, <2>1, NeutralAdds
<1>8. ASSUME NEW p \in Instances, MakeInstance(p) PROVE Neutral(ControlEvents)
  <2>1. Adds({Add(p)}) BY <1>8, QueuePosts DEF Posts
  <2>2. ControlEvents \intersect {Add(p)} = {} BY <1>0
  <2>3. QED BY <2>1, <2>2, NeutralAdds
<1>9. ASSUME NEW p \in Instances, WorkerEnds(p) PROVE Neutral(ControlEvents)
  <2>1. Adds({Del(p)}) \/ UNCHANGED events BY <1>9, QueuePosts DEF Posts
  <2>2. ControlEvents \intersect {Del(p)} = {} BY <1>0
  <2>3. CASE Adds({Del(p)}) BY <2>2, <2>3, NeutralAdds
  <2>4. CASE UNCHANGED events
    <3>1. Adds({}) BY <2>4, AddsNothing
    <3>2. QED BY <3>1, NeutralAdds
  <2>5. QED BY <2>1, <2>3, <2>4
<1>10. QED
  BY <1>1, <1>2, <1>3, <1>4, <1>5, <1>6, <1>7, <1>8, <1>9
  DEF Next, KernelStep, TimerStep, shutdown, ProtocolTimeout, ApplicationTimeout,
      spawn_connectivity, deRegisterApplication

\* The phase is the same but for the actions that start and stop the managers.
LEMMA PhaseFrame ==
    ASSUME TypeOK, Next
    PROVE  /\ \/ onPrepareStartup \/ onStartup \/ onPrepareShutdown \/ onShutdown
              \/ UNCHANGED state
           /\ onPrepareStartup \/ onInitPunt \/ UNCHANGED prepared
           /\ onInitPunt \/ (running' = TRUE => running = TRUE)
           /\ shutdown \/ UNCHANGED shutdownCalled
           /\ onInitPunt \/ ModuleQuits \/ onPrepareShutdown \/ UNCHANGED module
           /\ shutdown \/ NoticeShutdown \/ UNCHANGED prepareShutdown
           /\ onPrepareShutdown \/ StoreAnswers \/ UNCHANGED storeAsked
           /\ \/ onDeleteProtocolEvent \/ onDeleteConnectivity \/ onForwardingTaskComplete
              \/ onSendResult \/ onDataStoreFinished \/ onPrepareShutdown \/ onShutdown
              \/ ProtocolTimeout \/ ApplicationTimeout \/ UNCHANGED <<ready, shutdownEvent>>
<1> USE DEF kernelFlags, phases, application
<1>1. CASE onDeleteProtocolEvent \/ onDeleteConnectivity \/ onForwardingTaskComplete
           \/ onSendResult \/ onDataStoreFinished \/ onPrepareShutdown
           \/ ProtocolTimeout \/ ApplicationTimeout
  <2>1. running' = FALSE \/ running' = running
    BY <1>1 DEF signalIsReadyForShutdown, onDeleteProtocolEvent, onDeleteConnectivity,
                onForwardingTaskComplete, onSendResult, onDataStoreFinished, onPrepareShutdown,
                ProtocolTimeout, ApplicationTimeout
  <2>2. QED
    BY <1>1, <2>1 DEF onDeleteProtocolEvent, onDeleteConnectivity,
                onForwardingTaskComplete, onSendResult, onDataStoreFinished, onPrepareShutdown,
                ProtocolTimeout, ApplicationTimeout
<1>2. CASE \/ NoticeShutdown \/ onPrepareStartup \/ onInitPunt \/ onStartup \/ registerProtocol
           \/ onSendDataObject \/ onSendSigned \/ onShutdown \/ shutdown
  BY <1>2 DEF NoticeShutdown, onPrepareStartup, onInitPunt, onStartup, registerProtocol,
              onSendDataObject, onSendSigned, onShutdown, shutdown
<1>3. CASE \/ \E p \in Instances : MakeInstance(p) \/ WorkerEnds(p)
           \/ \E c \in Spawned : spawn_connectivity(c)
           \/ \E c \in Connectivities : ConnectivityEnds(c)
           \/ \E a \in Apps : Register(a) \/ deRegisterApplication(a)
           \/ onNeighborStatusChange \/ ModuleQuits \/ StoreAnswers
  BY <1>3 DEF MakeInstance, WorkerEnds, spawn_connectivity, ConnectivityEnds, Register,
              deRegisterApplication, onNeighborStatusChange, ModuleQuits, StoreAnswers
<1>4. QED BY <1>1, <1>2, <1>3 DEF Next, KernelStep, TimerStep

\* Every step keeps the start-up events unique and in their phase.
LEMMA StartsOnceStep == IInv /\ Next => StartsOnce'
<1> SUFFICES ASSUME IInv, Next PROVE StartsOnce' OBVIOUS
<1>0. TypeOK /\ InStep /\ StartsOnce /\ StopsOnce BY DEF IInv
<1>00. FM \in Managers /\ PM \in Managers /\ PM # FM BY DEF Managers, FM, PM
<1>1. CASE onPrepareStartup
  <2>1. Takes(PrepareStartup, {}) BY <1>0, <1>1, QueueTakesOnly
  <2>2. Phase = "stopped" /\ ~Queued(Startup) BY <1>0, <2>1 DEF Takes, StartsOnce
  <2>3. ~Queued(PrepareStartup)' /\ ~Queued(Startup)' BY <1>0, <2>1, <2>2 DEF Takes, StartsOnce
  <2>4. Ordered(PrepareStartup, PrepareStartup)' /\ Ordered(Startup, Startup)'
    BY <1>0, <2>1 DEF Takes, StartsOnce
  <2>5. Phase' = "prepare startup" /\ prepared' = Managers \ {FM}
        /\ UNCHANGED <<running, shutdownCalled, module>>
    BY <1>00, <1>1 DEF onPrepareStartup, Phase, kernelFlags
  <2>6. FM \notin prepared BY <1>0, <2>2 DEF StartsOnce
  <2>7. QED BY <1>0, <1>00, <2>3, <2>4, <2>5, <2>6 DEF StartsOnce
<1>2. CASE onInitPunt
  <2>1. Posts(Startup) BY <1>0, <1>2, QueuePosts
  <2>2. FM \notin prepared /\ prepared # {} /\ prepared' = prepared \union {FM}
        /\ UNCHANGED state
    BY <1>2 DEF onInitPunt
  <2>3. Phase = "prepare startup" /\ Phase' = Phase BY <1>0, <2>2 DEF StartsOnce, Phase
  <2>4. ~Queued(Startup) BY <1>0, <2>2 DEF StartsOnce
  <2>5. PrepareStartup # Startup BY Different
  <2>6. Ordered(Startup, Startup)' BY <1>0, <2>1, <2>4 DEF Posts, StartsOnce
  <2>7. Ordered(PrepareStartup, PrepareStartup)' BY <1>0, <2>1, <2>5 DEF Posts, Adds, StartsOnce
  <2>8. ~Queued(PrepareStartup)' BY <1>0, <2>1, <2>3, <2>5 DEF Posts, Adds, StartsOnce
  <2>9. QED BY <1>0, <2>2, <2>3, <2>6, <2>7, <2>8 DEF StartsOnce
<1>3. CASE onStartup
  <2>1. Takes(Startup, {}) BY <1>0, <1>3, QueueTakesOnly
  <2>2. Phase = "prepare startup" /\ FM \in prepared BY <1>0, <2>1 DEF Takes, StartsOnce
  <2>3. ~Queued(PrepareStartup)' /\ ~Queued(Startup)' BY <1>0, <2>1, <2>2 DEF Takes, StartsOnce
  <2>4. Ordered(PrepareStartup, PrepareStartup)' /\ Ordered(Startup, Startup)'
    BY <1>0, <2>1 DEF Takes, StartsOnce
  <2>5. Phase' = "running" /\ UNCHANGED prepared
    BY <1>00, <1>3 DEF onStartup, Phase
  <2>6. QED BY <1>0, <2>2, <2>3, <2>4, <2>5 DEF StartsOnce
<1>4. CASE onPrepareShutdown
  <2> DEFINE N == DelSet(Instances \ {Local}) \union OtherEvents
  <2>1. Takes(PrepareShutdown, N) BY <1>0, <1>4, QueuePrepareShutdown
  <2>2. PrepareStartup \notin N /\ Startup \notin N BY Different DEF DelSet
  <2> HIDE DEF N
  <2>3. shutdownCalled = TRUE BY <1>0, <2>1 DEF Takes, StopsOnce
  <2>4. FM \in prepared /\ ~Queued(PrepareStartup) BY <1>0, <2>3 DEF StartsOnce
  <2>5. ~Queued(PrepareStartup)' BY <2>1, <2>2, <2>4 DEF Takes
  <2>6. ~Queued(Startup)' BY <1>0, <2>1, <2>2 DEF Takes, StopsOnce
  <2>7. Ordered(PrepareStartup, PrepareStartup)' /\ Ordered(Startup, Startup)'
    BY <1>0, <2>1, <2>2 DEF Takes, StartsOnce
  <2>8. Phase' = "prepare shutdown" /\ UNCHANGED prepared
    BY <1>00, <1>4 DEF onPrepareShutdown, Phase
  <2>9. QED BY <2>4, <2>5, <2>6, <2>7, <2>8 DEF StartsOnce
<1>5. ASSUME Neutral(ControlEvents) \/ NoticeShutdown \/ StoreAnswers \/ onDataStoreFinished
      PROVE  Neutral({PrepareStartup, Startup})
  <2>1. CASE Neutral(ControlEvents) BY <2>1 DEF Neutral, ControlEvents
  <2>2. CASE NoticeShutdown
    <3>1. Adds({PrepareShutdown}) BY <1>0, <2>2, QueuePosts DEF Posts
    <3>2. {PrepareStartup, Startup} \intersect {PrepareShutdown} = {} BY Different
    <3>3. QED BY <3>1, <3>2, NeutralAdds
  <2>3. CASE StoreAnswers
    <3>1. Adds({StoreFinished}) BY <1>0, <2>3, QueuePosts DEF Posts
    <3>2. {PrepareStartup, Startup} \intersect {StoreFinished} = {} BY Different
    <3>3. QED BY <3>1, <3>2, NeutralAdds
  <2>4. CASE onDataStoreFinished
    <3>1. Takes(StoreFinished, {}) BY <1>0, <2>4, QueueTakesOnly
    <3>2. StoreFinished \notin {PrepareStartup, Startup} BY Different
    <3>3. QED BY <3>1, <3>2, NeutralTakes
  <2>5. QED BY <1>5, <2>1, <2>2, <2>3, <2>4
<1>6. CASE ~(onPrepareStartup \/ onInitPunt \/ onStartup \/ onPrepareShutdown)
  <2>1. Neutral({PrepareStartup, Startup}) BY <1>0, <1>5, <1>6, NeutralStep
  <2>2. UNCHANGED prepared /\ (running' = TRUE => running = TRUE) /\ (onShutdown \/ UNCHANGED state)
    BY <1>0, <1>6, PhaseFrame
  <2>3. FM \notin prepared => shutdownCalled' = FALSE /\ module' = "idle" /\ running' = FALSE
    <3> SUFFICES ASSUME FM \notin prepared
                 PROVE  shutdownCalled' = FALSE /\ module' = "idle" /\ running' = FALSE
        OBVIOUS
    <3>1. running = FALSE /\ shutdownCalled = FALSE /\ module = "idle" BY <1>0 DEF StartsOnce
    <3>2. ~shutdown /\ ~ModuleQuits BY <3>1 DEF shutdown, ModuleQuits
    <3>3. UNCHANGED <<shutdownCalled, module>> BY <1>0, <1>6, <3>2, PhaseFrame
    <3>4. running' \in BOOLEAN BY <1>0, TypeStep DEF TypeOK, Flags
    <3>5. QED BY <2>2, <3>1, <3>3, <3>4
  <2>4. CASE UNCHANGED state
    <3>1. Phase' = Phase BY <2>4 DEF Phase
    <3>2. QED BY <1>0, <2>1, <2>2, <2>3, <3>1 DEF StartsOnce, Neutral
  <2>5. CASE onShutdown
    <3>1. shutdownEvent /\ Phase' = "shutdown"
      BY <1>0, <1>00, <2>5 DEF onShutdown, InLoop, InStep, Phase
    <3>2. Down BY <1>0, <3>1 DEF StopsOnce
    <3>3. FM \in prepared /\ ~Queued(PrepareStartup) /\ ~Queued(Startup) /\ prepared # {}
      BY <1>0, <3>2 DEF StartsOnce, Down
    <3>4. QED BY <1>0, <2>1, <2>2, <3>1, <3>3 DEF StartsOnce, Neutral
  <2>6. QED BY <2>2, <2>4, <2>5
<1>7. QED BY <1>1, <1>2, <1>3, <1>4, <1>6

\* The managers go down when they are asked to, and not before.
LEMMA DownStep ==
    ASSUME IInv, Next
    PROVE  /\ Down => Down'
           /\ Down' => Down \/ onPrepareShutdown
<1>0. TypeOK /\ InStep /\ StartsOnce /\ StopsOnce /\ PM \in Managers BY DEF IInv, Managers
<1>1. CASE onPrepareStartup
  <2>1. Queued(PrepareStartup) BY <1>0, <1>1, QueueTakesOnly DEF Takes
  <2>2. Phase = "stopped" /\ Phase' = "prepare startup"
    BY <1>0, <1>1, <2>1 DEF StartsOnce, onPrepareStartup, Phase
  <2>3. QED BY <2>2 DEF Down
<1>2. CASE onStartup
  <2>1. Queued(Startup) BY <1>0, <1>2, QueueTakesOnly DEF Takes
  <2>2. Phase = "prepare startup" /\ Phase' = "running"
    BY <1>0, <1>2, <2>1 DEF StartsOnce, onStartup, Phase
  <2>3. QED BY <2>2 DEF Down
<1>3. CASE onPrepareShutdown
  <2>1. Phase' = "prepare shutdown" BY <1>0, <1>3 DEF onPrepareShutdown, Phase
  <2>2. QED BY <1>3, <2>1 DEF Down
<1>4. CASE onShutdown
  <2>1. shutdownEvent /\ Phase' = "shutdown"
    BY <1>0, <1>4 DEF onShutdown, InLoop, InStep, Phase
  <2>2. QED BY <1>0, <2>1 DEF Down, StopsOnce
<1>5. CASE UNCHANGED state BY <1>5 DEF Down, Phase
<1>6. QED BY <1>0, <1>1, <1>2, <1>3, <1>4, <1>5, PhaseFrame

\* Until then no manager signals, and nothing is asked of the data store.
LEMMA NothingReadyStep ==
    ASSUME IInv, Next, ~Down'
    PROVE  ready' = {} /\ shutdownEvent' = FALSE /\ storeAsked' = FALSE /\ ~Queued(StoreFinished)'
<1>0. TypeOK /\ InStep /\ StartsOnce /\ StopsOnce BY DEF IInv
<1>1. ~Down BY DownStep
<1>2. ready = {} /\ shutdownEvent = FALSE /\ storeAsked = FALSE /\ ~Queued(StoreFinished)
  BY <1>0, <1>1 DEF StopsOnce
<1>3. ~onDataStoreFinished BY <1>0, <1>2, QueueTakesOnly DEF Takes
<1>4. ~StoreAnswers BY <1>2 DEF StoreAnswers
<1>5. ~onPrepareShutdown
  <2>1. onPrepareShutdown => Phase' = "prepare shutdown" BY DEF onPrepareShutdown, Phase, Managers
  <2>2. QED BY <2>1 DEF Down
<1>6. ~onShutdown BY <1>2 DEF onShutdown
<1>7. storeAsked' = FALSE BY <1>0, <1>2, <1>4, <1>5, PhaseFrame
<1>8. \A m \in Managers : state[m] \notin {"prepare shutdown", "shutdown"}
  BY <1>0, <1>1 DEF InStep, Down
<1>9. {PM, AM, CM, FM} \subseteq Managers BY DEF Managers
<1>10. ready' = {} /\ shutdownEvent' = FALSE
  <2>1. ASSUME signalIsReadyForShutdown({}) PROVE ready' = {} /\ shutdownEvent' = FALSE
    BY <1>2, <2>1 DEF signalIsReadyForShutdown
  <2>2. CASE onDeleteProtocolEvent BY <1>8, <1>9, <2>1, <2>2 DEF onDeleteProtocolEvent
  <2>3. CASE onDeleteConnectivity BY <1>8, <1>9, <2>1, <2>3 DEF onDeleteConnectivity
  <2>4. CASE onForwardingTaskComplete BY <1>8, <1>9, <2>1, <2>4 DEF onForwardingTaskComplete
  <2>5. CASE onSendResult BY <1>8, <1>9, <2>1, <2>5 DEF onSendResult
  <2>6. CASE ProtocolTimeout BY <1>8, <1>9, <2>1, <2>6 DEF ProtocolTimeout
  <2>7. CASE ApplicationTimeout BY <1>8, <1>9, <2>1, <2>7 DEF ApplicationTimeout
  <2>8. CASE UNCHANGED <<ready, shutdownEvent>> BY <1>2, <2>8
  <2>9. QED BY <1>0, <1>3, <1>5, <1>6, <2>2, <2>3, <2>4, <2>5, <2>6, <2>7, <2>8, PhaseFrame
<1>11. ~Queued(StoreFinished)'
  <2>1. CASE onPrepareStartup BY <1>0, <1>2, <2>1, QueueTakesOnly DEF Takes
  <2>2. CASE onStartup BY <1>0, <1>2, <2>2, QueueTakesOnly DEF Takes
  <2>3. CASE onInitPunt
    <3>1. Adds({Startup}) BY <1>0, <2>3, QueuePosts DEF Posts
    <3>2. QED BY <1>2, <3>1, Different DEF Adds
  <2>4. CASE NoticeShutdown
    <3>1. Adds({PrepareShutdown}) BY <1>0, <2>4, QueuePosts DEF Posts
    <3>2. QED BY <1>2, <3>1, Different DEF Adds
  <2>5. CASE Neutral(ControlEvents) BY <1>2, <2>5 DEF Neutral, ControlEvents
  <2>6. QED BY <1>0, <1>3, <1>4, <1>5, <2>1, <2>2, <2>3, <2>4, <2>5, NeutralStep
<1>12. QED BY <1>7, <1>10, <1>11

\* Every step keeps the request to shut down unique and behind the start.
LEMMA StopsOnceStep == IInv /\ Next => StopsOnce'
<1> SUFFICES ASSUME IInv, Next PROVE StopsOnce' OBVIOUS
<1>0. TypeOK /\ InStep /\ StartsOnce /\ StopsOnce BY DEF IInv
<1>1. ~Down' => ready' = {} /\ shutdownEvent' = FALSE /\ storeAsked' = FALSE /\ ~Queued(StoreFinished)'
  BY NothingReadyStep
<1>2. CASE NoticeShutdown
  <2>1. Posts(PrepareShutdown) BY <1>0, <1>2, QueuePosts
  <2>2. prepareShutdown /\ prepareShutdown' = FALSE /\ UNCHANGED <<state, shutdownCalled>>
    BY <1>2 DEF NoticeShutdown, phases
  <2>3. shutdownCalled = TRUE /\ ~Queued(PrepareShutdown) /\ ~Down BY <1>0, <2>2 DEF StopsOnce
  <2>4. ~Down' BY <2>2, <2>3 DEF Down, Phase
  <2>5. Ordered(PrepareShutdown, PrepareShutdown)' BY <1>0, <2>1, <2>3 DEF Posts, StopsOnce
  <2>6. Ordered(Startup, PrepareShutdown)' BY <1>0, <2>1, Different DEF Posts, Adds, StopsOnce
  <2>7. QED BY <1>1, <2>2, <2>3, <2>4, <2>5, <2>6 DEF StopsOnce
<1>3. CASE onPrepareShutdown
  <2> DEFINE N == DelSet(Instances \ {Local}) \union OtherEvents
  <2>1. Takes(PrepareShutdown, N) BY <1>0, <1>3, QueuePrepareShutdown
  <2>2. PrepareShutdown \notin N /\ Startup \notin N BY Different DEF DelSet
  <2> HIDE DEF N
  <2>3. shutdownCalled = TRUE /\ prepareShutdown = FALSE BY <1>0, <2>1 DEF Takes, StopsOnce
  <2>4. ~Queued(PrepareShutdown)' BY <1>0, <2>1, <2>2 DEF Takes, StopsOnce
  <2>5. Ordered(PrepareShutdown, PrepareShutdown)' /\ Ordered(Startup, PrepareShutdown)'
    BY <1>0, <2>1, <2>2 DEF Takes, StopsOnce
  <2>6. UNCHANGED <<shutdownCalled, prepareShutdown>> BY <1>3 DEF onPrepareShutdown
  <2>7. QED BY <1>1, <2>3, <2>4, <2>5, <2>6 DEF StopsOnce
<1>4. CASE shutdown
  <2>1. shutdownCalled = FALSE /\ shutdownCalled' = TRUE /\ prepareShutdown' = TRUE
        /\ UNCHANGED <<state, events>>
    BY <1>0, <1>4 DEF shutdown, phases, TypeOK, Flags
  <2>2. ~Queued(PrepareShutdown) /\ ~Down BY <1>0, <2>1 DEF StopsOnce
  <2>3. Adds({}) BY <2>1, AddsNothing
  <2>4. ~Down' BY <2>1, <2>2 DEF Down, Phase
  <2>5. QED BY <1>0, <1>1, <2>1, <2>2, <2>3, <2>4 DEF StopsOnce, Adds
<1>5. CASE ~(NoticeShutdown \/ onPrepareShutdown \/ shutdown)
  <2>1. UNCHANGED <<shutdownCalled, prepareShutdown>> BY <1>0, <1>5, PhaseFrame
  <2>2. Down' <=> Down BY <1>5, DownStep
  <2>3. /\ Queued(PrepareShutdown)' => Queued(PrepareShutdown)
        /\ Ordered(PrepareShutdown, PrepareShutdown) => Ordered(PrepareShutdown, PrepareShutdown)'
        /\ Ordered(Startup, PrepareShutdown) => Ordered(Startup, PrepareShutdown)'
    <3>1. CASE onPrepareStartup BY <1>0, <3>1, QueueTakesOnly DEF Takes
    <3>2. CASE onStartup BY <1>0, <3>2, QueueTakesOnly DEF Takes
    <3>3. CASE onInitPunt
      <4>1. Posts(Startup) BY <1>0, <3>3, QueuePosts
      <4>2. FM \notin prepared BY <3>3 DEF onInitPunt
      <4>3. ~Queued(PrepareShutdown) BY <1>0, <4>2 DEF StartsOnce, StopsOnce
      <4>4. QED BY <4>1, <4>3, Different DEF Posts, Adds
    <3>4. CASE StoreAnswers
      <4>1. Adds({StoreFinished}) BY <1>0, <3>4, QueuePosts DEF Posts
      <4>2. QED BY <4>1, Different DEF Adds
    <3>5. CASE onDataStoreFinished BY <1>0, <3>5, QueueTakesOnly DEF Takes
    <3>6. CASE Neutral(ControlEvents) BY <3>6 DEF Neutral, ControlEvents
    <3>7. QED BY <1>0, <1>5, <3>1, <3>2, <3>3, <3>4, <3>5, <3>6, NeutralStep
  <2>4. QED BY <1>0, <1>1, <2>1, <2>2, <2>3 DEF StopsOnce
<1>6. QED BY <1>2, <1>3, <1>4, <1>5

\* Each manager signals in its own handlers.
LEMMA WhoSignals ==
    ASSUME TypeOK, Next
    PROVE  /\ PM \in ready' => PM \in ready \/ onDeleteProtocolEvent \/ ProtocolTimeout \/ onPrepareShutdown
           /\ CM \in ready' => CM \in ready \/ onDeleteConnectivity \/ onPrepareShutdown
           /\ FM \in ready' => FM \in ready \/ onForwardingTaskComplete \/ onPrepareShutdown
<1>0. PM \notin {AM, CM, FM} /\ CM \notin {AM, FM} /\ FM # AM BY DEF PM, AM, CM, FM
<1>1. CASE UNCHANGED <<ready, shutdownEvent>> BY <1>1
<1>2. CASE onDeleteProtocolEvent
  <2>1. ready' \subseteq ready \union {PM} BY <1>2 DEF onDeleteProtocolEvent, signalIsReadyForShutdown
  <2>2. QED BY <1>0, <1>2, <2>1
<1>3. CASE onDeleteConnectivity
  <2>1. ready' \subseteq ready \union {CM} BY <1>3 DEF onDeleteConnectivity, signalIsReadyForShutdown
  <2>2. QED BY <1>0, <1>3, <2>1
<1>4. CASE onForwardingTaskComplete
  <2>1. ready' \subseteq ready \union {FM}
    BY <1>4 DEF onForwardingTaskComplete, signalIsReadyForShutdown
  <2>2. QED BY <1>0, <1>4, <2>1
<1>5. CASE onSendResult \/ onDataStoreFinished \/ ApplicationTimeout
  <2>1. ready' \subseteq ready \union {AM}
    BY <1>5 DEF onSendResult, onDataStoreFinished, ApplicationTimeout, signalIsReadyForShutdown
  <2>2. QED BY <1>0, <2>1
<1>6. CASE ProtocolTimeout
  <2>1. ready' \subseteq ready \union {PM} BY <1>6 DEF ProtocolTimeout, signalIsReadyForShutdown
  <2>2. QED BY <1>0, <1>6, <2>1
<1>7. CASE onShutdown
  <2>1. ready' = ready BY <1>7 DEF onShutdown
  <2>2. QED BY <2>1
<1>8. QED BY <1>1, <1>2, <1>3, <1>4, <1>5, <1>6, <1>7, PhaseFrame

\* Who changes instances, connectivities and the history.
LEMMA OtherFrame ==
    ASSUME TypeOK, Next
    PROVE  /\ registerProtocol \/ onDeleteProtocolEvent \/ onShutdown \/ UNCHANGED protocols
           /\ \/ registerProtocol \/ onDeleteProtocolEvent \/ onShutdown \/ onPrepareShutdown
              \/ \E p \in Instances : MakeInstance(p) \/ WorkerEnds(p)
              \/ UNCHANGED <<worker, joining>>
           /\ \/ onStartup \/ onDeleteConnectivity \/ onPrepareShutdown
              \/ \E c \in Spawned : spawn_connectivity(c)
              \/ \E c \in Connectivities : ConnectivityEnds(c)
              \/ UNCHANGED conn
           /\ ProtocolTimeout \/ UNCHANGED forced
           /\ onDeleteProtocolEvent \/ onShutdown \/ UNCHANGED registry
<1> USE DEF kernelFlags, instances
<1>1. CASE onDeleteProtocolEvent \/ onDeleteConnectivity \/ onForwardingTaskComplete
           \/ onSendResult \/ onDataStoreFinished \/ onPrepareShutdown
           \/ ProtocolTimeout \/ ApplicationTimeout
  BY <1>1 DEF onDeleteProtocolEvent, onDeleteConnectivity,
              onForwardingTaskComplete, onSendResult, onDataStoreFinished, onPrepareShutdown,
              ProtocolTimeout, ApplicationTimeout
<1>2. CASE \/ NoticeShutdown \/ onPrepareStartup \/ onInitPunt \/ onStartup \/ registerProtocol
           \/ onSendDataObject \/ onSendSigned \/ onShutdown \/ shutdown
  BY <1>2 DEF NoticeShutdown, onPrepareStartup, onInitPunt, onStartup, registerProtocol,
              onSendDataObject, onSendSigned, onShutdown, shutdown
<1>3. CASE \/ \E p \in Instances : MakeInstance(p) \/ WorkerEnds(p)
           \/ \E c \in Spawned : spawn_connectivity(c)
           \/ \E c \in Connectivities : ConnectivityEnds(c)
           \/ \E a \in Apps : Register(a) \/ deRegisterApplication(a)
           \/ onNeighborStatusChange \/ ModuleQuits \/ StoreAnswers
  BY <1>3 DEF MakeInstance, WorkerEnds, spawn_connectivity, ConnectivityEnds, Register,
              deRegisterApplication, onNeighborStatusChange, ModuleQuits, StoreAnswers
<1>4. QED BY <1>1, <1>2, <1>3 DEF Next, KernelStep, TimerStep

\* What an action posts, and what it takes from the queue.
Posted(e) ==
    \/ e \in OtherEvents
    \/ NoticeShutdown /\ e = PrepareShutdown
    \/ onInitPunt /\ e = Startup
    \/ ModuleQuits /\ e = Quit
    \/ StoreAnswers /\ e = StoreFinished
    \/ \E p \in Instances : MakeInstance(p) /\ e = Add(p)
    \/ \E p \in Instances : WorkerEnds(p) /\ e = Del(p)
    \/ registerProtocol /\ e \in LatePost(Head(events).arg)
    \/ onDeleteProtocolEvent /\ e \in DelSet(StopAfter(Head(events).arg))
    \/ onPrepareShutdown /\ e \in DelSet(Instances \ {Local})
    \/ onShutdown /\ e = Del(Local)

Taken(e) ==
    \/ /\ onDeleteConnectivity \/ onSendResult \/ onSendDataObject \/ onSendSigned
       /\ e \in OtherEvents /\ e = Head(events)
    \/ onPrepareStartup /\ e = PrepareStartup
    \/ onStartup /\ e = Startup
    \/ onForwardingTaskComplete /\ e = Quit
    \/ onDataStoreFinished /\ e = StoreFinished
    \/ registerProtocol /\ e = Add(Head(events).arg)
    \/ onDeleteProtocolEvent /\ e = Del(Head(events).arg)
    \/ onPrepareShutdown /\ e = PrepareShutdown

\* Events come into the queue and go, and stay in order, by these actions only.
LEMMA QueueStep ==
    ASSUME TypeOK, Next
    PROVE  /\ \A e : Queued(e)' => Queued(e) \/ Posted(e)
           /\ \A e : Queued(e) => Queued(e)' \/ Taken(e)
           /\ \A a, b : Ordered(a, b) => Ordered(a, b)' \/ Posted(a)
<1>1. ASSUME NEW N, Adds(N), \A e \in N : Posted(e)
      PROVE  /\ \A e : Queued(e)' => Queued(e) \/ Posted(e)
             /\ \A e : Queued(e) => Queued(e)' \/ Taken(e)
             /\ \A a, b : Ordered(a, b) => Ordered(a, b)' \/ Posted(a)
  BY <1>1 DEF Adds
<1>2. ASSUME NEW h, NEW N, Takes(h, N), \A e \in N : Posted(e), Taken(h)
      PROVE  /\ \A e : Queued(e)' => Queued(e) \/ Posted(e)
             /\ \A e : Queued(e) => Queued(e)' \/ Taken(e)
             /\ \A a, b : Ordered(a, b) => Ordered(a, b)' \/ Posted(a)
  BY <1>2 DEF Takes
<1>3. CASE UNCHANGED events \/ (\E c \in Connectivities : ConnectivityEnds(c))
           \/ (\E a \in Apps : Register(a)) \/ onNeighborStatusChange
  <2>1. Adds(OtherEvents) BY <1>3, QueueOther
  <2>2. \A e \in OtherEvents : Posted(e) BY DEF Posted
  <2>3. QED BY <1>1, <2>1, <2>2
<1>4. CASE onDeleteConnectivity \/ onSendResult \/ onSendDataObject \/ onSendSigned
  <2>1. PICK h \in OtherEvents : h = Head(events) /\ Takes(h, OtherEvents) BY <1>4, QueueTakesOther
  <2>2. Taken(h) /\ \A e \in OtherEvents : Posted(e) BY <1>4, <2>1 DEF Posted, Taken
  <2>3. QED BY <1>2, <2>1, <2>2
<1>5. CASE onPrepareStartup
  <2>1. Takes(PrepareStartup, {}) /\ Taken(PrepareStartup) BY <1>5, QueueTakesOnly DEF Taken
  <2>2. QED BY <1>2, <2>1
<1>6. CASE onStartup
  <2>1. Takes(Startup, {}) /\ Taken(Startup) BY <1>6, QueueTakesOnly DEF Taken
  <2>2. QED BY <1>2, <2>1
<1>7. CASE onForwardingTaskComplete
  <2>1. Takes(Quit, {}) /\ Taken(Quit) BY <1>7, QueueTakesOnly DEF Taken
  <2>2. QED BY <1>2, <2>1
<1>8. CASE onDataStoreFinished
  <2>1. Takes(StoreFinished, {}) /\ Taken(StoreFinished) BY <1>8, QueueTakesOnly DEF Taken
  <2>2. QED BY <1>2, <2>1
<1>9. CASE NoticeShutdown
  <2>1. Adds({PrepareShutdown}) /\ Posted(PrepareShutdown) BY <1>9, QueuePosts DEF Posts, Posted
  <2>2. QED BY <1>1, <2>1
<1>10. CASE onInitPunt
  <2>1. Adds({Startup}) /\ Posted(Startup) BY <1>10, QueuePosts DEF Posts, Posted
  <2>2. QED BY <1>1, <2>1
<1>11. CASE ModuleQuits
  <2>1. Adds({Quit}) /\ Posted(Quit) BY <1>11, QueuePosts DEF Posts, Posted
  <2>2. QED BY <1>1, <2>1
<1>12. CASE StoreAnswers
  <2>1. Adds({StoreFinished}) /\ Posted(StoreFinished) BY <1>12, QueuePosts DEF Posts, Posted
  <2>2. QED BY <1>1, <2>1
<1>13. CASE \E p \in Instances : MakeInstance(p)
  <2>1. PICK p \in Instances : MakeInstance(p) BY <1>13
  <2>2. Adds({Add(p)}) /\ Posted(Add(p)) BY <2>1, QueuePosts DEF Posts, Posted
  <2>3. QED BY <1>1, <2>2
<1>14. CASE \E p \in Instances : WorkerEnds(p)
  <2>1. PICK p \in Instances : WorkerEnds(p) BY <1>14
  <2>2. (Adds({Del(p)}) \/ UNCHANGED events) /\ Posted(Del(p)) BY <2>1, QueuePosts DEF Posts, Posted
  <2>3. QED BY <1>1, <1>3, <2>2
<1>15. CASE registerProtocol
  <2>1. PICK p : p = Head(events).arg OBVIOUS
  <2>2. Takes(Add(p), LatePost(p)) BY <1>15, <2>1, QueueRegister
  <2>3. Taken(Add(p)) /\ \A e \in LatePost(p) : Posted(e) BY <1>15, <2>1 DEF Taken, Posted
  <2>4. QED BY <1>2, <2>2, <2>3
<1>16. CASE onDeleteProtocolEvent
  <2>1. PICK p : p = Head(events).arg OBVIOUS
  <2>2. Takes(Del(p), DelSet(StopAfter(p))) BY <1>16, <2>1, QueueDelete
  <2>3. Taken(Del(p)) /\ \A e \in DelSet(StopAfter(p)) : Posted(e) BY <1>16, <2>1 DEF Taken, Posted
  <2>4. QED BY <1>2, <2>2, <2>3
<1>17. CASE onPrepareShutdown
  <2>1. Takes(PrepareShutdown, DelSet(Instances \ {Local}) \union OtherEvents)
    BY <1>17, QueuePrepareShutdown
  <2>2. Taken(PrepareShutdown) BY <1>17 DEF Taken
  <2>3. \A e \in DelSet(Instances \ {Local}) \union OtherEvents : Posted(e) BY <1>17 DEF Posted
  <2>4. QED BY <1>2, <2>1, <2>2, <2>3
<1>18. CASE onShutdown
  <2>1. Adds(DelSet({Local})) BY <1>18, QueueShutdown
  <2>2. \A e \in DelSet({Local}) : Posted(e) BY <1>18 DEF Posted, DelSet
  <2>3. QED BY <1>1, <2>1, <2>2
<1>19. QED
  BY <1>3, <1>4, <1>5, <1>6, <1>7, <1>8, <1>9, <1>10, <1>11, <1>12, <1>13, <1>14, <1>15, <1>16,
     <1>17, <1>18
  DEF Next, KernelStep, TimerStep, shutdown, ProtocolTimeout, ApplicationTimeout,
      spawn_connectivity, deRegisterApplication

\* Every step keeps what the managers reported when they said they were ready.
LEMMA ReadyStep == IInv /\ Next => Ready'
<1> SUFFICES ASSUME IInv, Next PROVE Ready' OBVIOUS
<1>0. TypeOK /\ InStep /\ StartsOnce /\ StopsOnce /\ Ready BY DEF IInv
<1>00. PM \notin {AM, CM, FM} /\ CM \notin {AM, FM} /\ FM # AM BY DEF PM, AM, CM, FM
<1>1. ~Down' => ready' = {} BY NothingReadyStep
<1>2. ASSUME onPrepareShutdown
      PROVE  /\ ~Down /\ ready = {}
             /\ PM \in ready' => NonApplicationReady(protocols)
             /\ CM \in ready' => \A c \in Connectivities : ~Live(c)
             /\ FM \in ready' => module # "running"
  <2>1. Queued(PrepareShutdown) BY <1>0, <1>2, QueuePrepareShutdown DEF Takes
  <2>2. ~Down /\ ready = {} BY <1>0, <2>1 DEF StopsOnce
  <2>3. PM \notin Plain /\ CM \notin Plain /\ FM \notin Plain OBVIOUS
  <2>4. ready' = ready \union (Plain \union (IF NonApplicationReady(protocols) THEN {PM} ELSE {})
                \union (IF \E c \in Connectivities : Live(c) THEN {} ELSE {CM})
                \union (IF module = "running" THEN {} ELSE {FM})
                \union (IF apps = {} /\ pendingDOs = {} THEN {AM} ELSE {}))
    BY <1>2 DEF onPrepareShutdown, signalIsReadyForShutdown
  <2>5. QED BY <1>00, <2>2, <2>3, <2>4
<1>3. PM \in ready' => forced' = TRUE \/ protocols' \subseteq {Local}
  <2> SUFFICES ASSUME PM \in ready' PROVE forced' = TRUE \/ protocols' \subseteq {Local} OBVIOUS
  <2>1. Down' BY <1>1
  <2>2. CASE onPrepareShutdown
    BY <1>2, <2>2 DEF onPrepareShutdown, NonApplicationReady
  <2>3. CASE Down /\ onDeleteProtocolEvent
    <3>1. PM \in ready \/ protocols' \ {Local} = {}
      BY <2>3 DEF onDeleteProtocolEvent, signalIsReadyForShutdown, NonApplicationReady
    <3>2. protocols' \subseteq protocols /\ forced' = forced BY <2>3 DEF onDeleteProtocolEvent
    <3>3. QED BY <1>0, <3>1, <3>2 DEF Ready
  <2>4. CASE Down /\ ProtocolTimeout
    <3>1. PM \in ready \/ forced' = TRUE
      BY <2>4 DEF ProtocolTimeout, signalIsReadyForShutdown
    <3>2. protocols' = protocols /\ (forced = TRUE => forced' = TRUE)
      BY <2>4 DEF ProtocolTimeout, instances
    <3>3. QED BY <1>0, <3>1, <3>2 DEF Ready
  <2>5. CASE Down /\ ~onPrepareShutdown /\ ~onDeleteProtocolEvent /\ ~ProtocolTimeout
    <3>1. PM \in ready /\ forced' = forced BY <1>0, <2>5, WhoSignals, OtherFrame
    <3>2. protocols' \subseteq protocols
      <4>1. registerProtocol => protocols' = protocols
        BY <2>5 DEF registerProtocol, Down, Phase
      <4>2. onShutdown => protocols' \subseteq protocols BY DEF onShutdown
      <4>3. QED BY <1>0, <2>5, <4>1, <4>2, OtherFrame
    <3>3. QED BY <1>0, <3>1, <3>2 DEF Ready
  <2>6. QED BY <2>1, <2>2, <2>3, <2>4, <2>5, DownStep
<1>4. CM \in ready' => \A c \in Connectivities : ~Live(c)'
  <2> SUFFICES ASSUME CM \in ready', NEW c \in Connectivities PROVE ~Live(c)' OBVIOUS
  <2>1. Down' BY <1>1
  <2>2. CASE onPrepareShutdown
    BY <1>2, <2>2 DEF onPrepareShutdown, Live
  <2>3. CASE Down /\ onDeleteConnectivity
    <3> DEFINE d == Head(events).arg
    <3>1. d \in Connectivities BY <1>0, <2>3, HeadKinds DEF onDeleteConnectivity, Handle
    <3>2. conn' = [conn EXCEPT ![d] = "deleted"] BY <2>3 DEF onDeleteConnectivity
    <3>3. CM \in ready \/ \A e \in Connectivities \ {d} : ~Live(e)
      BY <2>3 DEF onDeleteConnectivity, signalIsReadyForShutdown
    <3> HIDE DEF d
    <3>4. c # d => ~Live(c) BY <1>0, <3>3 DEF Ready
    <3>5. conn' \in [Connectivities -> {None, "running", "cancelled", "ended", "deleted"}]
      BY <1>0, TypeStep DEF TypeOK, Values
    <3>6. QED BY <1>0, <3>1, <3>2, <3>4, <3>5 DEF Live, TypeOK, Values
  <2>4. CASE Down /\ ~onPrepareShutdown /\ ~onDeleteConnectivity
    <3>1. CM \in ready BY <1>0, <2>4, WhoSignals
    <3>2. \A e \in Connectivities : ~Live(e) BY <1>0, <3>1 DEF Ready
    <3>3. ~onStartup
      <4>1. onStartup => Queued(Startup) BY <1>0, QueueTakesOnly DEF Takes
      <4>2. QED BY <1>0, <2>4, <4>1 DEF StartsOnce, Down
    <3>4. \A e \in Spawned : ~spawn_connectivity(e)
      BY <1>0, <2>4 DEF spawn_connectivity, StopsOnce
    <3>5. \A e \in Connectivities : ~ConnectivityEnds(e) BY <3>2 DEF ConnectivityEnds, Live
    <3>6. conn' = conn BY <1>0, <2>4, <3>3, <3>4, <3>5, OtherFrame
    <3>7. QED BY <3>2, <3>6 DEF Live
  <2>5. QED BY <2>1, <2>2, <2>3, <2>4, DownStep
<1>5. module' \in {"quitting", "gone"} => Down'
  <2>1. CASE onInitPunt BY <2>1 DEF onInitPunt
  <2>2. CASE ModuleQuits
    <3>1. module = "quitting" BY <2>2 DEF ModuleQuits
    <3>2. QED BY <1>0, <3>1, DownStep DEF Ready
  <2>3. CASE onPrepareShutdown
    <3>1. Phase' = "prepare shutdown" BY <2>3 DEF onPrepareShutdown, Phase, Managers
    <3>2. QED BY <3>1 DEF Down
  <2>4. CASE UNCHANGED module BY <1>0, <2>4, DownStep DEF Ready
  <2>5. QED BY <1>0, <2>1, <2>2, <2>3, <2>4, PhaseFrame
<1>6. FM \in ready' => module' \notin {"running", "quitting"}
  <2> SUFFICES ASSUME FM \in ready' PROVE module' \notin {"running", "quitting"} OBVIOUS
  <2>1. Down' BY <1>1
  <2>2. CASE onPrepareShutdown
    <3>1. module # "running" /\ ~Down BY <1>2, <2>2
    <3>2. module' = module BY <2>2, <3>1 DEF onPrepareShutdown
    <3>3. QED BY <1>0, <3>1, <3>2 DEF Ready
  <2>3. CASE Down /\ onForwardingTaskComplete
    <3>1. Queued(Quit) BY <1>0, <2>3, QueueTakesOnly DEF Takes
    <3>2. module' = module BY <2>3 DEF onForwardingTaskComplete
    <3>3. QED BY <1>0, <3>1, <3>2 DEF Ready
  <2>4. CASE Down /\ ~onPrepareShutdown /\ ~onForwardingTaskComplete
    <3>1. FM \in ready BY <1>0, <2>4, WhoSignals
    <3>2. ~onInitPunt
      <4>1. onInitPunt => FM \notin prepared BY DEF onInitPunt
      <4>2. QED BY <1>0, <2>4, <4>1 DEF StartsOnce, Down
    <3>3. ~ModuleQuits BY <1>0, <3>1 DEF ModuleQuits, Ready
    <3>4. module' = module BY <1>0, <2>4, <3>2, <3>3, PhaseFrame
    <3>5. QED BY <1>0, <3>1, <3>4 DEF Ready
  <2>5. QED BY <2>1, <2>2, <2>3, <2>4, DownStep
<1>7. Queued(Quit)' => module' = "gone"
  <2> SUFFICES ASSUME Queued(Quit)' PROVE module' = "gone" OBVIOUS
  <2>1. Queued(Quit) \/ Posted(Quit) BY <1>0, QueueStep
  <2>2. Quit \notin OtherEvents /\ Quit \notin {PrepareShutdown, Startup, StoreFinished}
        /\ \A p : Quit # Add(p) /\ Quit # Del(p)
    BY Different
  <2>3. Queued(Quit) \/ ModuleQuits BY <2>1, <2>2 DEF Posted, LatePost, DelSet
  <2>4. CASE ModuleQuits BY <2>4 DEF ModuleQuits
  <2>5. CASE Queued(Quit)
    <3>1. module = "gone" BY <1>0, <2>5 DEF Ready
    <3>2. ~onInitPunt
      <4>1. onInitPunt => FM \notin prepared BY DEF onInitPunt
      <4>2. QED BY <1>0, <3>1, <4>1 DEF StartsOnce
    <3>3. ~ModuleQuits BY <3>1 DEF ModuleQuits
    <3>4. onPrepareShutdown => module' = module BY <3>1 DEF onPrepareShutdown
    <3>5. QED BY <1>0, <3>1, <3>2, <3>3, <3>4, PhaseFrame
  <2>6. QED BY <2>3, <2>4, <2>5
<1>8. QED BY <1>3, <1>4, <1>5, <1>6, <1>7 DEF Ready

\* Phases follow each other, and the last one is entered from the last but one.
LEMMA PhaseStep ==
    ASSUME IInv, Next
    PROVE  /\ \/ onPrepareStartup /\ Phase = "stopped" /\ Phase' = "prepare startup"
              \/ onStartup /\ Phase = "prepare startup" /\ Phase' = "running"
              \/ onPrepareShutdown /\ ~Down /\ Phase # "stopped" /\ Phase' = "prepare shutdown"
              \/ onShutdown /\ Down /\ Phase' = "shutdown"
              \/ ~onShutdown /\ Phase' = Phase
           /\ onShutdown => Phase' = "shutdown"
<1>0. TypeOK /\ InStep /\ StartsOnce /\ StopsOnce /\ PM \in Managers BY DEF IInv, Managers
<1>6. onShutdown => Phase' = "shutdown"
  BY <1>0 DEF onShutdown, InLoop, InStep, Phase
<1>1. CASE onPrepareStartup
  <2>1. Queued(PrepareStartup) BY <1>0, <1>1, QueueTakesOnly DEF Takes
  <2>2. QED BY <1>0, <1>1, <1>6, <2>1 DEF StartsOnce, onPrepareStartup, Phase
<1>2. CASE onStartup
  <2>1. Queued(Startup) BY <1>0, <1>2, QueueTakesOnly DEF Takes
  <2>2. QED BY <1>0, <1>2, <1>6, <2>1 DEF StartsOnce, onStartup, Phase
<1>3. CASE onPrepareShutdown
  <2>1. Queued(PrepareShutdown) BY <1>0, <1>3, QueuePrepareShutdown DEF Takes
  <2>2. ~Down /\ shutdownCalled = TRUE BY <1>0, <2>1 DEF StopsOnce
  <2>3. FM \in prepared BY <1>0, <2>2 DEF StartsOnce
  <2>4. Phase # "stopped" BY <1>0, <2>3 DEF StartsOnce
  <2>5. Phase' = "prepare shutdown" BY <1>0, <1>3 DEF onPrepareShutdown, Phase
  <2>6. QED BY <1>3, <1>6, <2>2, <2>4, <2>5
<1>4. CASE onShutdown
  <2>1. shutdownEvent /\ Phase' = "shutdown" BY <1>0, <1>4, <1>6 DEF onShutdown
  <2>2. Down BY <1>0, <2>1 DEF StopsOnce
  <2>3. QED BY <1>4, <2>1, <2>2
<1>5. CASE ~onShutdown /\ UNCHANGED state BY <1>5 DEF Phase
<1>7. QED BY <1>0, <1>1, <1>2, <1>3, <1>4, <1>5, PhaseFrame

\* Every step keeps the applications' protocol until its deletion is handled.
LEMMA LocalThereStep == IInv /\ Next => LocalThere'
<1> SUFFICES ASSUME IInv, Next PROVE LocalThere' OBVIOUS
<1>0. TypeOK /\ InStep /\ StartsOnce /\ StopsOnce /\ LocalThere /\ Threads BY DEF IInv
<1>00. /\ Local \in Instances /\ Local \notin Clients /\ Local \notin Servers
       /\ \A p : Add(p) # Del(Local) /\ (Del(p) = Del(Local) => p = Local)
       /\ \A p : (Add(p) = Add(Local) => p = Local) /\ Del(p) # Add(Local)
  BY Different DEF Instances
<1>01. worker \in [Instances -> WorkerStates] BY <1>0 DEF TypeOK, Values
<1>1. ~Posted(Add(Local))
  <2>1. Posted(Add(Local)) => MakeInstance(Local)
    BY <1>00, Different DEF Posted, LatePost, DelSet
  <2>2. ~MakeInstance(Local) BY <1>00 DEF MakeInstance
  <2>3. QED BY <2>1, <2>2
<1>2. Queued(Add(Local))' => Phase' = "stopped" /\ Queued(Add(Local))
  <2> SUFFICES ASSUME Queued(Add(Local))' PROVE Phase' = "stopped" /\ Queued(Add(Local)) OBVIOUS
  <2>1. Queued(Add(Local)) BY <1>0, <1>1, QueueStep
  <2>3. Phase = "stopped" BY <1>0, <2>1 DEF LocalThere
  <2>4. ~onPrepareStartup
    <3> SUFFICES ASSUME onPrepareStartup PROVE FALSE OBVIOUS
    <3>1. Takes(PrepareStartup, {}) BY <1>0, QueueTakesOnly
    <3>2. QED BY <1>0, <3>1 DEF Takes, LocalThere
  <2>5. Phase' = Phase BY <2>3, <2>4, PhaseStep DEF Down
  <2>6. QED BY <2>1, <2>3, <2>5
<1>3. Ordered(Add(Local), PrepareStartup)'
  BY <1>0, <1>1, QueueStep DEF LocalThere
<1>4. Local \in protocols => Local \in protocols' \/ (onDeleteProtocolEvent /\ Queued(Del(Local)) /\ registry' = {})
  <2> SUFFICES ASSUME Local \in protocols, Local \notin protocols'
               PROVE  onDeleteProtocolEvent /\ Queued(Del(Local)) /\ registry' = {}
      OBVIOUS
  <2>1. ~registerProtocol BY DEF registerProtocol
  <2>2. ~onShutdown BY DEF onShutdown
  <2>3. onDeleteProtocolEvent BY <1>0, <2>1, <2>2, OtherFrame
  <2>4. PICK p : p = Head(events).arg OBVIOUS
  <2>5. Takes(Del(p), DelSet(StopAfter(p))) BY <1>0, <2>3, <2>4, QueueDelete
  <2>6. protocols' = protocols \ {p} BY <2>3, <2>4 DEF onDeleteProtocolEvent
  <2>7. p = Local BY <2>6
  <2>8. Queued(Del(Local)) BY <2>5, <2>7 DEF Takes
  <2>9. Phase = "shutdown" BY <1>0, <2>8 DEF LocalThere
  <2>10. registry' = registry \ {PM}
    BY <2>3, <2>4, <2>7, <2>9 DEF onDeleteProtocolEvent, Phase
  <2>11. registry \in {{PM}, {}} BY <1>0, <2>9 DEF InStep
  <2>12. QED BY <2>3, <2>8, <2>10, <2>11
<1>5. Phase' = "stopped" => Local \in protocols' \/ Queued(Add(Local))'
  <2> SUFFICES ASSUME Phase' = "stopped" PROVE Local \in protocols' \/ Queued(Add(Local))' OBVIOUS
  <2>1. Phase = "stopped" BY PhaseStep
  <2>2. CASE Local \in protocols
    <3>1. ~Queued(Del(Local)) BY <1>0, <2>1 DEF LocalThere
    <3>2. QED BY <1>4, <2>2, <3>1
  <2>3. CASE Queued(Add(Local)) /\ ~Queued(Add(Local))'
    <3>1. Taken(Add(Local)) BY <1>0, <2>3, QueueStep
    <3>2. registerProtocol /\ Add(Local) = Add(Head(events).arg)
      BY <1>00, <3>1, Different DEF Taken
    <3>3. Local = Head(events).arg BY <3>2, Different
    <3>4. worker[Local] = "idle" BY <1>0, <2>1 DEF LocalThere
    <3>5. QED BY <2>1, <3>2, <3>3, <3>4 DEF registerProtocol, isDone, Phase
  <2>4. QED BY <1>0, <2>1, <2>2, <2>3 DEF LocalThere
<1>6. Phase' # "stopped" /\ registry' # {} => Local \in protocols'
  <2> SUFFICES ASSUME Phase' # "stopped", registry' # {} PROVE Local \in protocols' OBVIOUS
  <2>1. registry # {}
    <3>1. registry' \subseteq registry
      <4>1. onDeleteProtocolEvent => registry' \subseteq registry BY DEF onDeleteProtocolEvent
      <4>2. onShutdown => registry' \subseteq registry BY DEF onShutdown
      <4>3. QED BY <1>0, <4>1, <4>2, OtherFrame
    <3>2. QED BY <3>1
  <2>2. Local \in protocols
    <3>1. CASE Phase # "stopped" BY <1>0, <2>1, <3>1 DEF LocalThere
    <3>2. CASE Phase = "stopped"
      <4>1. onPrepareStartup BY <3>2, PhaseStep DEF Down
      <4>2. Takes(PrepareStartup, {}) BY <1>0, <4>1, QueueTakesOnly
      <4>3. ~Queued(Add(Local))' BY <1>0, <4>2 DEF Takes, LocalThere
      <4>4. Add(Local) # PrepareStartup BY Different
      <4>5. ~Queued(Add(Local)) BY <4>2, <4>3, <4>4 DEF Takes
      <4>6. QED BY <1>0, <3>2, <4>5 DEF LocalThere
    <3>3. QED BY <3>1, <3>2
  <2>3. QED BY <1>4, <2>2
<1>7. Phase' # "shutdown" => ~Queued(Del(Local))'
  <2> SUFFICES ASSUME Phase' # "shutdown", Queued(Del(Local))' PROVE FALSE OBVIOUS
  <2>1. Phase # "shutdown" /\ ~onShutdown BY PhaseStep DEF Down
  <2>2. ~Queued(Del(Local)) /\ worker[Local] = "idle" BY <1>0, <2>1 DEF LocalThere
  <2>3. Posted(Del(Local)) BY <1>0, <2>2, QueueStep
  <2>4. ~WorkerEnds(Local) BY <2>2 DEF WorkerEnds
  <2>5. ~(onPrepareShutdown /\ Del(Local) \in DelSet(Instances \ {Local})) BY <1>00 DEF DelSet
  <2>6. ~(onDeleteProtocolEvent /\ Del(Local) \in DelSet(StopAfter(Head(events).arg)))
    <3>1. Local \notin StopAfter(Head(events).arg) BY <2>1 DEF StopAfter, ToldToStop
    <3>2. QED BY <1>00, <3>1 DEF DelSet
  <2>7. ~(registerProtocol /\ Del(Local) \in LatePost(Head(events).arg))
    <3> SUFFICES ASSUME registerProtocol, Del(Local) \in LatePost(Head(events).arg) PROVE FALSE
        OBVIOUS
    <3>1. Down /\ Del(Local) = Del(Head(events).arg) BY DEF LatePost
    <3>2. PICK p : p = Head(events).arg OBVIOUS
    <3>3. p = Local BY <1>00, <3>1, <3>2
    <3>4. Queued(Add(Local)) BY <1>0, <3>2, <3>3, QueueRegister DEF Takes
    <3>5. QED BY <1>0, <3>1, <3>4 DEF LocalThere, Down
  <2>8. QED BY <1>00, <2>1, <2>3, <2>4, <2>5, <2>6, <2>7, Different DEF Posted
<1>8. Phase' # "shutdown" => worker'[Local] = "idle"
  <2> SUFFICES ASSUME Phase' # "shutdown" PROVE worker'[Local] = "idle" OBVIOUS
  <2>1. Phase # "shutdown" /\ ~onShutdown BY PhaseStep DEF Down
  <2>2. ~Queued(Del(Local)) /\ worker[Local] = "idle" BY <1>0, <2>1 DEF LocalThere
  <2>3. CASE registerProtocol
    <3>1. PICK p : p = Head(events).arg OBVIOUS
    <3>2. Takes(Add(p), LatePost(p)) BY <1>0, <2>3, <3>1, QueueRegister
    <3>3. p = Local => ~Down BY <1>0, <3>2 DEF Takes, LocalThere, Down
    <3>4. worker' = IF Down THEN Stopped(worker, {p}) ELSE worker
      BY <2>3, <3>1 DEF registerProtocol, Down, Phase
    <3>5. QED BY <1>00, <1>01, <2>2, <3>3, <3>4, StoppedEffect
  <2>4. CASE onDeleteProtocolEvent
    <3>1. PICK p : p = Head(events).arg OBVIOUS
    <3>2. Takes(Del(p), DelSet(StopAfter(p))) /\ p \in Instances BY <1>0, <2>4, <3>1, QueueDelete
    <3>3. p # Local BY <2>2, <3>2 DEF Takes
    <3> DEFINE w == [worker EXCEPT ![p] = "deleted"]
    <3>4. worker' = Stopped(w, StopAfter(p))
      BY <2>4, <3>1 DEF onDeleteProtocolEvent, StopAfter, Phase
    <3>5. w \in [Instances -> WorkerStates] /\ w[Local] = "idle"
      BY <1>00, <1>01, <2>2, <3>3 DEF WorkerStates
    <3>6. Local \notin StopAfter(p) BY <2>1 DEF StopAfter, ToldToStop
    <3> HIDE DEF w
    <3>7. QED BY <1>00, <3>4, <3>5, <3>6, StoppedEffect
  <2>5. CASE onPrepareShutdown
    <3>1. worker' = Stopped(worker, ToldToStop(protocols, worker)) BY <2>5 DEF onPrepareShutdown
    <3>2. Local \notin ToldToStop(protocols, worker) BY DEF ToldToStop
    <3>3. QED BY <1>00, <1>01, <2>2, <3>1, <3>2, StoppedEffect
  <2>6. ASSUME NEW p \in Instances, MakeInstance(p) \/ WorkerEnds(p) PROVE worker'[Local] = "idle"
    <3>1. p # Local BY <1>00, <2>2, <2>6 DEF MakeInstance, WorkerEnds
    <3>2. \E x : worker' = [worker EXCEPT ![p] = x] BY <2>6 DEF MakeInstance, WorkerEnds
    <3>3. QED BY <1>00, <1>01, <2>2, <3>1, <3>2
  <2>7. CASE UNCHANGED <<worker, joining>> BY <2>2, <2>7
  <2>8. QED BY <1>0, <2>1, <2>3, <2>4, <2>5, <2>6, <2>7, OtherFrame
<1>9. Phase' = "shutdown" => protocols' \subseteq {Local}
  <2> SUFFICES ASSUME Phase' = "shutdown" PROVE protocols' \subseteq {Local} OBVIOUS
  <2>1. CASE onShutdown
    <3>1. PM \in registry BY <1>0, <2>1, LoopFacts DEF onShutdown
    <3>2. QED BY <2>1, <3>1 DEF onShutdown
  <2>2. CASE ~onShutdown
    <3>1. Phase = "shutdown" /\ Down BY <2>2, PhaseStep DEF Down
    <3>2. registerProtocol => protocols' = protocols BY <3>1 DEF registerProtocol, Phase
    <3>3. onDeleteProtocolEvent => protocols' \subseteq protocols BY DEF onDeleteProtocolEvent
    <3>4. QED BY <1>0, <2>2, <3>1, <3>2, <3>3, OtherFrame DEF LocalThere
  <2>3. QED BY <2>1, <2>2
<1>10. QED BY <1>2, <1>3, <1>5, <1>6, <1>7, <1>8, <1>9 DEF LocalThere

\* How one action moves the worker of an instance; the kernel thread waits for a worker
\* only when it registers a late instance.
LEMMA WorkerStep ==
    ASSUME IInv, Next, NEW q \in Instances
    PROVE  /\ worker'[q] = "running" =>
                \/ worker[q] = "running"
                \/ MakeInstance(q) /\ q \in Clients
           /\ worker'[q] = "cancelled" =>
                \/ worker[q] = "cancelled"
                \/ worker[q] = "running" /\ q \in protocols /\ q \in protocols'
                \/ worker[q] = "running" /\ registerProtocol /\ joining' = q
           /\ worker'[q] = "detached" => worker[q] \in {"detached", "running", "cancelled"}
           /\ joining = q /\ worker'[q] = "cancelled" => joining' = q
<1>0. TypeOK /\ InStep /\ StopsOnce /\ LocalThere /\ None \notin Instances
  BY DEF IInv, Instances, Local, None
<1>1. worker \in [Instances -> WorkerStates] BY <1>0 DEF TypeOK, Values
<1>2. CASE registerProtocol
  <2>1. PICK p : p = Head(events).arg OBVIOUS
  <2>2. worker' = IF Down THEN Stopped(worker, {p}) ELSE worker
    BY <1>2, <2>1 DEF registerProtocol, Down, Phase
  <2>3. joining' = IF Down /\ worker[p] = "running" THEN p ELSE joining
    BY <1>2, <2>1 DEF registerProtocol, Down, Phase
  <2>4. joining = None BY <1>2 DEF registerProtocol, Handle, InLoop
  <2>5. CASE q = p /\ Down BY <1>0, <1>1, <1>2, <2>2, <2>3, <2>4, <2>5, StoppedEffect DEF WorkerStates, None
  <2>6. CASE q # p \/ ~Down
    <3>1. worker'[q] = worker[q] BY <1>1, <2>2, <2>6, StoppedEffect
    <3>2. QED BY <1>0, <2>4, <3>1
  <2>7. QED BY <2>5, <2>6
<1>3. CASE onDeleteProtocolEvent
  <2>1. PICK p : p = Head(events).arg OBVIOUS
  <2>2. p \in Instances BY <1>0, <1>3, <2>1, QueueDelete
  <2> DEFINE w == [worker EXCEPT ![p] = "deleted"]
  <2>3. worker' = Stopped(w, StopAfter(p)) /\ protocols' = protocols \ {p}
    BY <1>3, <2>1 DEF onDeleteProtocolEvent, StopAfter, Phase
  <2>4. w \in [Instances -> WorkerStates] /\ w[p] = "deleted" /\ (q # p => w[q] = worker[q])
    BY <1>1, <2>2 DEF WorkerStates
  <2>5. StopAfter(p) \subseteq protocols \ {p} BY DEF StopAfter, ToldToStop, Idle
  <2>6. joining = None BY <1>3 DEF onDeleteProtocolEvent, Handle, InLoop
  <2> HIDE DEF w
  <2>7. CASE q = p
    <3>1. worker'[q] = "deleted" BY <2>3, <2>4, <2>7, StoppedEffect
    <3>2. QED BY <3>1
  <2>8. CASE q # p /\ q \notin StopAfter(p)
    <3>1. worker'[q] = worker[q] BY <2>3, <2>4, <2>8, StoppedEffect
    <3>2. QED BY <1>0, <2>6, <3>1
  <2>9. CASE q # p /\ q \in StopAfter(p)
    <3>1. q \in protocols /\ q \in protocols' BY <2>3, <2>5, <2>9
    <3>2. worker'[q] \in {"cancelled", "ended"} \/ worker'[q] = worker[q] BY <2>3, <2>4, <2>9, StoppedEffect
    <3>3. worker'[q] = "cancelled" => worker[q] \in {"cancelled", "running"}
      BY <2>3, <2>4, <2>9, StoppedEffect DEF WorkerStates
    <3>4. QED BY <1>0, <2>6, <3>1, <3>2, <3>3
  <2>10. QED BY <2>7, <2>8, <2>9
<1>4. CASE onPrepareShutdown
  <2> DEFINE P == ToldToStop(protocols, worker)
  <2>1. worker' = Stopped(worker, P) /\ UNCHANGED <<protocols, joining>> BY <1>4 DEF onPrepareShutdown
  <2>2. P \subseteq protocols BY DEF ToldToStop
  <2> HIDE DEF P
  <2>3. CASE q \notin P
    <3>1. worker'[q] = worker[q] BY <1>1, <2>1, <2>3, StoppedEffect
    <3>2. QED BY <2>1, <3>1
  <2>4. CASE q \in P
    <3>1. worker'[q] \in {"cancelled", "ended"} \/ worker'[q] = worker[q] BY <1>1, <2>1, <2>4, StoppedEffect
    <3>2. worker'[q] = "cancelled" => worker[q] \in {"cancelled", "running"}
      BY <1>1, <2>1, <2>4, StoppedEffect DEF WorkerStates
    <3>3. QED BY <2>1, <2>2, <2>4, <3>1, <3>2
  <2>5. QED BY <2>3, <2>4
<1>5. CASE onShutdown
  <2> DEFINE w == Abandoned(worker, protocols)
             P == protocols \intersect {Local}
  <2>1. PM \in registry /\ joining = None BY <1>0, <1>5, LoopFacts DEF onShutdown
  <2>2. worker' = Stopped(w, P) BY <1>5, <2>1 DEF onShutdown
  <2>3. /\ w \in [Instances -> WorkerStates]
        /\ q \notin protocols \ {Local} => w[q] = worker[q]
        /\ q \in protocols \ {Local} => w[q] \in {"detached", "deleted"}
        /\ w[q] = "detached" => worker[q] \in {"detached", "running", "cancelled"}
    BY <1>1, AbandonedEffect
  <2>4. P = protocols' /\ P \subseteq protocols BY <1>5, <2>1 DEF onShutdown
  <2> HIDE DEF w, P
  <2>5. CASE q \notin P
    <3>1. worker'[q] = w[q] BY <2>2, <2>3, <2>5, StoppedEffect
    <3>2. QED BY <1>0, <2>1, <2>3, <3>1
  <2>6. CASE q \in P
    <3>1. worker'[q] \in {"cancelled", "ended"} \/ worker'[q] = w[q] BY <2>2, <2>3, <2>6, StoppedEffect
    <3>2. worker'[q] = "cancelled" => w[q] \in {"cancelled", "running"}
      BY <2>2, <2>3, <2>6, StoppedEffect DEF WorkerStates
    <3>3. worker'[q] = "running" => FALSE
      BY <2>2, <2>3, <2>6, StoppedEffect DEF WorkerStates
    <3>4. q = Local BY <2>6 DEF P
    <3>5. w[q] = worker[q] BY <2>3, <3>4
    <3>6. QED BY <1>0, <2>1, <2>4, <2>6, <3>1, <3>2, <3>3, <3>5
  <2>7. QED BY <2>5, <2>6
<1>6. ASSUME NEW p \in Instances, MakeInstance(p)
      PROVE  /\ worker'[q] = worker[q] \/ (q = p /\ worker'[q] = "idle")
                \/ (q = p /\ q \in Clients /\ worker'[q] = "running")
             /\ joining' = joining
  BY <1>1, <1>6 DEF MakeInstance
<1>7. CASE \E p \in Instances : MakeInstance(p) BY <1>0, <1>6, <1>7
<1>8. ASSUME NEW p \in Instances, WorkerEnds(p)
      PROVE  \/ q # p /\ worker'[q] = worker[q] /\ (joining = q => joining' = q)
             \/ worker'[q] \in {"ended", "deleted"}
  BY <1>1, <1>8 DEF WorkerEnds
<1>9. CASE \E p \in Instances : WorkerEnds(p) BY <1>8, <1>9
<1>10. CASE UNCHANGED <<worker, joining>> BY <1>10
<1>11. QED BY <1>0, <1>2, <1>3, <1>4, <1>5, <1>7, <1>9, <1>10, OtherFrame

\* Every step keeps the owner of every thread known to the protocol manager.
LEMMA ThreadsStep == IInv /\ Next => Threads'
<1> SUFFICES ASSUME IInv, Next PROVE Threads' OBVIOUS
<1>0. TypeOK /\ InStep /\ StopsOnce /\ LocalThere /\ Threads BY DEF IInv
<1>00. /\ Clients \subseteq Instances /\ Local \notin Clients /\ None \notin Clients
       /\ \A p, q : Add(p) # Del(q) /\ (Add(p) = Add(q) => p = q)
  BY Different DEF Instances
<1>1. \A p \in Instances : worker'[p] \in {"running", "cancelled", "detached"} => p \in Clients
  BY <1>0, WorkerStep DEF Threads
<1>2. ASSUME NEW p \in Clients, p \in protocols, p \notin protocols'
      PROVE  worker'[p] \notin {"running", "cancelled"}
  <2>0. p \in Instances /\ worker \in [Instances -> WorkerStates] BY <1>0, <1>00 DEF TypeOK, Values
  <2>1. ~registerProtocol BY <1>2 DEF registerProtocol
  <2>2. CASE onDeleteProtocolEvent
    <3>1. PICK d : d = Head(events).arg OBVIOUS
    <3>2. protocols' = protocols \ {d} /\ worker' = Stopped([worker EXCEPT ![d] = "deleted"], StopAfter(d))
      BY <2>2, <3>1 DEF onDeleteProtocolEvent, StopAfter, Phase
    <3>3. d = p BY <1>2, <3>2
    <3> DEFINE w == [worker EXCEPT ![d] = "deleted"]
    <3>4. w \in [Instances -> WorkerStates] /\ w[p] = "deleted" BY <2>0, <3>3 DEF WorkerStates
    <3> HIDE DEF w
    <3>5. worker' = Stopped(w, StopAfter(d)) BY <3>2 DEF w
    <3>6. worker'[p] = "deleted" BY <2>0, <3>4, <3>5, StoppedEffect
    <3>7. QED BY <3>6
  <2>3. CASE onShutdown
    <3> DEFINE w == Abandoned(worker, protocols)
    <3>1. PM \in registry BY <1>0, <2>3, LoopFacts DEF onShutdown
    <3>2. worker' = Stopped(w, protocols \intersect {Local}) BY <2>3, <3>1 DEF onShutdown
    <3>3. w \in [Instances -> WorkerStates] /\ w[p] \in {"detached", "deleted"}
      BY <1>00, <1>2, <2>0, AbandonedEffect
    <3> HIDE DEF w
    <3>4. worker'[p] = w[p] BY <2>0, <3>2, <3>3, StoppedEffect
    <3>5. QED BY <3>3, <3>4
  <2>4. QED BY <1>0, <1>2, <2>1, <2>2, <2>3, OtherFrame
<1>3. ASSUME NEW p \in Clients, worker'[p] = "running" PROVE p \in protocols' \/ Queued(Add(p))'
  <2>0. p \in Instances BY <1>00
  <2>1. CASE MakeInstance(p) BY <1>0, <2>0, <2>1, QueuePosts DEF Posts
  <2>2. CASE worker[p] = "running" /\ p \in protocols BY <1>2, <1>3, <2>2
  <2>3. CASE worker[p] = "running" /\ Queued(Add(p)) /\ ~Queued(Add(p))'
    <3>1. Taken(Add(p)) BY <1>0, <2>3, QueueStep
    <3>2. registerProtocol /\ Add(p) = Add(Head(events).arg) BY <1>00, <3>1, Different DEF Taken
    <3>3. p = Head(events).arg BY <1>00, <3>2
    <3>4. ~Down
      <4> SUFFICES ASSUME Down PROVE FALSE OBVIOUS
      <4>1. worker' = Stopped(worker, {p}) BY <3>2, <3>3 DEF registerProtocol, Down, Phase
      <4>2. worker'[p] = "cancelled" BY <1>0, <2>0, <2>3, <4>1, StoppedEffect DEF TypeOK, Values
      <4>3. QED BY <1>3, <4>2
    <3>5. protocols' = protocols \union {p}
      BY <2>3, <3>2, <3>3, <3>4 DEF registerProtocol, isDone, Down, Phase
    <3>6. QED BY <3>5
  <2>4. QED BY <1>0, <1>3, <2>0, <2>1, <2>2, <2>3, WorkerStep DEF Threads
<1>4. ASSUME NEW p \in Clients, worker'[p] = "cancelled" PROVE p \in protocols' \/ joining' = p
  <2>0. p \in Instances BY <1>00
  <2>1. CASE worker[p] = "cancelled" BY <1>0, <1>2, <1>4, <2>0, <2>1, WorkerStep DEF Threads
  <2>2. CASE worker[p] # "cancelled" BY <1>4, <2>0, <2>2, WorkerStep
  <2>3. QED BY <2>1, <2>2
<1>5. ASSUME NEW p \in Clients PROVE Ordered(Add(p), Del(Local))'
  <2>0. p \in Instances BY <1>00
  <2>1. Ordered(Add(p), Del(Local))' \/ Posted(Add(p)) BY <1>0, QueueStep DEF Threads
  <2>2. Posted(Add(p)) => MakeInstance(p) BY <1>00, Different DEF Posted, LatePost, DelSet
  <2>3. CASE MakeInstance(p)
    <3>1. p \notin Servers BY <1>5
    <3>2. ~Down BY <2>3, <3>1 DEF MakeInstance, Down, Phase
    <3>3. ~Queued(Del(Local)) BY <1>0, <3>2 DEF LocalThere, Down
    <3>4. Posts(Add(p)) BY <1>0, <2>0, <2>3, QueuePosts
    <3>5. QED BY <1>0, <3>3, <3>4 DEF Posts, Threads
  <2>4. QED BY <2>1, <2>2, <2>3
<1>6. registry' = {} => \A p \in Instances : worker'[p] \notin {"running", "cancelled"}
  <2> SUFFICES ASSUME registry' = {}, NEW p \in Instances, worker'[p] \in {"running", "cancelled"}
               PROVE  FALSE
      OBVIOUS
  <2>0. p \in Clients BY <1>1
  <2>1. ~onShutdown
    <3> SUFFICES ASSUME onShutdown PROVE FALSE OBVIOUS
    <3>1. PM \in registry /\ registry # {} /\ Down
      BY <1>0, LoopFacts DEF onShutdown, InLoop, StopsOnce
    <3>2. Local \in protocols BY <1>0, <3>1 DEF LocalThere, Down
    <3>3. QED BY <3>1, <3>2 DEF onShutdown
  <2>2. CASE registry = {}
    <3>1. ~MakeInstance(p) /\ ~registerProtocol
      BY <2>2 DEF MakeInstance, registerProtocol, Handle, InLoop
    <3>2. worker[p] \in {"running", "cancelled"} BY <3>1, WorkerStep
    <3>3. QED BY <1>0, <2>2, <3>2 DEF Threads
  <2>3. CASE registry # {}
    <3>1. onDeleteProtocolEvent BY <1>0, <2>1, <2>3, OtherFrame
    <3>2. PICK d : d = Head(events).arg OBVIOUS
    <3>3. Phase = "shutdown" /\ Local \notin protocols \ {d}
      BY <2>3, <3>1, <3>2 DEF onDeleteProtocolEvent, Phase
    <3>4. Local \in protocols /\ protocols \subseteq {Local} BY <1>0, <2>3, <3>3 DEF LocalThere
    <3>5. d = Local BY <3>3, <3>4
    <3>6. Takes(Del(Local), DelSet(StopAfter(Local))) BY <1>0, <3>1, <3>2, <3>5, QueueDelete
    <3>7. Add(p) \notin DelSet(StopAfter(Local)) BY <1>00 DEF DelSet
    <3>8. ~Queued(Add(p)) BY <1>0, <1>00, <2>0, <3>6, <3>7 DEF Takes, Threads
    <3>9. p \notin protocols /\ joining = None
      BY <1>00, <2>0, <3>1, <3>4 DEF onDeleteProtocolEvent, Handle, InLoop
    <3>10. ~MakeInstance(p)
      BY <2>0, <3>3 DEF MakeInstance, Phase
    <3>11. worker[p] \notin {"running", "cancelled"} BY <1>0, <1>00, <2>0, <3>8, <3>9 DEF Threads
    <3>12. QED BY <3>10, <3>11, WorkerStep
  <2>4. QED BY <2>2, <2>3
<1>7. QED BY <1>1, <1>3, <1>4, <1>5, <1>6 DEF Threads

-----------------------------------------------------------------------------
(* Theorems.                                                               *)

\* The inductive invariant holds at the start,
LEMMA InitIInv == Init => IInv
<1> SUFFICES ASSUME Init PROVE IInv OBVIOUS
<1>1. TypeOK BY InitType
<1>2. events = <<Add(Local), PrepareStartup>> BY DEF Init, Add, PrepareStartup
<1>3. Len(events) = 2 /\ events[1] = Add(Local) /\ events[2] = PrepareStartup BY <1>2
<1>4. \A e : Queued(e) <=> e \in {Add(Local), PrepareStartup}
  <2>1. 1..Len(events) = {1, 2} BY <1>3
  <2>2. QED BY <1>3, <2>1 DEF Queued
<1>5. \A a, b : ~Queued(a) \/ ~Queued(b) => Ordered(a, b) BY DEF Queued, Ordered
<1>6. Ordered(PrepareStartup, PrepareStartup) /\ Ordered(Add(Local), PrepareStartup)
  <2>1. Add(Local) # PrepareStartup BY Different
  <2>2. \A j, k \in 1..Len(events) : events[j] = Add(Local) /\ events[k] = PrepareStartup => j = 1 /\ k = 2
    BY <1>3, <2>1
  <2>3. \A k \in 1..Len(events) : events[k] = PrepareStartup => k = 2 BY <1>3, <2>1
  <2>4. QED BY <2>2, <2>3 DEF Ordered
<1>7. Phase = "stopped" /\ ~Down BY DEF Init, Phase, Down, Managers
<1>8. InStep BY <1>7 DEF Init, InStep, Phase, Managers
<1>9. /\ ~Queued(Startup) /\ ~Queued(PrepareShutdown) /\ ~Queued(StoreFinished) /\ ~Queued(Quit)
      /\ ~Queued(Del(Local))
  BY <1>4, Different
<1>10. StartsOnce BY <1>5, <1>6, <1>7, <1>9 DEF Init, StartsOnce
<1>11. StopsOnce BY <1>5, <1>7, <1>9 DEF Init, StopsOnce
<1>12. Ready BY <1>9 DEF Init, Ready
<1>13. LocalThere BY <1>4, <1>6, <1>7, <1>9 DEF Init, LocalThere, Instances
<1>14. Threads
  <2>1. \A p \in Instances : worker[p] \in {"idle", None} BY DEF Init
  <2>2. \A p \in Clients : Ordered(Add(p), Del(Local)) BY <1>5, <1>9
  <2>3. Clients \subseteq Instances BY DEF Instances
  <2>4. QED BY <2>1, <2>2, <2>3 DEF Init, Threads, None
<1>15. QED BY <1>1, <1>8, <1>10, <1>11, <1>12, <1>13, <1>14 DEF IInv

\* when nothing happens,
LEMMA StutterIInv == IInv /\ UNCHANGED vars => IInv'
<1> SUFFICES ASSUME IInv, UNCHANGED vars PROVE IInv' OBVIOUS
<1> USE DEF vars, kernelFlags, phases, instances, application
<1>1. TypeOK' BY TypeStep DEF IInv
<1>2. Adds({}) BY AddsNothing
<1>3. /\ \A e : Queued(e)' <=> Queued(e)
      /\ \A a, b : Ordered(a, b) => Ordered(a, b)'
  BY <1>2 DEF Adds
<1>4. Phase' = Phase /\ Down' = Down BY DEF Phase, Down
<1>5. InStep' BY <1>4 DEF IInv, InStep
<1>6. StartsOnce' BY <1>3, <1>4 DEF IInv, StartsOnce
<1>7. StopsOnce' BY <1>3, <1>4 DEF IInv, StopsOnce
<1>8. Ready' BY <1>3, <1>4 DEF IInv, Ready, Live
<1>9. LocalThere' BY <1>3, <1>4 DEF IInv, LocalThere
<1>10. Threads' BY <1>3 DEF IInv, Threads
<1>11. QED BY <1>1, <1>5, <1>6, <1>7, <1>8, <1>9, <1>10 DEF IInv

\* and after every step.
LEMMA IInvStep == IInv /\ Next => IInv'
<1>1. IInv /\ Next => TypeOK' BY TypeStep DEF IInv
<1>2. QED
  BY <1>1, InStepStep, StartsOnceStep, StopsOnceStep, ReadyStep, LocalThereStep, ThreadsStep DEF IInv

\* The variables of the kernel and its managers keep their types.
THEOREM TypeCorrect == Spec => []TypeOK
<1>1. Init => TypeOK BY InitType
<1>2. TypeOK /\ [Next]_vars => TypeOK' BY TypeStep
<1>3. QED BY <1>1, <1>2, PTL DEF Spec

\* The managers move through their phases together and once, the protocol of the
\* applications is there until the end, and no thread is forgotten.
THEOREM Inductive == Spec => []IInv
<1>1. Init => IInv BY InitIInv
<1>2. IInv /\ [Next]_vars => IInv' BY StutterIInv, IInvStep
<1>3. QED BY <1>1, <1>2, PTL DEF Spec

\* When run() leaves its loop no thread of a protocol, a connectivity or the forwarding
\* module is left but detached ones, whatever the number of instances and in whatever
\* order they ended, were registered late or were given up.
THEOREM NothingLeft == Spec => []NothingLeftRunning
<1>1. IInv => NothingLeftRunning
  <2> SUFFICES ASSUME IInv, registry = {}
               PROVE  /\ \A p \in Instances : worker[p] \notin {"running", "cancelled"}
                      /\ \A c \in Connectivities : conn[c] \notin {"running", "cancelled"}
                      /\ module \notin {"running", "quitting"}
      BY DEF NothingLeftRunning
  <2>1. \A p \in Instances : worker[p] \notin {"running", "cancelled"} BY DEF IInv, Threads
  <2>2. PM \in Managers /\ CM \in Managers /\ FM \in Managers BY DEF Managers
  <2>3. CM \in ready /\ FM \in ready BY <2>2 DEF IInv, InStep
  <2>4. QED BY <2>1, <2>3 DEF IInv, Ready, Live
<1>2. QED BY <1>1, Inductive, PTL

\* The managers are told to shut down only after the protocol manager and the
\* connectivity manager have nothing left to wait for, or the former gave up.
THEOREM QuietWhenReady == Spec => []ReadyMeansQuiet
<1>1. IInv => ReadyMeansQuiet
  <2> SUFFICES ASSUME IInv, shutdownEvent \/ state[PM] = "shutdown"
               PROVE  /\ forced \/ protocols \subseteq {Local}
                      /\ \A c \in Connectivities : ~Live(c)
      BY DEF ReadyMeansQuiet
  <2>1. PM \in Managers /\ CM \in Managers BY DEF Managers
  <2>2. PM \in ready /\ CM \in ready BY <2>1 DEF IInv, InStep, Phase
  <2>3. QED BY <2>2 DEF IInv, Ready
<1>2. QED BY <1>1, Inductive, PTL

-----------------------------------------------------------------------------
(* What a shutdown still waits for is under way.                           *)

ConnDel(c) == Ev("DELETE_CONNECTIVITY", c)
Verdict(m) == Queued(Ev("SEND", m)) \/ Queued(Ev("RESULT", m))

\* A shutdown that was asked for goes on; it is over when the last instance is gone.
UnderWay ==
    /\ shutdownCalled = TRUE => prepareShutdown = TRUE \/ Queued(PrepareShutdown) \/ Down
    /\ Phase = "shutdown" /\ registry # {} => Queued(Del(Local))
    /\ Phase = "prepare shutdown" => Plain \subseteq ready
    /\ Phase = "prepare shutdown" /\ Managers \subseteq ready => shutdownEvent = TRUE

\* The protocol manager waits for instances that were told to stop.
ProtocolsWait ==
    /\ \A p \in protocols : worker[p] \in {"idle", "running", "cancelled", "ended"}
    /\ \A p \in Instances : worker[p] = "ended" => Queued(Del(p))
    /\ Phase = "prepare shutdown" /\ protocols \subseteq {Local} => PM \in ready
    /\ Phase = "prepare shutdown" =>
         \A p \in protocols \ {Local} :
           p \in Clients \/ protocols \intersect Clients = {} => worker[p] \notin {"idle", "running"}

\* The connectivity manager waits for connectivities that were told to stop.
ConnectivitiesWait ==
    /\ Down => \A c \in Connectivities : conn[c] # "running"
    /\ \A c \in Connectivities : conn[c] = "ended" => Queued(ConnDel(c))
    /\ Phase = "prepare shutdown" /\ (\A c \in Connectivities : ~Live(c)) => CM \in ready

\* The forwarding manager waits for its module.
ModuleWaits == Phase = "prepare shutdown" => FM \in ready \/ module = "quitting" \/ Queued(Quit)

\* The application manager waits for the data store and for the verdicts on what it sent.
ApplicationsWait ==
    /\ \A m \in pendingDOs : m[2] # "update" => Verdict(m)
    /\ ~Down => AM \notin timers
    /\ Phase = "prepare shutdown" =>
         dataStoreFinishedProcessing = TRUE \/ storeAsked = TRUE \/ Queued(StoreFinished)
    /\ Phase = "prepare shutdown" /\ AM \notin ready /\ dataStoreFinishedProcessing = TRUE =>
         pendingDOs # {} \/ \E m \in Messages : m[2] # "update" /\ Verdict(m)
    /\ Phase = "prepare shutdown" /\ AM \in timers /\ dataStoreFinishedProcessing = TRUE =>
         \A m \in pendingDOs : m[2] # "update"

Progress == UnderWay /\ ProtocolsWait /\ ConnectivitiesWait /\ ModuleWaits /\ ApplicationsWait

\* A manager that is ready stays so, and the last one enables the shutdown event.
LEMMA EventStep ==
    ASSUME IInv, Next
    PROVE  /\ ready \subseteq ready'
           /\ \/ ready' = ready /\ shutdownEvent' = shutdownEvent
              \/ shutdownEvent' = TRUE
              \/ ~(registry \subseteq ready')
              \/ onShutdown
<1>1. ASSUME NEW M, signalIsReadyForShutdown(M)
      PROVE  /\ ready \subseteq ready'
             /\ \/ ready' = ready /\ shutdownEvent' = shutdownEvent
                \/ shutdownEvent' = TRUE
                \/ ~(registry \subseteq ready')
  BY <1>1 DEF signalIsReadyForShutdown
<1>2. CASE onDeleteProtocolEvent BY <1>1, <1>2 DEF onDeleteProtocolEvent
<1>3. CASE onDeleteConnectivity BY <1>1, <1>3 DEF onDeleteConnectivity
<1>4. CASE onForwardingTaskComplete BY <1>1, <1>4 DEF onForwardingTaskComplete
<1>5. CASE onSendResult BY <1>1, <1>5 DEF onSendResult
<1>6. CASE onDataStoreFinished BY <1>1, <1>6 DEF onDataStoreFinished
<1>7. CASE onPrepareShutdown BY <1>1, <1>7 DEF onPrepareShutdown
<1>8. CASE ProtocolTimeout BY <1>1, <1>8 DEF ProtocolTimeout
<1>9. CASE ApplicationTimeout
  <2>1. signalIsReadyForShutdown({AM}) \/ signalIsReadyForShutdown({})
    BY <1>9 DEF ApplicationTimeout
  <2>2. QED BY <1>1, <2>1
<1>10. CASE onShutdown BY <1>10 DEF onShutdown
<1>11. CASE UNCHANGED <<ready, shutdownEvent>> BY <1>11
<1>12. TypeOK BY DEF IInv
<1>13. QED BY <1>2, <1>3, <1>4, <1>5, <1>6, <1>7, <1>8, <1>9, <1>10, <1>11, <1>12, PhaseFrame

\* Every step keeps the shutdown that was asked for under way.
LEMMA UnderWayStep == IInv /\ UnderWay /\ Next => UnderWay'
<1> SUFFICES ASSUME IInv, UnderWay, Next PROVE UnderWay' OBVIOUS
<1>0. TypeOK /\ InStep /\ StopsOnce /\ LocalThere BY DEF IInv
<1>00. LocalThere' /\ InStep' /\ TypeOK' BY IInvStep DEF IInv
<1>1. shutdownCalled' = TRUE => prepareShutdown' = TRUE \/ Queued(PrepareShutdown)' \/ Down'
  <2>1. CASE shutdown BY <2>1 DEF shutdown
  <2>2. CASE NoticeShutdown BY <1>0, <2>2, QueuePosts DEF Posts
  <2>3. CASE onPrepareShutdown
    <3>1. Phase' = "prepare shutdown" BY <2>3 DEF onPrepareShutdown, Phase, Managers
    <3>2. QED BY <3>1 DEF Down
  <2>4. CASE ~shutdown /\ ~NoticeShutdown /\ ~onPrepareShutdown
    <3>1. UNCHANGED <<shutdownCalled, prepareShutdown>> BY <1>0, <2>4, PhaseFrame
    <3>2. ~Taken(PrepareShutdown) BY <2>4, Different DEF Taken
    <3>3. Queued(PrepareShutdown) => Queued(PrepareShutdown)' BY <1>0, <3>2, QueueStep
    <3>4. QED BY <3>1, <3>3, DownStep DEF UnderWay
  <2>5. QED BY <2>1, <2>2, <2>3, <2>4
<1>2. registry' \subseteq registry
  <2>1. onDeleteProtocolEvent => registry' \subseteq registry BY DEF onDeleteProtocolEvent
  <2>2. onShutdown => registry' \subseteq registry BY DEF onShutdown
  <2>3. QED BY <1>0, <2>1, <2>2, OtherFrame
<1>3. Phase' = "shutdown" /\ registry' # {} => Queued(Del(Local))'
  <2> SUFFICES ASSUME Phase' = "shutdown", registry' # {} PROVE Queued(Del(Local))' OBVIOUS
  <2>1. CASE Queued(Del(Local)) /\ ~Queued(Del(Local))'
    <3>1. Taken(Del(Local)) BY <1>0, <2>1, QueueStep
    <3>2. onDeleteProtocolEvent /\ Del(Local) = Del(Head(events).arg) BY <3>1, Different DEF Taken
    <3>3. Local = Head(events).arg BY <3>2, Different
    <3>4. Local \notin protocols' BY <3>2, <3>3 DEF onDeleteProtocolEvent
    <3>5. QED BY <1>00, <3>4 DEF LocalThere
  <2>2. CASE onShutdown /\ Phase # "shutdown"
    <3>1. PM \in registry /\ Down BY <1>0, <2>2, LoopFacts DEF onShutdown, StopsOnce
    <3>2. Local \in protocols /\ worker[Local] = "idle" BY <1>0, <2>2, <3>1 DEF LocalThere, Down
    <3>3. QED BY <1>0, <2>2, <3>1, <3>2, QueueShutdown
  <2>3. CASE Phase = "shutdown" BY <1>2, <2>1, <2>3 DEF UnderWay
  <2>4. QED BY <2>2, <2>3, PhaseStep
<1>4. Phase' = "prepare shutdown" => Plain \subseteq ready'
  <2> SUFFICES ASSUME Phase' = "prepare shutdown" PROVE Plain \subseteq ready' OBVIOUS
  <2>1. CASE onPrepareShutdown BY <2>1 DEF onPrepareShutdown, signalIsReadyForShutdown
  <2>2. CASE Phase = "prepare shutdown" BY <2>2, EventStep DEF UnderWay
  <2>3. QED BY <2>1, <2>2, PhaseStep
<1>5. Phase' = "prepare shutdown" /\ Managers \subseteq ready' => shutdownEvent' = TRUE
  <2> SUFFICES ASSUME Phase' = "prepare shutdown", Managers \subseteq ready' PROVE shutdownEvent' = TRUE
      OBVIOUS
  <2>1. ~onShutdown BY PhaseStep
  <2>2. registry \subseteq ready' BY <1>0 DEF TypeOK, Values
  <2>3. shutdownEvent' = TRUE \/ (ready' = ready /\ shutdownEvent' = shutdownEvent)
    BY <2>1, <2>2, EventStep
  <2>4. CASE ready' = ready /\ shutdownEvent' = shutdownEvent
    <3>1. ready # {} BY <2>4 DEF Managers
    <3>2. Down BY <1>0, <3>1 DEF StopsOnce
    <3>3. Phase = "prepare shutdown" BY <2>1, <3>2, PhaseStep DEF Down
    <3>4. QED BY <2>4, <3>3 DEF UnderWay
  <2>5. QED BY <2>3, <2>4
<1>6. QED BY <1>1, <1>3, <1>4, <1>5 DEF UnderWay

\* An instance that becomes done without a thread has its deletion posted.
LEMMA EndedStep ==
    ASSUME IInv, Next, NEW q \in Instances, worker'[q] = "ended"
    PROVE  worker[q] = "ended" \/ Queued(Del(q))'
<1>0. TypeOK /\ InStep BY DEF IInv
<1>1. worker \in [Instances -> WorkerStates] BY <1>0 DEF TypeOK, Values
<1>2. CASE registerProtocol
  <2>1. PICK p : p = Head(events).arg OBVIOUS
  <2>2. worker' = IF Down THEN Stopped(worker, {p}) ELSE worker
    BY <1>2, <2>1 DEF registerProtocol, Down, Phase
  <2>3. CASE q = p /\ Down /\ worker[q] = "idle" BY <1>0, <1>2, <2>1, <2>3, QueueRegister
  <2>4. CASE ~(q = p /\ Down /\ worker[q] = "idle")
    BY <1>1, <2>2, <2>4, StoppedEffect
  <2>5. QED BY <2>3, <2>4
<1>3. CASE onDeleteProtocolEvent
  <2>1. PICK p : p = Head(events).arg OBVIOUS
  <2>2. p \in Instances BY <1>0, <1>3, <2>1, QueueDelete
  <2>9. \A r \in Idle(StopAfter(p), [worker EXCEPT ![p] = "deleted"]) : Queued(Del(r))'
    BY <1>0, <1>3, <2>1, QueueDelete
  <2> DEFINE w == [worker EXCEPT ![p] = "deleted"]
  <2>3. worker' = Stopped(w, StopAfter(p))
    BY <1>3, <2>1 DEF onDeleteProtocolEvent, StopAfter, Phase
  <2>4. w \in [Instances -> WorkerStates] /\ w[p] = "deleted" /\ (q # p => w[q] = worker[q])
    BY <1>1, <2>2 DEF WorkerStates
  <2>5. \A r \in Idle(StopAfter(p), w) : Queued(Del(r))' BY <2>9
  <2> HIDE DEF w
  <2>6. CASE q \in StopAfter(p) /\ w[q] = "idle" BY <2>5, <2>6 DEF Idle
  <2>7. CASE ~(q \in StopAfter(p) /\ w[q] = "idle") BY <2>3, <2>4, <2>7, StoppedEffect
  <2>8. QED BY <2>6, <2>7
<1>4. CASE onPrepareShutdown
  <2>1. \A r \in Idle(ToldToStop(protocols, worker), worker) : Queued(Del(r))'
    BY <1>0, <1>4, QueuePrepareShutdown
  <2>2. worker' = Stopped(worker, ToldToStop(protocols, worker)) BY <1>4 DEF onPrepareShutdown
  <2>3. CASE q \in ToldToStop(protocols, worker) /\ worker[q] = "idle" BY <2>1, <2>3 DEF Idle
  <2>4. CASE ~(q \in ToldToStop(protocols, worker) /\ worker[q] = "idle")
    BY <1>1, <2>2, <2>4, StoppedEffect
  <2>5. QED BY <2>3, <2>4
<1>5. CASE onShutdown
  <2> DEFINE w == Abandoned(worker, protocols)
             P == protocols \intersect {Local}
  <2>1. PM \in registry BY <1>0, <1>5, LoopFacts DEF onShutdown
  <2>2. worker' = Stopped(w, P) BY <1>5, <2>1 DEF onShutdown
  <2>3. /\ w \in [Instances -> WorkerStates]
        /\ q \notin protocols \ {Local} => w[q] = worker[q]
        /\ q \in protocols \ {Local} => w[q] \in {"detached", "deleted"}
    BY <1>1, AbandonedEffect
  <2>4. q \in P => q = Local /\ Local \in protocols OBVIOUS
  <2> HIDE DEF w, P
  <2>5. CASE q \in P /\ w[q] = "idle" BY <1>0, <1>5, <2>1, <2>3, <2>4, <2>5, QueueShutdown
  <2>6. CASE ~(q \in P /\ w[q] = "idle") BY <2>2, <2>3, <2>6, StoppedEffect
  <2>7. QED BY <2>5, <2>6
<1>6. ASSUME NEW p \in Instances, MakeInstance(p) PROVE worker[q] = "ended"
  BY <1>1, <1>6 DEF MakeInstance
<1>7. ASSUME NEW p \in Instances, WorkerEnds(p) PROVE worker[q] = "ended" \/ Queued(Del(q))'
  <2>1. CASE q # p BY <1>1, <1>7, <2>1 DEF WorkerEnds
  <2>2. CASE q = p
    <3>1. events' = Append(events, Del(q)) BY <1>1, <1>7, <2>2 DEF WorkerEnds, Del
    <3>2. Del(q) \in Events /\ events \in Seq(Events) BY <1>0, EventKinds DEF TypeOK, Values
    <3>3. QED BY <3>1, <3>2, AddsOne DEF Posts
  <2>3. QED BY <2>1, <2>2
<1>8. QED BY <1>0, <1>2, <1>3, <1>4, <1>5, <1>6, <1>7, OtherFrame

\* No action starts an instance that was done, or that was told to stop.
LEMMA NotRestarted ==
    ASSUME IInv, Next, NEW q \in Instances
    PROVE  /\ worker[q] \notin {None, "idle", "running"} => worker'[q] \notin {"idle", "running"}
           /\ \/ q \notin protocols'
              \/ q \in protocols
              \/ registerProtocol /\ worker'[q] = worker[q] /\ worker[q] \in {"idle", "running"} /\ ~Down
           /\ q \in protocols' /\ worker[q] \in {"idle", "running", "cancelled", "ended"} =>
                worker'[q] \in {"idle", "running", "cancelled", "ended"}
<1> DEFINE Alive == {"idle", "running", "cancelled", "ended"}
<1>0. TypeOK /\ InStep /\ StopsOnce BY DEF IInv
<1>1. worker \in [Instances -> WorkerStates] BY <1>0 DEF TypeOK, Values
<1>12. ASSUME NEW w \in [Instances -> WorkerStates], NEW P, w[q] = worker[q], worker' = Stopped(w, P)
      PROVE  /\ worker[q] \notin {None, "idle", "running"} => worker'[q] \notin {"idle", "running"}
             /\ worker[q] \in Alive => worker'[q] \in Alive
  BY <1>12, StoppedEffect DEF WorkerStates
<1>2. CASE registerProtocol
  <2>1. PICK p : p = Head(events).arg OBVIOUS
  <2>2. worker' = IF Down THEN Stopped(worker, {p}) ELSE worker
    BY <1>2, <2>1 DEF registerProtocol, Down, Phase
  <2>3. protocols' = IF isDone(p) \/ Down THEN protocols ELSE protocols \union {p}
    BY <1>2, <2>1 DEF registerProtocol, Down, Phase
  <2>4. CASE Down BY <1>1, <1>12, <2>2, <2>3, <2>4
  <2>5. CASE ~Down BY <1>2, <2>2, <2>3, <2>5 DEF isDone
  <2>6. QED BY <2>4, <2>5
<1>3. CASE onDeleteProtocolEvent
  <2>1. PICK p : p = Head(events).arg OBVIOUS
  <2>2. p \in Instances BY <1>0, <1>3, <2>1, QueueDelete
  <2> DEFINE w == [worker EXCEPT ![p] = "deleted"]
  <2>3. worker' = Stopped(w, StopAfter(p)) /\ protocols' = protocols \ {p}
    BY <1>3, <2>1 DEF onDeleteProtocolEvent, StopAfter, Phase
  <2>4. w \in [Instances -> WorkerStates] /\ w[p] = "deleted" /\ (q # p => w[q] = worker[q])
    BY <1>1, <2>2 DEF WorkerStates
  <2> HIDE DEF w
  <2>5. CASE q = p
    <3>1. worker'[q] = "deleted" BY <2>3, <2>4, <2>5, StoppedEffect
    <3>2. QED BY <2>3, <2>5, <3>1
  <2>6. CASE q # p BY <1>12, <2>3, <2>4, <2>6
  <2>7. QED BY <2>5, <2>6
<1>4. CASE onPrepareShutdown
  <2>1. worker' = Stopped(worker, ToldToStop(protocols, worker)) /\ protocols' = protocols
    BY <1>4 DEF onPrepareShutdown
  <2>2. QED BY <1>1, <1>12, <2>1
<1>5. CASE onShutdown
  <2> DEFINE w == Abandoned(worker, protocols)
  <2>1. PM \in registry BY <1>0, <1>5, LoopFacts DEF onShutdown
  <2>2. worker' = Stopped(w, protocols \intersect {Local}) /\ protocols' = protocols \intersect {Local}
    BY <1>5, <2>1 DEF onShutdown
  <2>3. /\ w \in [Instances -> WorkerStates]
        /\ q \notin protocols \ {Local} => w[q] = worker[q]
        /\ q \in protocols \ {Local} => w[q] \in {"detached", "deleted"}
    BY <1>1, AbandonedEffect
  <2> HIDE DEF w
  <2>4. CASE q \notin protocols \ {Local} BY <1>12, <2>2, <2>3, <2>4
  <2>5. CASE q \in protocols \ {Local}
    <3>1. worker'[q] = w[q] BY <2>2, <2>3, <2>5, StoppedEffect
    <3>2. QED BY <2>2, <2>3, <2>5, <3>1
  <2>6. QED BY <2>4, <2>5
<1>6. ASSUME NEW p \in Instances, MakeInstance(p)
      PROVE  /\ worker'[q] = worker[q] \/ worker[q] = None
             /\ protocols' = protocols
  BY <1>1, <1>6 DEF MakeInstance
<1>7. ASSUME NEW p \in Instances, WorkerEnds(p)
      PROVE  /\ \/ worker'[q] = worker[q]
                \/ worker'[q] = "ended"
                \/ worker[q] = "detached" /\ worker'[q] = "deleted"
             /\ protocols' = protocols
  BY <1>1, <1>7 DEF WorkerEnds
<1>8. CASE \E p \in Instances : MakeInstance(p) BY <1>6, <1>8 DEF None
<1>9. CASE \E p \in Instances : WorkerEnds(p) BY <1>7, <1>9
<1>10. CASE ~registerProtocol /\ ~onDeleteProtocolEvent /\ ~onShutdown /\ UNCHANGED <<worker, joining>>
  <2>1. UNCHANGED protocols BY <1>0, <1>10, OtherFrame
  <2>2. QED BY <1>10, <2>1
<1>11. QED BY <1>0, <1>2, <1>3, <1>4, <1>5, <1>8, <1>9, <1>10, OtherFrame

\* Every step keeps what the protocol manager waits for on its way.
LEMMA ProtocolsWaitStep == IInv /\ ProtocolsWait /\ Next => ProtocolsWait'
<1> SUFFICES ASSUME IInv, ProtocolsWait, Next PROVE ProtocolsWait' OBVIOUS
<1>0. TypeOK /\ InStep /\ StopsOnce BY DEF IInv
<1>00. TypeOK' BY IInvStep DEF IInv
<1>1. worker \in [Instances -> WorkerStates] /\ protocols \subseteq Instances /\ protocols' \subseteq Instances
  BY <1>0, <1>00 DEF TypeOK, Values
<1>2. ASSUME NEW p \in protocols' PROVE worker'[p] \in {"idle", "running", "cancelled", "ended"}
  <2>1. p \in Instances BY <1>1
  <2>2. CASE p \in protocols BY <2>1, <2>2, NotRestarted DEF ProtocolsWait
  <2>3. CASE p \notin protocols BY <1>2, <2>1, <2>3, NotRestarted
  <2>4. QED BY <2>2, <2>3
<1>3. ASSUME NEW p \in Instances, worker'[p] = "ended" PROVE Queued(Del(p))'
  <2> SUFFICES ASSUME worker[p] = "ended", ~Queued(Del(p))' PROVE FALSE BY <1>3, EndedStep
  <2>1. Queued(Del(p)) BY DEF ProtocolsWait
  <2>2. Taken(Del(p)) BY <1>0, <2>1, QueueStep
  <2>3. onDeleteProtocolEvent /\ Del(p) = Del(Head(events).arg) BY <2>2, Different DEF Taken
  <2>4. p = Head(events).arg BY <2>3, Different
  <2> DEFINE w == [worker EXCEPT ![p] = "deleted"]
  <2>5. worker' = Stopped(w, StopAfter(p))
    BY <2>3, <2>4 DEF onDeleteProtocolEvent, StopAfter, Phase
  <2>6. w \in [Instances -> WorkerStates] /\ w[p] = "deleted" BY <1>1 DEF WorkerStates
  <2> HIDE DEF w
  <2>7. worker'[p] = "deleted" BY <2>5, <2>6, StoppedEffect
  <2>8. QED BY <1>3, <2>7
<1>4. Phase' = "prepare shutdown" /\ protocols' \subseteq {Local} => PM \in ready'
  <2> SUFFICES ASSUME Phase' = "prepare shutdown", protocols' \subseteq {Local} PROVE PM \in ready'
      OBVIOUS
  <2>1. CASE onPrepareShutdown
    BY <2>1 DEF onPrepareShutdown, signalIsReadyForShutdown, NonApplicationReady
  <2>2. CASE Phase = "prepare shutdown"
    <3>1. CASE onDeleteProtocolEvent
      BY <2>2, <3>1 DEF onDeleteProtocolEvent, signalIsReadyForShutdown, NonApplicationReady, Phase
    <3>2. CASE ~onDeleteProtocolEvent
      <4>1. ~onShutdown BY PhaseStep
      <4>2. registerProtocol => protocols' = protocols BY <2>2 DEF registerProtocol, Phase
      <4>3. protocols' = protocols BY <1>0, <3>2, <4>1, <4>2, OtherFrame
      <4>4. QED BY <2>2, <4>3, EventStep DEF ProtocolsWait
    <3>3. QED BY <3>1, <3>2
  <2>3. QED BY <2>1, <2>2, PhaseStep
<1>5. ASSUME Phase' = "prepare shutdown", NEW p \in protocols' \ {Local},
             p \in Clients \/ protocols' \intersect Clients = {}
      PROVE  worker'[p] \notin {"idle", "running"}
  <2>1. p \in Instances BY <1>1
  <2>2. CASE onPrepareShutdown
    <3>1. worker' = Stopped(worker, ToldToStop(protocols, worker)) /\ protocols' = protocols
      BY <2>2 DEF onPrepareShutdown
    <3>2. worker[p] \in {"idle", "running"} => p \in ToldToStop(protocols, worker)
      BY <1>5, <3>1 DEF ToldToStop
    <3>3. QED BY <1>1, <2>1, <3>1, <3>2, StoppedEffect
  <2>3. CASE Phase = "prepare shutdown" /\ onDeleteProtocolEvent
    <3>1. PICK d : d = Head(events).arg OBVIOUS
    <3>2. d \in Instances BY <1>0, <2>3, <3>1, QueueDelete
    <3> DEFINE w == [worker EXCEPT ![d] = "deleted"]
    <3>3. worker' = Stopped(w, StopAfter(d)) /\ protocols' = protocols \ {d}
      BY <2>3, <3>1 DEF onDeleteProtocolEvent, StopAfter, Phase
    <3>4. w \in [Instances -> WorkerStates] BY <1>1 DEF WorkerStates
    <3>5. StopAfter(d) = ToldToStop(protocols \ {d}, w) BY <2>3 DEF StopAfter
    <3> HIDE DEF w
    <3>6. w[p] \in {"idle", "running"} => p \in StopAfter(d) BY <1>5, <3>3, <3>5 DEF ToldToStop
    <3>7. QED BY <2>1, <3>3, <3>4, <3>6, StoppedEffect
  <2>4. CASE Phase = "prepare shutdown" /\ ~onDeleteProtocolEvent
    <3>1. ~onShutdown BY <1>5, PhaseStep
    <3>2. registerProtocol => protocols' = protocols BY <2>4 DEF registerProtocol, Phase
    <3>3. protocols' = protocols BY <1>0, <2>4, <3>1, <3>2, OtherFrame
    <3>4. worker[p] \in {"cancelled", "ended"} BY <1>5, <2>4, <3>3 DEF ProtocolsWait
    <3>5. QED BY <2>1, <3>4, NotRestarted DEF None
  <2>5. QED BY <1>5, <2>2, <2>3, <2>4, PhaseStep
<1>6. QED BY <1>2, <1>3, <1>4, <1>5 DEF ProtocolsWait

\* The deletion of a connectivity is posted when its thread ends.
LEMMA ConnDelFacts ==
    /\ \A c, d : ConnDel(c) = ConnDel(d) => c = d
    /\ \A c \in Connectivities : ConnDel(c) \in OtherEvents
    /\ \A c : ConnDel(c).type = "DELETE_CONNECTIVITY" /\ ConnDel(c).arg = c
BY EventKinds DEF ConnDel, Ev

\* Every step keeps what the connectivity manager waits for on its way.
LEMMA ConnectivitiesWaitStep == IInv /\ ConnectivitiesWait /\ Next => ConnectivitiesWait'
<1> SUFFICES ASSUME IInv, ConnectivitiesWait, Next PROVE ConnectivitiesWait' OBVIOUS
<1>0. TypeOK /\ InStep /\ StartsOnce /\ StopsOnce BY DEF IInv
<1>1. conn \in [Connectivities -> {None, "running", "cancelled", "ended", "deleted"}]
  BY <1>0 DEF TypeOK, Values
<1>2. Down => ~onStartup /\ \A c \in Spawned : ~spawn_connectivity(c)
  <2> SUFFICES ASSUME Down PROVE ~onStartup /\ \A c \in Spawned : ~spawn_connectivity(c) OBVIOUS
  <2>1. onStartup => Queued(Startup) BY <1>0, QueueTakesOnly DEF Takes
  <2>2. ~onStartup BY <1>0, <2>1 DEF StartsOnce, Down
  <2>3. \A c \in Spawned : ~spawn_connectivity(c) BY <1>0 DEF spawn_connectivity, StopsOnce
  <2>4. QED BY <2>2, <2>3
<1>3. CASE onDeleteConnectivity
  <2>1. PICK d : d = Head(events).arg OBVIOUS
  <2>2. d \in Connectivities BY <1>0, <1>3, <2>1, HeadKinds DEF onDeleteConnectivity, Handle
  <2>3. conn' = [conn EXCEPT ![d] = "deleted"] /\ UNCHANGED state
    BY <1>3, <2>1 DEF onDeleteConnectivity
  <2>4. \A c \in Connectivities : (c # d => conn'[c] = conn[c]) /\ conn'[d] = "deleted"
    BY <1>1, <2>2, <2>3
  <2>5. Phase' = Phase /\ Down' = Down BY <2>3 DEF Phase, Down
  <2>6. \A c \in Connectivities : conn'[c] = "ended" => Queued(ConnDel(c))'
    <3> SUFFICES ASSUME NEW c \in Connectivities, conn'[c] = "ended", ~Queued(ConnDel(c))' PROVE FALSE
        OBVIOUS
    <3>1. c # d /\ conn[c] = "ended" BY <2>4
    <3>2. Queued(ConnDel(c)) BY <3>1 DEF ConnectivitiesWait
    <3>3. Taken(ConnDel(c)) BY <1>0, <3>2, QueueStep
    <3>4. ConnDel(c) \in OtherEvents BY ConnDelFacts
    <3>5. ConnDel(c) = Head(events) BY <3>3, <3>4, Different DEF Taken
    <3>6. c = d BY <2>1, <3>5, ConnDelFacts
    <3>7. QED BY <3>1, <3>6
  <2>7. ASSUME Phase = "prepare shutdown", \A c \in Connectivities : ~Live(c)' PROVE CM \in ready'
    <3>1. \A c \in Connectivities \ {d} : ~Live(c) BY <2>4, <2>7 DEF Live
    <3>2. state[CM] = "prepare shutdown" BY <1>0, <2>7 DEF InStep, Managers
    <3>3. QED BY <1>3, <2>1, <3>1, <3>2 DEF onDeleteConnectivity, signalIsReadyForShutdown
  <2>8. QED BY <2>4, <2>5, <2>6, <2>7 DEF ConnectivitiesWait
<1>4. CASE ~onDeleteConnectivity
  <2>1. ASSUME NEW c \in Connectivities, Queued(ConnDel(c)) PROVE Queued(ConnDel(c))'
    <3> SUFFICES ASSUME ~Queued(ConnDel(c))' PROVE FALSE OBVIOUS
    <3>1. Taken(ConnDel(c)) BY <1>0, <2>1, QueueStep
    <3>2. ConnDel(c) \in OtherEvents BY ConnDelFacts
    <3>3. ConnDel(c) = Head(events) /\ (onSendResult \/ onSendDataObject \/ onSendSigned)
      BY <1>4, <3>1, <3>2, Different DEF Taken
    <3>4. Head(events).type \in {"RESULT", "SEND", "RESEND"}
      BY <3>3 DEF onSendResult, onSendDataObject, onSendSigned, Handle
    <3>5. QED BY <3>3, <3>4, ConnDelFacts
  <2>2. \A c \in Connectivities : conn'[c] = "ended" => Queued(ConnDel(c))'
    <3> SUFFICES ASSUME NEW c \in Connectivities, conn'[c] = "ended" PROVE Queued(ConnDel(c))' OBVIOUS
    <3>1. CASE conn[c] = "ended" BY <2>1, <3>1 DEF ConnectivitiesWait
    <3>2. CASE conn[c] # "ended"
      <4>1. CASE onStartup BY <1>1, <3>2, <4>1 DEF onStartup, Connectivities
      <4>2. CASE onPrepareShutdown BY <1>1, <3>2, <4>2 DEF onPrepareShutdown
      <4>3. ASSUME NEW d \in Spawned, spawn_connectivity(d) PROVE FALSE
        BY <1>1, <3>2, <4>3 DEF spawn_connectivity
      <4>4. ASSUME NEW d \in Connectivities, ConnectivityEnds(d) PROVE Queued(ConnDel(c))'
        <5>1. c = d BY <1>1, <3>2, <4>4 DEF ConnectivityEnds
        <5>2. events' = Append(events, ConnDel(c)) BY <4>4, <5>1 DEF ConnectivityEnds, ConnDel
        <5>3. ConnDel(c) \in Events /\ events \in Seq(Events)
          BY <1>0, ConnDelFacts, EventKinds DEF TypeOK, Values
        <5>4. QED BY <5>2, <5>3, AddsOne DEF Posts
      <4>5. QED BY <1>0, <1>4, <3>2, <4>1, <4>2, <4>3, <4>4, OtherFrame
    <3>3. QED BY <3>1, <3>2
  <2>3. CASE onPrepareShutdown
    <3>1. \A c \in Connectivities : conn'[c] = IF conn[c] = "running" THEN "cancelled" ELSE conn[c]
      BY <2>3 DEF onPrepareShutdown
    <3>2. ASSUME \A c \in Connectivities : ~Live(c)' PROVE CM \in ready'
      <4>1. ~\E c \in Connectivities : Live(c) BY <3>1, <3>2 DEF Live
      <4>2. QED BY <2>3, <4>1 DEF onPrepareShutdown, signalIsReadyForShutdown
    <3>3. QED BY <2>2, <3>1, <3>2 DEF ConnectivitiesWait
  <2>4. CASE ~onPrepareShutdown
    <3>1. ASSUME Down'
          PROVE  Down /\ \A c \in Connectivities : conn'[c] = conn[c] \/ (conn[c] = "cancelled" /\ conn'[c] = "ended")
      <4>1. Down BY <2>4, <3>1, DownStep
      <4>2. \A c \in Connectivities : conn[c] # "running" BY <4>1 DEF ConnectivitiesWait
      <4>3. ASSUME NEW d \in Connectivities, ConnectivityEnds(d), NEW c \in Connectivities
            PROVE  conn'[c] = conn[c] \/ (conn[c] = "cancelled" /\ conn'[c] = "ended")
        BY <1>1, <4>2, <4>3 DEF ConnectivityEnds
      <4>4. CASE UNCHANGED conn BY <4>1, <4>4
      <4>5. QED BY <1>0, <1>2, <1>4, <2>4, <4>1, <4>3, <4>4, OtherFrame
    <3>2. Down' => \A c \in Connectivities : conn'[c] # "running" BY <3>1 DEF ConnectivitiesWait
    <3>3. ASSUME Phase' = "prepare shutdown", \A c \in Connectivities : ~Live(c)' PROVE CM \in ready'
      <4>1. Phase = "prepare shutdown" /\ Down' BY <2>4, <3>3, PhaseStep DEF Down
      <4>2. \A c \in Connectivities : ~Live(c) BY <3>1, <3>3, <4>1 DEF Live
      <4>3. QED BY <4>1, <4>2, EventStep DEF ConnectivitiesWait
    <3>4. QED BY <2>2, <3>2, <3>3 DEF ConnectivitiesWait
  <2>5. QED BY <2>3, <2>4
<1>5. QED BY <1>3, <1>4

\* Every step keeps what the forwarding manager waits for on its way.
LEMMA ModuleWaitsStep == IInv /\ ModuleWaits /\ Next => ModuleWaits'
<1> SUFFICES ASSUME IInv, ModuleWaits, Next, Phase' = "prepare shutdown"
             PROVE  FM \in ready' \/ module' = "quitting" \/ Queued(Quit)'
    BY DEF ModuleWaits
<1>0. TypeOK /\ InStep /\ StartsOnce BY DEF IInv
<1>1. CASE onPrepareShutdown BY <1>1 DEF onPrepareShutdown, signalIsReadyForShutdown
<1>2. CASE Phase = "prepare shutdown"
  <2>1. CASE FM \in ready BY <2>1, EventStep
  <2>2. CASE module = "quitting"
    <3>1. ~onInitPunt
      <4>1. onInitPunt => FM \notin prepared BY DEF onInitPunt
      <4>2. QED BY <1>0, <1>2, <2>2, <4>1 DEF StartsOnce
    <3>2. CASE ModuleQuits BY <1>0, <3>2, QueuePosts DEF Posts
    <3>3. CASE onPrepareShutdown BY <1>1, <3>3
    <3>4. CASE UNCHANGED module BY <2>2, <3>4
    <3>5. QED BY <1>0, <3>1, <3>2, <3>3, <3>4, PhaseFrame
  <2>3. CASE Queued(Quit) /\ ~Queued(Quit)'
    <3>1. Taken(Quit) BY <1>0, <2>3, QueueStep
    <3>2. onForwardingTaskComplete BY <3>1, Different DEF Taken
    <3>3. state[FM] = "prepare shutdown" BY <1>0, <1>2 DEF InStep, Managers
    <3>4. QED BY <3>2, <3>3 DEF onForwardingTaskComplete, signalIsReadyForShutdown
  <2>4. QED BY <1>2, <2>1, <2>2, <2>3 DEF ModuleWaits
<1>3. QED BY <1>1, <1>2, PhaseStep

\* A message that is under way stays so until its verdict is handled.
LEMMA VerdictStep ==
    ASSUME IInv, Next, NEW m \in Messages, m[2] # "update", Verdict(m)
    PROVE  Verdict(m)' \/ (onSendResult /\ m = Head(events).arg)
<1> DEFINE s == Ev("SEND", m)
           r == Ev("RESULT", m)
<1>0. TypeOK /\ events \in Seq(Events) BY DEF IInv, TypeOK, Values
<1>1. s \in OtherEvents /\ r \in OtherEvents BY EventKinds
<1>2. s.type = "SEND" /\ s.arg = m /\ r.type = "RESULT" /\ r.arg = m BY DEF Ev
<1>3. Verdict(m) <=> Queued(s) \/ Queued(r) BY DEF Verdict
<1>4. Verdict(m)' <=> Queued(s)' \/ Queued(r)' BY DEF Verdict
<1>5. onSendDataObject => events # <<>> /\ Head(events).type = "SEND"
  BY DEF onSendDataObject, Handle
<1>6. onSendDataObject /\ Head(events).arg = m => events' = Append(Tail(events), r)
  BY DEF onSendDataObject
<1> HIDE DEF s, r
<1>7. CASE Queued(s) /\ ~Queued(s)'
  <2>1. Taken(s) BY <1>0, <1>7, QueueStep
  <2>2. /\ onDeleteConnectivity \/ onSendResult \/ onSendDataObject \/ onSendSigned
        /\ s = Head(events)
    BY <1>1, <2>1, Different DEF Taken
  <2>3. onSendDataObject
    BY <1>2, <2>2 DEF onDeleteConnectivity, onSendResult, onSendSigned, Handle
  <2>4. events' = Append(Tail(events), r) BY <1>2, <1>6, <2>2, <2>3
  <2>5. r \in Events BY <1>1, EventKinds
  <2>6. Queued(r)' BY <1>0, <1>5, <2>3, <2>4, <2>5, TakesOne
  <2>7. QED BY <1>4, <2>6
<1>8. CASE Queued(r) /\ ~Queued(r)'
  <2>1. Taken(r) BY <1>0, <1>8, QueueStep
  <2>2. /\ onDeleteConnectivity \/ onSendResult \/ onSendDataObject \/ onSendSigned
        /\ r = Head(events)
    BY <1>1, <2>1, Different DEF Taken
  <2>3. onSendResult
    BY <1>2, <2>2 DEF onDeleteConnectivity, onSendDataObject, onSendSigned, Handle
  <2>4. QED BY <1>2, <2>2, <2>3
<1>9. QED BY <1>3, <1>4, <1>7, <1>8

\* Who changes what the application manager waits for.
LEMMA PendingFrame ==
    ASSUME TypeOK, Next
    PROVE  /\ \/ onSendResult \/ onDataStoreFinished \/ onPrepareShutdown \/ ApplicationTimeout
              \/ onNeighborStatusChange
              \/ \E a \in Apps : Register(a) \/ deRegisterApplication(a)
              \/ UNCHANGED pendingDOs
           /\ onPrepareShutdown \/ timers' \subseteq timers
           /\ onPrepareShutdown \/ onDataStoreFinished \/ UNCHANGED dataStoreFinishedProcessing
<1> USE DEF application
<1>1. CASE onDeleteProtocolEvent \/ onDeleteConnectivity \/ onForwardingTaskComplete
           \/ onSendResult \/ onDataStoreFinished \/ onPrepareShutdown
           \/ ProtocolTimeout \/ ApplicationTimeout
  BY <1>1 DEF onDeleteProtocolEvent, onDeleteConnectivity,
              onForwardingTaskComplete, onSendResult, onDataStoreFinished, onPrepareShutdown,
              ProtocolTimeout, ApplicationTimeout
<1>2. CASE \/ NoticeShutdown \/ onPrepareStartup \/ onInitPunt \/ onStartup \/ registerProtocol
           \/ onSendDataObject \/ onSendSigned \/ onShutdown \/ shutdown
  BY <1>2 DEF NoticeShutdown, onPrepareStartup, onInitPunt, onStartup, registerProtocol,
              onSendDataObject, onSendSigned, onShutdown, shutdown
<1>3. CASE \/ \E p \in Instances : MakeInstance(p) \/ WorkerEnds(p)
           \/ \E c \in Spawned : spawn_connectivity(c)
           \/ \E c \in Connectivities : ConnectivityEnds(c)
           \/ \E a \in Apps : Register(a) \/ deRegisterApplication(a)
           \/ onNeighborStatusChange \/ ModuleQuits \/ StoreAnswers
  BY <1>3 DEF MakeInstance, WorkerEnds, spawn_connectivity, ConnectivityEnds, Register,
              deRegisterApplication, onNeighborStatusChange, ModuleQuits, StoreAnswers
<1>4. QED BY <1>1, <1>2, <1>3 DEF Next, KernelStep, TimerStep

\* Every step keeps what the application manager waits for on its way, but for an
\* update of a neighbour's description.
LEMMA ApplicationsWaitStep == IInv /\ ApplicationsWait /\ Next => ApplicationsWait'
<1> SUFFICES ASSUME IInv, ApplicationsWait, Next PROVE ApplicationsWait' OBVIOUS
<1>0. TypeOK /\ InStep /\ StopsOnce BY DEF IInv
<1>1. pendingDOs \subseteq Messages /\ apps \subseteq Apps /\ events \in Seq(Events)
  BY <1>0 DEF TypeOK, Values
<1>2. \A m \in pendingDOs' : m \in pendingDOs \/ m[2] = "update" \/ (m \in Messages /\ Verdict(m)')
  <2> SUFFICES ASSUME NEW m \in pendingDOs', m \notin pendingDOs
               PROVE  m[2] = "update" \/ (m \in Messages /\ Verdict(m)')
      OBVIOUS
  <2>1. CASE onNeighborStatusChange BY <2>1 DEF onNeighborStatusChange
  <2>2. CASE onPrepareShutdown
    <3>1. m \in Goodbyes BY <2>2 DEF onPrepareShutdown
    <3>2. m \in Messages BY <1>1, <3>1 DEF Goodbyes, Messages
    <3>3. Queued(Ev("SEND", m))' BY <1>0, <2>2, <3>1, QueuePrepareShutdown
    <3>4. QED BY <3>2, <3>3 DEF Verdict
  <2>3. ASSUME NEW a \in Apps, Register(a) PROVE m \in Messages /\ Verdict(m)'
    <3>1. m = <<a, "reply">> BY <2>3 DEF Register
    <3>2. m \in Messages BY <3>1 DEF Messages
    <3>3. Ev("SEND", m) \in Events BY <3>2, EventKinds
    <3>4. events' = Append(events, Ev("SEND", m)) BY <2>3, <3>1 DEF Register
    <3>5. Queued(Ev("SEND", m))' BY <1>1, <3>3, <3>4, AddsOne DEF Posts
    <3>6. QED BY <3>2, <3>5 DEF Verdict
  <2>4. ASSUME NEW a \in Apps, deRegisterApplication(a) PROVE FALSE
    BY <2>4 DEF deRegisterApplication
  <2>5. ~onSendResult /\ ~onDataStoreFinished /\ ~ApplicationTimeout
    BY DEF onSendResult, onDataStoreFinished, ApplicationTimeout
  <2>6. QED BY <1>0, <2>1, <2>2, <2>3, <2>4, <2>5, PendingFrame
<1>3. \A m \in pendingDOs' : m[2] # "update" => Verdict(m)'
  <2> SUFFICES ASSUME NEW m \in pendingDOs', m \in pendingDOs, m[2] # "update" PROVE Verdict(m)'
      BY <1>2
  <2>1. m \in Messages /\ Verdict(m) BY <1>1 DEF ApplicationsWait
  <2>2. ~(onSendResult /\ m = Head(events).arg) BY DEF onSendResult, SameObject
  <2>3. QED BY <2>1, <2>2, VerdictStep
<1>4. ~Down' => AM \notin timers'
  <2> SUFFICES ASSUME ~Down' PROVE AM \notin timers' OBVIOUS
  <2>1. ~Down BY DownStep
  <2>2. ~onPrepareShutdown
    <3>1. onPrepareShutdown => Phase' = "prepare shutdown" BY DEF onPrepareShutdown, Phase, Managers
    <3>2. QED BY <3>1 DEF Down
  <2>3. timers' \subseteq timers BY <1>0, <2>2, PendingFrame
  <2>4. QED BY <2>1, <2>3 DEF ApplicationsWait
<1>5. Phase' = "prepare shutdown" =>
        dataStoreFinishedProcessing' = TRUE \/ storeAsked' = TRUE \/ Queued(StoreFinished)'
  <2> SUFFICES ASSUME Phase' = "prepare shutdown"
               PROVE  dataStoreFinishedProcessing' = TRUE \/ storeAsked' = TRUE \/ Queued(StoreFinished)'
      OBVIOUS
  <2>1. CASE onPrepareShutdown BY <2>1 DEF onPrepareShutdown
  <2>2. CASE onDataStoreFinished BY <2>2 DEF onDataStoreFinished
  <2>3. CASE StoreAnswers BY <1>0, <2>3, QueuePosts DEF Posts
  <2>4. CASE ~onPrepareShutdown /\ ~onDataStoreFinished /\ ~StoreAnswers
    <3>1. Phase = "prepare shutdown" BY <2>4, PhaseStep
    <3>2. UNCHANGED <<dataStoreFinishedProcessing, storeAsked>> BY <1>0, <2>4, PhaseFrame, PendingFrame
    <3>3. ~Taken(StoreFinished) BY <2>4, Different DEF Taken
    <3>4. Queued(StoreFinished) => Queued(StoreFinished)' BY <1>0, <3>3, QueueStep
    <3>5. QED BY <3>1, <3>2, <3>4 DEF ApplicationsWait
  <2>5. QED BY <2>1, <2>2, <2>3, <2>4
<1>6. ASSUME Phase' = "prepare shutdown", AM \notin ready', dataStoreFinishedProcessing' = TRUE
      PROVE  pendingDOs' # {} \/ \E m \in Messages : m[2] # "update" /\ Verdict(m)'
  <2>1. CASE onPrepareShutdown
    <3>1. apps = {} BY <1>6, <2>1 DEF onPrepareShutdown
    <3>2. pendingDOs # {} BY <1>6, <2>1, <3>1 DEF onPrepareShutdown, signalIsReadyForShutdown
    <3>3. Dropped(pendingDOs, apps) = {} BY <3>1 DEF Dropped
    <3>4. QED BY <2>1, <3>2, <3>3 DEF onPrepareShutdown
  <2>2. CASE ~onPrepareShutdown
    <3>0. Phase = "prepare shutdown" /\ AM \notin ready BY <1>6, <2>2, PhaseStep, EventStep
    <3>1. state[AM] = "prepare shutdown" /\ AM \in registry
      BY <1>0, <3>0 DEF InStep, Managers
    <3>2. CASE onDataStoreFinished
      BY <1>6, <3>2 DEF onDataStoreFinished, signalIsReadyForShutdown
    <3>3. CASE onSendResult
      <4> SUFFICES ASSUME pendingDOs' = {} PROVE FALSE OBVIOUS
      <4>0. dataStoreFinishedProcessing' = dataStoreFinishedProcessing BY <3>3 DEF onSendResult
      <4>1. dataStoreFinishedProcessing = TRUE BY <1>6, <4>0
      <4>2. signalIsReadyForShutdown({AM}) BY <3>1, <3>3, <4>1 DEF onSendResult
      <4>3. QED BY <1>6, <4>2 DEF signalIsReadyForShutdown
    <3>4. ~ApplicationTimeout
      BY <1>6, <3>1 DEF ApplicationTimeout, signalIsReadyForShutdown
    <3>5. ~onNeighborStatusChange BY <3>1 DEF onNeighborStatusChange
    <3>6. ASSUME NEW a \in Apps, Register(a) PROVE pendingDOs' # {} BY <3>6 DEF Register
    <3>7. CASE ~onDataStoreFinished /\ ~onSendResult /\ (\E a \in Apps : deRegisterApplication(a))
      <4>1. dataStoreFinishedProcessing = TRUE BY <1>0, <1>6, <2>2, <3>7, PendingFrame
      <4>2. \A m \in Messages : m[2] # "update" /\ Verdict(m) => Verdict(m)' BY <3>7, VerdictStep
      <4>3. CASE pendingDOs = {} BY <3>0, <4>1, <4>2, <4>3 DEF ApplicationsWait
      <4>4. CASE pendingDOs # {} /\ pendingDOs' = {}
        <5>1. PICK m \in pendingDOs : TRUE BY <4>4
        <5>2. \E a \in Apps : deRegisterApplication(a) BY <3>7, <4>4
        <5>3. m[2] = "reply" BY <4>4, <5>1, <5>2 DEF deRegisterApplication, Dropped
        <5>4. m \in Messages /\ m[2] # "update" /\ Verdict(m) BY <1>1, <5>3 DEF ApplicationsWait
        <5>5. QED BY <4>2, <5>4
      <4>5. QED BY <4>3, <4>4
    <3>8. CASE ~onDataStoreFinished /\ ~onSendResult /\ UNCHANGED pendingDOs
      <4>1. dataStoreFinishedProcessing = TRUE BY <1>0, <1>6, <2>2, <3>8, PendingFrame
      <4>2. \A m \in Messages : m[2] # "update" /\ Verdict(m) => Verdict(m)' BY <3>8, VerdictStep
      <4>3. QED BY <3>0, <3>8, <4>1, <4>2 DEF ApplicationsWait
    <3>9. QED BY <1>0, <2>2, <3>2, <3>3, <3>4, <3>5, <3>6, <3>7, <3>8, PendingFrame
  <2>3. QED BY <2>1, <2>2
<1>7. ASSUME Phase' = "prepare shutdown", AM \in timers', dataStoreFinishedProcessing' = TRUE
      PROVE  \A m \in pendingDOs' : m[2] # "update"
  <2>1. ~onPrepareShutdown
    <3> SUFFICES ASSUME onPrepareShutdown PROVE FALSE OBVIOUS
    <3>1. apps = {} /\ AM # PM BY <1>7 DEF onPrepareShutdown, AM, PM
    <3>2. AM \in timers BY <1>7, <3>1 DEF onPrepareShutdown
    <3>3. Queued(PrepareShutdown) BY <1>0, QueuePrepareShutdown DEF Takes
    <3>4. QED BY <1>0, <3>2, <3>3 DEF StopsOnce, ApplicationsWait
  <2>2. CASE onDataStoreFinished BY <2>2 DEF onDataStoreFinished
  <2>3. CASE ~onDataStoreFinished
    <3>1. /\ Phase = "prepare shutdown" /\ AM \in timers
          /\ dataStoreFinishedProcessing = TRUE
      BY <1>0, <1>7, <2>1, <2>3, PhaseStep, PendingFrame
    <3>2. \A m \in pendingDOs : m[2] # "update" BY <3>1 DEF ApplicationsWait
    <3>3. state[AM] = "prepare shutdown" BY <1>0, <3>1 DEF InStep, Managers
    <3>4. ~onNeighborStatusChange BY <3>3 DEF onNeighborStatusChange
    <3>5. ASSUME NEW a \in Apps, Register(a) \/ deRegisterApplication(a)
          PROVE  \A m \in pendingDOs' : m \in pendingDOs \/ m[2] = "reply"
      BY <3>5 DEF Register, deRegisterApplication
    <3>6. onSendResult \/ ApplicationTimeout => pendingDOs' \subseteq pendingDOs
      BY DEF onSendResult, ApplicationTimeout
    <3>7. \A m \in pendingDOs' : m \in pendingDOs \/ m[2] = "reply"
      BY <1>0, <2>1, <2>3, <3>4, <3>5, <3>6, PendingFrame
    <3>8. QED BY <3>2, <3>7
  <2>4. QED BY <2>2, <2>3
<1>8. QED BY <1>3, <1>4, <1>5, <1>6, <1>7 DEF ApplicationsWait

\* Nothing is waited for at the start.
LEMMA InitProgress == Init => Progress
<1> SUFFICES ASSUME Init PROVE Progress OBVIOUS
<1>1. IInv BY InitIInv
<1>2. Phase = "stopped" /\ ~Down BY DEF Init, Phase, Down, Managers
<1>3. UnderWay BY <1>2 DEF Init, UnderWay
<1>4. \A p \in Instances : worker[p] \in {"idle", None} BY DEF Init
<1>5. ProtocolsWait BY <1>2, <1>4 DEF Init, ProtocolsWait, None
<1>6. ConnectivitiesWait BY <1>2 DEF Init, ConnectivitiesWait, None
<1>7. ModuleWaits BY <1>2 DEF ModuleWaits
<1>8. ApplicationsWait BY <1>2 DEF Init, ApplicationsWait
<1>9. QED BY <1>3, <1>5, <1>6, <1>7, <1>8 DEF Progress

\* What is on its way stays so when nothing happens.
LEMMA StutterProgress == Progress /\ UNCHANGED vars => Progress'
<1> SUFFICES ASSUME Progress, UNCHANGED vars PROVE Progress' OBVIOUS
<1> USE DEF vars, kernelFlags, phases, instances, application
<1>1. Adds({}) BY AddsNothing
<1>2. \A e : Queued(e) => Queued(e)' BY <1>1 DEF Adds
<1>3. Phase' = Phase /\ Down' = Down BY DEF Phase, Down
<1>4. UnderWay' BY <1>2, <1>3 DEF Progress, UnderWay
<1>5. ProtocolsWait' BY <1>2, <1>3 DEF Progress, ProtocolsWait
<1>6. ConnectivitiesWait' BY <1>2, <1>3 DEF Progress, ConnectivitiesWait, Live
<1>7. ModuleWaits' BY <1>2, <1>3 DEF Progress, ModuleWaits
<1>8. \A m : Verdict(m) => Verdict(m)' BY <1>2 DEF Verdict
<1>9. ApplicationsWait' BY <1>2, <1>3, <1>8 DEF Progress, ApplicationsWait
<1>10. QED BY <1>4, <1>5, <1>6, <1>7, <1>9 DEF Progress

\* When nothing is under way and a shutdown was asked for, every manager but the
\* application manager is ready, and that one waits for what nobody will send.
LEMMA NotStuck == IInv /\ Progress => ShutdownNotStuck
<1> SUFFICES ASSUME IInv, Progress, shutdownCalled, Quiescent, registry # {}
             PROVE  WaitsForNothing
    BY DEF ShutdownNotStuck
<1>0. UnderWay /\ ProtocolsWait /\ ConnectivitiesWait /\ ModuleWaits /\ ApplicationsWait
  BY DEF Progress
<1>1. \A e : ~Queued(e)
  <2>1. Len(events) = 0 BY DEF Quiescent
  <2>2. QED BY <2>1 DEF Queued
<1>2. shutdownCalled = TRUE /\ prepareShutdown = FALSE /\ shutdownEvent = FALSE /\ storeAsked = FALSE
  BY DEF Quiescent, IInv, TypeOK, Flags
<1>3. Phase = "prepare shutdown" BY <1>0, <1>1, <1>2 DEF UnderWay, Down
<1>4. registry = Managers BY <1>3 DEF IInv, InStep
<1>5. PM \in ready
  <2> SUFFICES ASSUME PM \notin ready PROVE FALSE OBVIOUS
  <2>1. \A p \in protocols \ {Local} : worker[p] \in {"idle", "running"}
    <3> SUFFICES ASSUME NEW p \in protocols \ {Local} PROVE worker[p] \in {"idle", "running"} OBVIOUS
    <3>1. p \in Instances BY DEF IInv, TypeOK, Values
    <3>2. worker[p] # "cancelled" /\ worker[p] # "ended" BY <1>0, <1>1, <3>1 DEF Quiescent, ProtocolsWait
    <3>3. QED BY <1>0, <3>2 DEF ProtocolsWait
  <2>2. \A p \in protocols \ {Local} : p \notin Clients BY <1>0, <1>3, <2>1 DEF ProtocolsWait
  <2>3. protocols \intersect Clients = {} BY <2>2
  <2>4. protocols \ {Local} = {} BY <1>0, <1>3, <2>1, <2>3 DEF ProtocolsWait
  <2>5. QED BY <1>0, <1>3, <2>4 DEF ProtocolsWait
<1>6. CM \in ready
  <2>1. \A c \in Connectivities : ~Live(c)
    BY <1>0, <1>1, <1>3 DEF ConnectivitiesWait, Down, Quiescent, Live
  <2>2. QED BY <1>0, <1>3, <2>1 DEF ConnectivitiesWait
<1>7. FM \in ready BY <1>0, <1>1, <1>3 DEF ModuleWaits, Quiescent
<1>8. AM \notin ready
  <2>1. ~(Managers \subseteq ready) BY <1>0, <1>2, <1>3 DEF UnderWay
  <2>2. Plain \subseteq ready BY <1>0, <1>3 DEF UnderWay
  <2>3. QED BY <1>5, <1>6, <1>7, <2>1, <2>2 DEF Managers
<1>9. dataStoreFinishedProcessing = TRUE BY <1>0, <1>1, <1>2, <1>3 DEF ApplicationsWait
<1>10. \A m : ~Verdict(m) BY <1>1 DEF Verdict
<1>11. \A m \in pendingDOs : m[2] = "update" BY <1>0, <1>10 DEF ApplicationsWait
<1>12. pendingDOs # {} BY <1>0, <1>3, <1>8, <1>9, <1>10 DEF ApplicationsWait
<1>13. AM \notin timers BY <1>0, <1>3, <1>9, <1>11, <1>12 DEF ApplicationsWait
<1>14. state[AM] = "prepare shutdown" BY <1>3 DEF IInv, InStep, Managers
<1>15. QED BY <1>8, <1>9, <1>11, <1>13, <1>14 DEF WaitsForNothing

\* A shutdown never waits for what will not come, but for the one message of
\* WaitsForNothing: whoever a manager waits for has been told to stop, or the event
\* that ends the wait is in the queue.
THEOREM ShutdownGoesOn == Spec => []ShutdownNotStuck
<1>1. Init => Progress BY InitProgress
<1>2. IInv /\ Progress /\ [Next]_vars => Progress'
  <2> SUFFICES ASSUME IInv, Progress, Next PROVE Progress' BY StutterProgress
  <2>1. UnderWay' BY UnderWayStep DEF Progress
  <2>2. ProtocolsWait' BY ProtocolsWaitStep DEF Progress
  <2>3. ConnectivitiesWait' BY ConnectivitiesWaitStep DEF Progress
  <2>4. ModuleWaits' BY ModuleWaitsStep DEF Progress
  <2>5. ApplicationsWait' BY ApplicationsWaitStep DEF Progress
  <2>6. QED BY <2>1, <2>2, <2>3, <2>4, <2>5 DEF Progress
<1>3. IInv /\ Progress => ShutdownNotStuck BY NotStuck
<1>4. QED BY <1>1, <1>2, <1>3, Inductive, PTL DEF Spec
=============================================================================
