-------------------------------- MODULE Kernel --------------------------------
(***************************************************************************)
(* The event loop of HaggleKernel and the phases of its managers, from     *)
(* EVENT_TYPE_PREPARE_STARTUP to the end of run().  Four managers become   *)
(* ready for shutdown later than the event that asks them to be: the       *)
(* protocol manager waits for its instances, the connectivity manager for  *)
(* its connectivities, the forwarding manager for its module and the       *)
(* application manager for the data store and for what it still has to     *)
(* tell the applications.  All handlers run in the kernel thread, one      *)
(* event after the other; protocol workers, connectivities, the forwarder, *)
(* the data store and the signal handler run beside it.                    *)
(***************************************************************************)
EXTENDS Integers, Sequences, SequencesExt

CONSTANTS
    Plain,           \* managers that follow the defaults of Manager.h
    Clients, Servers,    \* protocol instances that may be made
    Spawned,         \* connectivities the local one may start for interfaces it finds
    Apps             \* applications that may register, each once

PM == "ProtocolManager"
AM == "ApplicationManager"
CM == "ConnectivityManager"
FM == "ForwardingManager"
Managers == Plain \union {PM, AM, CM, FM}
Local == "ProtocolUDP"      \* the protocol of the applications
ConnLocal == "ConnectivityLocal"
Connectivities == Spawned \union {ConnLocal}
Instances == Clients \union Servers \union {Local}
None == "none"

ASSUME KernelAssumption ==
    /\ Plain \intersect {PM, AM, CM, FM} = {}
    /\ Clients \intersect Servers = {} /\ {Local, None} \intersect (Clients \union Servers) = {}
    /\ ConnLocal \notin Spawned

\* What applications are told: the answer to a registration, a change of the
\* neighbours, and that the daemon goes down.
Messages == Apps \X {"reply", "update", "shutdown"}

VARIABLES
    registry,   \* managers registered with the kernel
    running, shutdownCalled, prepareShutdown, shutdownEvent,  \* flags of the kernel
    events,     \* the event queue without the delayed events
    timers,     \* delayed events
    state, prepared, ready,     \* of each manager; ready for startup, for shutdown
    protocols,  \* protocol_registry
    worker,     \* thread of each protocol instance
    joining,    \* instance the kernel thread waits for in join()
    conn,       \* connectivities
    module,     \* forwarding module
    apps, pendingDOs, dataStoreFinishedProcessing,  \* of the application manager
    storeAsked, \* the data store has its last question to answer
    told,       \* messages ever sent
    forced      \* history: the protocol manager gave up waiting

kernelFlags == <<registry, running, shutdownCalled, prepareShutdown, shutdownEvent>>
phases == <<state, prepared, ready>>
instances == <<protocols, worker, joining>>
application == <<apps, pendingDOs, dataStoreFinishedProcessing, storeAsked, told>>
vars == <<kernelFlags, events, timers, phases, instances, conn, module, application, forced>>

Ev(t, x) == [type |-> t, arg |-> x]

Init ==
    /\ registry = Managers
    /\ running = FALSE /\ shutdownCalled = FALSE /\ prepareShutdown = FALSE /\ shutdownEvent = FALSE
    /\ events = <<Ev("ADD_PROTOCOL", Local), Ev("PREPARE_STARTUP", None)>> /\ timers = {}
    /\ state = [m \in Managers |-> "stopped"] /\ prepared = {} /\ ready = {}
    /\ protocols = {} /\ joining = None
    /\ worker = [p \in Instances |-> IF p = Local THEN "idle" ELSE None]
    /\ conn = [c \in Connectivities |-> None] /\ module = "idle"
    /\ apps = {} /\ pendingDOs = {} /\ dataStoreFinishedProcessing = FALSE
    /\ storeAsked = FALSE /\ told = {} /\ forced = FALSE

-----------------------------------------------------------------------------
(* The kernel.                                                             *)

\* run() goes on until no manager is registered; it does nothing else while a
\* handler waits in join().
InLoop == registry # {} /\ joining = None

\* The event queue hands out the shutdown event first.
Handle(type) == InLoop /\ ~shutdownEvent /\ events # <<>> /\ Head(events).type = type

\* Called by the signal handler, an application or a protocol; ignored unless the
\* kernel is running.
shutdown ==
    /\ running /\ ~shutdownCalled
    /\ shutdownCalled' = TRUE /\ prepareShutdown' = TRUE
    /\ UNCHANGED <<registry, running, shutdownEvent, events, timers, phases, instances,
                   conn, module, application, forced>>

\* The loop comes round: its wait was interrupted, or ended with the next event.
NoticeShutdown ==
    /\ InLoop /\ prepareShutdown
    /\ prepareShutdown' = FALSE
    /\ events' = Append(events, Ev("PREPARE_SHUTDOWN", None))
    /\ UNCHANGED <<registry, running, shutdownCalled, shutdownEvent, timers, phases, instances,
                   conn, module, application, forced>>

\* Mutant: the shutdown event is enabled by the first manager that is ready.
signalIsReadyForShutdownFirst(M) ==
    /\ ready' = ready \union M
    /\ IF M # {}
          THEN running' = FALSE /\ shutdownEvent' = TRUE
          ELSE UNCHANGED <<running, shutdownEvent>>

\* The managers M signal; the shutdown event is enabled once all are ready.
signalIsReadyForShutdown(M) ==
    /\ ready' = ready \union M
    /\ IF M # {} /\ registry \subseteq ready'
          THEN running' = FALSE /\ shutdownEvent' = TRUE
          ELSE UNCHANGED <<running, shutdownEvent>>

-----------------------------------------------------------------------------
(* Startup.                                                                *)

onPrepareStartup ==
    /\ Handle("PREPARE_STARTUP")
    /\ state' = [m \in Managers |-> "prepare startup"]
    /\ prepared' = Managers \ {FM}
    /\ events' = Tail(events)
    /\ UNCHANGED <<kernelFlags, timers, ready, instances, conn, module, application, forced>>

\* ForwardingManager::onInitPunt: the forwarding module is there, or none is wanted.
\* It is the last to be ready.
onInitPunt ==
    /\ InLoop /\ FM \notin prepared /\ prepared # {}
    /\ prepared' = prepared \union {FM}
    /\ module' \in {"idle", "running"}
    /\ running' = TRUE
    /\ events' = Append(events, Ev("STARTUP", None))
    /\ UNCHANGED <<registry, shutdownCalled, prepareShutdown, shutdownEvent, timers, state, ready,
                   instances, conn, application, forced>>

\* The connectivity manager starts its local connectivity, which may fail.
onStartup ==
    /\ Handle("STARTUP")
    /\ state' = [m \in Managers |-> "running"]
    /\ conn' \in {conn, [conn EXCEPT ![ConnLocal] = "running"]}
    /\ events' = Tail(events)
    /\ UNCHANGED <<kernelFlags, timers, prepared, ready, instances, module, application, forced>>

-----------------------------------------------------------------------------
(* Protocol instances.  A worker is none, idle (no thread), running,       *)
(* cancelled, ended (its delete_protocol_event is queued), detached or     *)
(* deleted.                                                                *)

isDone(p) == worker[p] \notin {"idle", "running"}

\* Instances P are told to shut down: a thread is cancelled, without one the
\* instance is done.
Stopped(w, P) ==
    [p \in Instances |->
       IF p \in P /\ w[p] = "running" THEN "cancelled"
       ELSE IF p \in P /\ w[p] = "idle" THEN "ended" ELSE w[p]]

Deletions(P) == [i \in 1..Len(SetToSeq(P)) |-> Ev("DELETE_PROTOCOL", SetToSeq(P)[i])]

\* A server accepts a connection, or something is to be sent; an interface comes up.
MakeInstance(p) ==
    /\ InLoop /\ PM \in registry /\ worker[p] = None
    /\ \/ /\ p \in Clients /\ state[PM] \notin {"prepare shutdown", "shutdown"}
          /\ \E s \in Servers \intersect protocols : ~isDone(s)
          /\ worker' = [worker EXCEPT ![p] = "running"]
       \/ /\ p \in Servers /\ \E c \in Connectivities : conn[c] # None
          /\ worker' = [worker EXCEPT ![p] = "idle"]
    /\ events' = Append(events, Ev("ADD_PROTOCOL", p))
    /\ UNCHANGED <<kernelFlags, timers, phases, protocols, joining, conn, module, application, forced>>

\* Mutant: the thread of an instance that comes too late is not waited for.
registerProtocolUnjoined ==
    /\ Handle("ADD_PROTOCOL")
    /\ LET p == Head(events).arg
           late == state[PM] \in {"prepare shutdown", "shutdown"}
       IN  /\ protocols' = IF isDone(p) \/ late THEN protocols ELSE protocols \union {p}
           /\ worker' = IF late THEN Stopped(worker, {p}) ELSE worker
           /\ events' = IF late /\ worker[p] = "idle" THEN Append(Tail(events), Ev("DELETE_PROTOCOL", p))
                        ELSE Tail(events)
    /\ UNCHANGED <<kernelFlags, timers, phases, joining, conn, module, application, forced>>

\* In shutdown the new instance is stopped, and its thread waited for.
registerProtocol ==
    /\ Handle("ADD_PROTOCOL")
    /\ LET p == Head(events).arg
           late == state[PM] \in {"prepare shutdown", "shutdown"}
       IN  /\ protocols' = IF isDone(p) \/ late THEN protocols ELSE protocols \union {p}
           /\ worker' = IF late THEN Stopped(worker, {p}) ELSE worker
           /\ joining' = IF late /\ worker[p] = "running" THEN p ELSE joining
           /\ events' = IF late /\ worker[p] = "idle" THEN Append(Tail(events), Ev("DELETE_PROTOCOL", p))
                        ELSE Tail(events)
    /\ UNCHANGED <<kernelFlags, timers, phases, conn, module, application, forced>>

\* A worker leaves its loop, by itself or cancelled, and posts its deletion; a
\* detached one deletes its instance.
WorkerEnds(p) ==
    /\ worker[p] \in {"running", "cancelled", "detached"}
    /\ \/ /\ worker[p] # "detached"
          /\ worker' = [worker EXCEPT ![p] = "ended"]
          /\ events' = Append(events, Ev("DELETE_PROTOCOL", p))
       \/ /\ worker[p] = "detached"
          /\ worker' = [worker EXCEPT ![p] = "deleted"] /\ UNCHANGED events
    /\ joining' = IF joining = p THEN None ELSE joining
    /\ UNCHANGED <<kernelFlags, timers, phases, protocols, conn, module, application, forced>>

NonApplicationReady(P) == P \ {Local} = {}

\* shutdownNonApplicationProtocols tells the clients among P to stop, and the servers
\* once there is no client.
ToldToStop(P, w) ==
    {p \in P \ {Local} : w[p] \in {"idle", "running"} /\ (p \in Clients \/ P \intersect Clients = {})}

Idle(P, w) == {p \in P : w[p] = "idle"}

\* The instance goes; what the phase waits for is tested again.
onDeleteProtocolEvent ==
    /\ Handle("DELETE_PROTOCOL")
    /\ LET p == Head(events).arg
           P == protocols \ {p}
           w == [worker EXCEPT ![p] = "deleted"]
           stop == IF state[PM] = "prepare shutdown" THEN ToldToStop(P, w)
                   ELSE IF state[PM] = "shutdown" THEN Idle(P \intersect {Local}, w) ELSE {}
       IN  /\ protocols' = P
           /\ worker' = Stopped(w, stop)
           /\ events' = Tail(events) \o Deletions(Idle(stop, w))
           /\ signalIsReadyForShutdown(
                 IF state[PM] = "prepare shutdown" /\ NonApplicationReady(P) THEN {PM} ELSE {})
           /\ registry' = IF state[PM] = "shutdown" /\ Local \notin P THEN registry \ {PM} ELSE registry
    /\ UNCHANGED <<shutdownCalled, prepareShutdown, timers, state, prepared, joining, conn, module,
                   application, forced>>

\* onProtocolPrepareShutdownTimeout
ProtocolTimeout ==
    /\ InLoop /\ ~shutdownEvent /\ PM \in timers
    /\ timers' = timers \ {PM}
    /\ signalIsReadyForShutdown(IF state[PM] = "prepare shutdown" THEN {PM} ELSE {})
    /\ forced' = (forced \/ (state[PM] = "prepare shutdown" /\ PM \notin ready))
    /\ UNCHANGED <<registry, shutdownCalled, prepareShutdown, events, state, prepared, instances,
                   conn, module, application>>

-----------------------------------------------------------------------------
(* Connectivities and the forwarding module.                               *)

Live(c) == conn[c] \in {"running", "cancelled", "ended"}

\* Mutant: a connectivity is started although the node shuts down.
spawn_connectivityLate(c) ==
    /\ conn[c] = None /\ conn[ConnLocal] \in {"running", "cancelled"}
    /\ conn' = [conn EXCEPT ![c] = "running"]
    /\ UNCHANGED <<kernelFlags, events, timers, phases, instances, module, application, forced>>

\* Under connMutex, which the handler of PREPARE_SHUTDOWN takes too.
spawn_connectivity(c) ==
    /\ conn[c] = None /\ conn[ConnLocal] \in {"running", "cancelled"}
    /\ ~shutdownCalled
    /\ conn' = [conn EXCEPT ![c] = "running"]
    /\ UNCHANGED <<kernelFlags, events, timers, phases, instances, module, application, forced>>

ConnectivityEnds(c) ==
    /\ conn[c] \in {"running", "cancelled"}
    /\ conn' = [conn EXCEPT ![c] = "ended"]
    /\ events' = Append(events, Ev("DELETE_CONNECTIVITY", c))
    /\ UNCHANGED <<kernelFlags, timers, phases, instances, module, application, forced>>

onDeleteConnectivity ==
    /\ Handle("DELETE_CONNECTIVITY")
    /\ conn' = [conn EXCEPT ![Head(events).arg] = "deleted"]
    /\ signalIsReadyForShutdown(
          IF state[CM] = "prepare shutdown" /\ \A c \in Connectivities \ {Head(events).arg} : ~Live(c)
             THEN {CM} ELSE {})
    /\ events' = Tail(events)
    /\ UNCHANGED <<registry, shutdownCalled, prepareShutdown, timers, state, prepared, instances,
                   module, application, forced>>

ModuleQuits ==
    /\ module = "quitting"
    /\ module' = "gone"
    /\ events' = Append(events, Ev("QUIT", None))
    /\ UNCHANGED <<kernelFlags, timers, phases, instances, conn, application, forced>>

onForwardingTaskComplete ==
    /\ Handle("QUIT")
    /\ signalIsReadyForShutdown(IF state[FM] = "prepare shutdown" THEN {FM} ELSE {})
    /\ events' = Tail(events)
    /\ UNCHANGED <<registry, shutdownCalled, prepareShutdown, timers, state, prepared, instances,
                   conn, module, application, forced>>

-----------------------------------------------------------------------------
(* Applications.                                                           *)

Sends(M) == [i \in 1..Len(SetToSeq(M)) |-> Ev("SEND", SetToSeq(M)[i])]

\* An application registers; the handler does not look at the phase.
Register(a) ==
    /\ InLoop /\ AM \in registry /\ Local \in protocols /\ ~isDone(Local)
    /\ <<a, "reply">> \notin told
    /\ apps' = apps \union {a}
    /\ pendingDOs' = pendingDOs \union {<<a, "reply">>} /\ told' = told \union {<<a, "reply">>}
    /\ events' = Append(events, Ev("SEND", <<a, "reply">>))
    /\ UNCHANGED <<kernelFlags, timers, phases, instances, conn, module,
                   dataStoreFinishedProcessing, storeAsked, forced>>

\* What is pending for an application that leaves, except what is for all.
Dropped(P, A) == {m \in P : m[1] \in A /\ m[2] = "reply"}

deRegisterApplication(a) ==
    /\ InLoop /\ AM \in registry /\ a \in apps
    /\ apps' = apps \ {a}
    /\ pendingDOs' = pendingDOs \ Dropped(pendingDOs, {a})
    /\ UNCHANGED <<kernelFlags, events, timers, phases, instances, conn, module,
                   dataStoreFinishedProcessing, storeAsked, told, forced>>

\* A neighbour comes or goes; told at most once here.
onNeighborStatusChange ==
    /\ InLoop /\ AM \in registry /\ apps # {}
    /\ state[AM] \notin {"prepare shutdown", "shutdown"} /\ ~dataStoreFinishedProcessing
    /\ \A m \in told : m[2] # "update"
    /\ LET M == apps \X {"update"}
       IN  /\ pendingDOs' = pendingDOs \union M /\ told' = told \union M
           /\ events' = events \o Sends(M)
    /\ UNCHANGED <<kernelFlags, timers, phases, instances, conn, module, apps,
                   dataStoreFinishedProcessing, storeAsked, forced>>

\* Control messages go on to the protocol of the applications, which sends at once:
\* every outcome, onSendDataObjectActual's refusals included, is a verdict.  Others come
\* back once the security manager has marked them as signed.
onSendDataObject ==
    /\ Handle("SEND")
    /\ LET m == Head(events).arg
       IN  events' = Append(Tail(events), Ev(IF m[2] = "update" THEN "RESEND" ELSE "RESULT", m))
    /\ UNCHANGED <<kernelFlags, timers, phases, instances, conn, module, application, forced>>

\* The second time; in shutdown the protocol manager sends control messages only.
onSendSigned ==
    /\ Handle("RESEND")
    /\ events' = IF state[PM] \notin {"prepare shutdown", "shutdown"}
                 THEN Append(Tail(events), Ev("RESULT", Head(events).arg))
                 ELSE Tail(events)
    /\ UNCHANGED <<kernelFlags, timers, phases, instances, conn, module, application, forced>>

\* What goes to all applications is one data object.
SameObject(m, n) == m = n \/ (m[2] = n[2] /\ m[2] # "reply")

\* The first verdict on a data object settles it for every application.
onSendResult ==
    /\ Handle("RESULT")
    /\ pendingDOs' = {m \in pendingDOs : ~SameObject(m, Head(events).arg)}
    /\ signalIsReadyForShutdown(
          IF state[AM] = "prepare shutdown" /\ AM \in registry /\ pendingDOs' = {} /\ dataStoreFinishedProcessing
             THEN {AM} ELSE {})
    /\ events' = Tail(events)
    /\ UNCHANGED <<registry, shutdownCalled, prepareShutdown, timers, state, prepared, instances,
                   conn, module, apps, dataStoreFinishedProcessing, storeAsked, told, forced>>

StoreAnswers ==
    /\ storeAsked
    /\ storeAsked' = FALSE
    /\ events' = Append(events, Ev("STORE_FINISHED", None))
    /\ UNCHANGED <<kernelFlags, timers, phases, instances, conn, module, apps, pendingDOs,
                   dataStoreFinishedProcessing, told, forced>>

\* onDataStoreFinishedProcessing, in whatever phase.
onDataStoreFinished ==
    /\ Handle("STORE_FINISHED")
    /\ dataStoreFinishedProcessing' = TRUE
    /\ pendingDOs' = {m \in pendingDOs : m[2] # "update"}
    /\ signalIsReadyForShutdown(IF pendingDOs' = {} THEN {AM} ELSE {})
    /\ events' = Tail(events)
    /\ UNCHANGED <<registry, shutdownCalled, prepareShutdown, timers, state, prepared, instances,
                   conn, module, apps, storeAsked, told, forced>>

\* onPrepareShutdownTimeout
ApplicationTimeout ==
    /\ InLoop /\ ~shutdownEvent /\ AM \in timers
    /\ timers' = timers \ {AM}
    /\ IF state[AM] = "prepare shutdown"
          THEN pendingDOs' = {} /\ signalIsReadyForShutdown({AM})
          ELSE UNCHANGED pendingDOs /\ signalIsReadyForShutdown({})
    /\ UNCHANGED <<registry, shutdownCalled, prepareShutdown, events, state, prepared, instances,
                   conn, module, apps, dataStoreFinishedProcessing, storeAsked, told, forced>>

-----------------------------------------------------------------------------
(* Shutdown.                                                               *)

\* ApplicationManager::onPrepareShutdown: what it has to tell.
Goodbyes == apps \X {"shutdown"}

onPrepareShutdown ==
    /\ Handle("PREPARE_SHUTDOWN")
    /\ state' = [m \in Managers |-> "prepare shutdown"]
    /\ worker' = Stopped(worker, ToldToStop(protocols, worker))
    /\ conn' = [c \in Connectivities |-> IF conn[c] = "running" THEN "cancelled" ELSE conn[c]]
    /\ module' = IF module = "running" THEN "quitting" ELSE module
    /\ pendingDOs' = (pendingDOs \ Dropped(pendingDOs, apps)) \union Goodbyes
    /\ told' = told \union Goodbyes
    /\ storeAsked' = (apps # {}) /\ dataStoreFinishedProcessing' = (apps = {})
    /\ apps' = {}
    /\ timers' = timers \union (IF apps # {} THEN {AM} ELSE {})
                        \union (IF NonApplicationReady(protocols) THEN {} ELSE {PM})
    /\ events' = Tail(events) \o Deletions(Idle(ToldToStop(protocols, worker), worker)) \o Sends(Goodbyes)
    /\ signalIsReadyForShutdown(
          Plain \union (IF NonApplicationReady(protocols) THEN {PM} ELSE {})
                \union (IF \E c \in Connectivities : Live(c) THEN {} ELSE {CM})
                \union (IF module = "running" THEN {} ELSE {FM})
                \union (IF apps = {} /\ pendingDOs = {} THEN {AM} ELSE {}))
    /\ UNCHANGED <<registry, shutdownCalled, prepareShutdown, prepared, protocols, joining, forced>>

\* onProtocolShutdownTimeout, called by onShutdown: other instances are detached, or
\* deleted when they have no thread any more.
Abandoned(w, P) ==
    [p \in Instances |->
       IF p \notin P \ {Local} THEN w[p]
       ELSE IF w[p] \in {"running", "cancelled"} THEN "detached" ELSE "deleted"]

\* The managers unregister, the protocol manager when the protocol of the
\* applications is gone.
onShutdown ==
    /\ InLoop /\ shutdownEvent
    /\ shutdownEvent' = FALSE
    /\ state' = [m \in Managers |-> IF m \in registry THEN "shutdown" ELSE state[m]]
    /\ registry' = registry \intersect (IF Local \in protocols THEN {PM} ELSE {})
    /\ IF PM \in registry
          THEN /\ protocols' = protocols \intersect {Local}
               /\ worker' = Stopped(Abandoned(worker, protocols), protocols \intersect {Local})
               /\ events' = events \o Deletions(Idle(protocols \intersect {Local}, worker))
          ELSE UNCHANGED <<protocols, worker, events>>
    /\ UNCHANGED <<running, shutdownCalled, prepareShutdown, timers, prepared, ready, joining,
                   conn, module, application, forced>>

-----------------------------------------------------------------------------
\* What the loop does with the next event.
KernelStep ==
    \/ NoticeShutdown \/ onPrepareStartup \/ onInitPunt \/ onStartup
    \/ registerProtocol \/ onDeleteProtocolEvent
    \/ onDeleteConnectivity \/ onForwardingTaskComplete
    \/ onSendDataObject \/ onSendSigned \/ onSendResult \/ onDataStoreFinished
    \/ onPrepareShutdown \/ onShutdown

TimerStep == ProtocolTimeout \/ ApplicationTimeout

Next ==
    \/ shutdown \/ KernelStep \/ TimerStep
    \/ \E p \in Instances : MakeInstance(p) \/ WorkerEnds(p)
    \/ \E c \in Spawned : spawn_connectivity(c)
    \/ \E c \in Connectivities : ConnectivityEnds(c)
    \/ \E a \in Apps : Register(a) \/ deRegisterApplication(a)
    \/ onNeighborStatusChange \/ ModuleQuits \/ StoreAnswers

Spec == Init /\ [][Next]_vars

-----------------------------------------------------------------------------
(* Properties.                                                             *)

\* The event loop ends only when no thread of a protocol, a connectivity or the
\* forwarding module can still call into the managers that are deleted next, except
\* one that was detached.
NothingLeftRunning ==
    registry = {} =>
      /\ \A p \in Instances : worker[p] \notin {"running", "cancelled"}
      /\ \A c \in Connectivities : conn[c] \notin {"running", "cancelled"}
      /\ module \notin {"running", "quitting"}

\* The managers are about to be told to shut down, or told, only when the protocol
\* manager has no instance left but the one of the applications, and the connectivity
\* manager none at all, unless the protocol manager gave up waiting.
ReadyMeansQuiet ==
    shutdownEvent \/ state[PM] = "shutdown" =>
      /\ forced \/ protocols \subseteq {Local}
      /\ \A c \in Connectivities : ~Live(c)

\* A message that was dropped because the node shuts down, for an application that
\* had left, while no other application was registered: nothing ends the wait for it.
WaitsForNothing ==
    /\ state[AM] = "prepare shutdown" /\ AM \notin ready
    /\ dataStoreFinishedProcessing /\ AM \notin timers
    /\ \A m \in pendingDOs : m[2] = "update"

\* Nothing is under way: no event to handle, no thread that was told to end, no answer
\* outstanding.  A timer may still be set.
Quiescent ==
    /\ events = <<>> /\ ~prepareShutdown /\ ~shutdownEvent /\ joining = None
    /\ ~storeAsked /\ module # "quitting"
    /\ \A p \in Instances : worker[p] # "cancelled"
    /\ \A c \in Connectivities : conn[c] # "cancelled"

\* A shutdown that was asked for ends: when nothing is under way any more run() has
\* returned, even if no timer fired, unless the application manager waits for the
\* verdict on what nobody will send.
ShutdownNotStuck == shutdownCalled /\ Quiescent => registry = {} \/ WaitsForNothing
=============================================================================
