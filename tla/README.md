# A verification project for the Haggle kernel of ENCODERS

ENCODERS is SRI's content-based, disruption tolerant network.  Its core is the
*Haggle kernel* (`haggle/src/hagglekernel`), a multi-threaded C++ program on
every node that stores data objects, learns what its neighbours want and sends
them what they want whenever a link is up.  This directory holds TLA+
specifications of the parts of the kernel whose correctness depends on the
order in which threads, events and peers act, the TLC models that check them
and TLAPS proofs of the facts that hold for every size.

Paths below are relative to `src/haggle/src/hagglekernel/` unless they start
with `libcpphaggle/` (which is `src/haggle/src/libcpphaggle/`).

## 1. The system

### 1.1 Parts, state and operations

| Part | Files | State | Operations |
|---|---|---|---|
| Kernel and event queue | `HaggleKernel.cpp`, `Event.cpp`, `EventQueue.h`, `Manager.cpp`, `libcpphaggle/Heap.cpp` | heap of events by time, the shutdown flag, the manager registry, each manager's state | add, take the next event, dispatch, start up, prepare shutdown, shut down, register and unregister managers |
| Protocol manager | `ProtocolManager.cpp` | registry of protocol instances, server instances | pick or create an instance for a send, register, delete, shut down on interface loss and at exit |
| Protocol instance | `Protocol.cpp`, `ProtocolSocket.cpp`, `ProtocolTCP.cpp`, `libcpphaggle/Thread.cpp`, `GenericQueue.h` | mode, flags, thread state, send queue, retry counters | connect, wait, send, receive, retry, shut down, clean up |
| Data object transfer | `Protocol.cpp` (`sendDataObjectNow`, `receiveDataObject`) | receive buffer, object under construction, Bloom filters | header, accept/reject, payload, acknowledgement |
| Send priority | `SendPriorityManager.cpp` | one station (queue plus in-flight flag) per neighbour, partial orders | insert, pick the next object, react to success and failure, neighbour and interface changes |
| Data manager, data stores | `DataManager.cpp`, `DataStore.cpp`, `SQLDataStore.cpp`, `MemoryDataStore.cpp` | task queue, stored objects and nodes, the local Bloom filter | insert, delete, query, age |
| Data objects, Bloom filters | `DataObject.cpp`, `Bloomfilter.cpp` | incremental metadata parser, counting and 1-hop aging filters | put metadata and payload, add/remove/age |
| Node manager, node store | `NodeManager.cpp`, `NodeStore.cpp`, `Node.cpp` | neighbours, node descriptions, send list | contact, update, merge, retry, purge |
| Forwarding, replication | `ForwardingManager.cpp`, `Forwarder*.cpp`, `Replication*.cpp` | pending queries, delegate lists, routing tables | match, forward, resend, learn |
| Caching | `Cache*.cpp` | candidates, utilities, capacities | purge, replace |
| Fragmentation, network coding | `fragmentation/`, `networkcoding/` | encoder and decoder storage | split, code, decode, reassemble |
| Connectivity, interfaces | `Connectivity*.cpp`, `InterfaceStore.cpp` | interface tree with time-to-live | beacon, snoop, age, report up and down |
| Applications, interests | `ApplicationManager.cpp`, `InterestManager.cpp` | application nodes, pending deliveries | register, deregister, deliver |
| Security | `SecurityManager.cpp` | certificates, keys, pending objects | sign, verify, encrypt, decrypt |

### 1.2 How they interact

Managers run in one *kernel thread*, which takes events from a priority queue
and calls the handlers registered for them.  Every protocol instance, the data
store, the asynchronous manager modules and connectivity have threads of their
own; they post events to the kernel queue and take work from queues the kernel
thread fills.  Protocol instances are shared by the kernel thread and their own
worker: the kernel thread inserts into the send queue, starts the worker and
stops it, and deletes the instance after joining the worker.

### 1.3 What is hard

* state shared by the kernel thread and a worker is mostly not protected by a
  lock (`mode`, `isRegistered`, `flags`), so a check and the act based on it
  interleave with the other thread;
* links fail at any point of a transfer, and peers leave the node store while
  something is queued for them;
* every object handed to a protocol has to be answered (success or failure),
  because forwarding, send priority and node management wait for the answer;
* shutting down takes several phases in which managers, workers and timeouts race.

The list of concrete hazards, with the source line where each one bites, is
in `PROJECT.json` under `hazards`.

## 2. Modules

### 2.1 ProtocolRun: one protocol instance and its worker

`ProtocolRun.tla` models a client instance of `Protocol` (the TCP sender is the
typical case) from its creation to its deletion.

| State | Code |
|---|---|
| `mode`, `connected`, `isRegistered` | `Protocol::mode`, `PROT_FLAG_CONNECTED`, `Protocol::isRegistered` |
| `thr`, `exitSignal` | `Thread::state`, `Thread::exitSignal` |
| `queue`, `closed` | the `GenericQueue` of `QueueElement`s |
| `pc`, `hand`, `retransmit`, `numConnectTry`, `numerr`, `numSendTimeouts` | the worker's position and the locals of `Protocol::run` |
| `kpc` | the kernel thread's position in the handler it runs for this instance |
| `deleteEvents`, `deleted` | `delete_protocol_event`s in the kernel queue, the destructor |
| `verdict` | per request: what the kernel was told about it |

A request is a call of `sendDataObject` that the manager makes; requests are
numbered in that order.  One action is one step between two accesses to shared
state, so `shutdown()` and `cleanup()` are split at their tests of the thread
state and of `isRegistered`.  The exchange with the peer is one step with all
the outcomes `sendDataObjectNow` and `receiveDataObject` have.

What the code does that a reader may not expect, and the model keeps:
`run()` returns `PROT_EVENT_ERROR` (true) when the peer is not in the node
store; leaving the connect loop because of a cancellation leads to
`waitForEvent`; `closeConnection` of `ProtocolSocket` returns at once, so
`connected` is never cleared; a thread is created once per instance only.

Properties: `OnePlace`, `InOrder`, `AccountedFor`, `AtMostOneLostByStop`,
`NoRunAfterDelete` (invariants), `VerdictFinal` (action property),
`EventuallyReported`, `EventuallyDeleted` (liveness).

Two things documented in the code do not hold: `DeletedOnce` (run
`unregister_race`, see `findings`) and `NothingLost` (section 3.2).

### 2.2 DataTransfer and Handoff: one object over one link

`DataTransfer.tla` opens the step that `ProtocolRun` leaves closed: the
exchange between `Protocol::sendDataObjectNow` on one node and
`Protocol::receiveDataObject` on another.

| State | Code |
|---|---|
| `s`, `tries` | the sending instance: position, object, bytes sent, sequence number; `numerr` and `numSendTimeouts` of its run loop |
| `r` | the receiving instance: position, `curSeqNo`, the object under construction (header, identity, payload file), the receive buffer and `bufferDataLen` |
| `toR`, `toS` | what is on its way: stream or datagrams, control messages |
| `conn` | the TCP connection |
| `bf`, `localBF`, `events` | the receiving node's Bloom filter, `DataManager`'s counting filter, and the INCOMING and DELETED events of its kernel queue (RECEIVED changes neither filter) |
| `accepted`, `again`, `got`, `spoilt` | history: what was agreed to, what was agreed to after it had been received, what was reported RECEIVED, what was reported with a wrong payload |

Data is counted in cells; cell `<<o, i>>` is the i-th piece of object `o`, so a
payload that is cut, shifted or mixed with another shows.  `Datagram` chooses
between `ProtocolSocket` (a stream that may break, where every failure ends
both instances) and `ProtocolUDPGeneric` with the control protocol (datagrams
that are lost, delayed and repeated, where instances live on and retry).
`putData`'s return value, `getData`'s habit of reading to the start of the buffer
while adding to its level, and `removeData` are modelled by what they do to the
buffer.

The protocol thread puts an object it accepts into `bf`; the kernel thread keeps
`localBF`.  On INCOMING of an object that is new to it, and on DELETED, `DataManager`
replaces `bf` by a copy of `localBF`, and with it everything the protocol thread
added whose INCOMING is not handled yet.  `Periodic` is the configuration with a
periodic update: INCOMING then adds one object, and a timer makes the copy.

`Handoff.tla` is the abstract specification: one object at a time; acknowledged
only if the neighbour has it, rejected only if the neighbour once agreed to take
it.  `Implements` is `Handoff!Spec` with `job <- s.obj`.

Properties: `FilterAccounted` (an object in the filter is there, on its way, or
about to be removed), `Remembered` (a received object whose INCOMING has been handled
stays in the filter, unless it was accepted a second time), `Intact`, `Implements`, `SendEnds`,
`FilterSettles`.  `Intact` holds over TCP; over UDP with redundant datagrams it
does not (section 3.2).

### 2.3 DataStore and ObjectStore: the data store thread

`DataStore.tla` models the task queue (`TaskQueue::insert`: priority, then
time), the calls that post tasks, `cancelDataObjectQueries`, the store thread's
loop with its condition variable, and `stop()`: raise the exit signal, post the
exit task, join.  Tasks are grouped by priority and by what the queue and the
loop do with them; of the store's contents the set of data objects is kept.
`signalled` is the wake-up of a waiting thread: a signal sent while nobody waits
is lost, as with a condition variable.  The thread takes the front of the list
after one wait without looking again; taking the front of an empty list is the
state `undefined`, from which nothing is claimed.  Spurious wake-ups of the
condition variable are not modelled; they lead to the same state.

`ObjectStore.tla` says what managers may rely on: insertions and deletions take
effect one at a time in the order they were asked for.  `Implements` maps its
`pending` to `asked`, a history variable: a call that asks for an insertion or a
deletion adds to its end, and the execution of one removes its first.

Properties: `MostUrgentFirst`, `SavedIsFinal`, `Drained`, `Implements`,
`EventuallyDone`, `StopReturns`.  Two expectations stated in the code fail:
the exit task can come too late (run `store_not_saved`) and the thread can wake up
to an empty queue (section 3.2).

### 2.4 Reception: from the acceptance test to the store

`Reception.tla` composes the parts that decide whether a node has an object:
protocol threads that test and add to this node's filter (`doBF`), `DataManager`
with its counting filter (`localBF`), `SecurityManager`, both helper threads,
and the data store, used through the guarantees of `ObjectStore`
(`UsesObjectStore` checks that the use fits).  Every filter access holds the
node's lock for one expression only, so that a test and the addition after it
are two steps, and `Node::setBloomfilter` may come between them.

A *copy* is one transfer that passed the test; `outcome` follows each copy to its
end.  A copy the security manager withholds because it lacks the capability to
decrypt it ends as `withheld`: it is neither stored nor announced as deleted, and
stays in the filter.  Filters are exact sets (no false positives).  `periodic` is the
configuration in which the filter is replaced by a timer.

Properties: `NoGhost`, `FiltersAgree`, `AcknowledgedIsSettled` (what holds once
nothing is under way), `NewMeansStored`, `UsesObjectStore`.  `StoredIsKnown`, the
converse of `NoGhost`, fails (section 3.2).

### 2.5 SendOrder: the queue of one destination

`SendOrder.tla` models `SendQueue` and `TopologicalSorter` of
`SendPriorityManager.cpp`: the partial orders and their combination, the graph of
wrappers (`equivObjs`, `children`) with the loop of `addElement` as one step per
strand, `popTop`, and the send stations.  The loops over lists of children are
`Selected` (the children that compare with an element), `removeChild` and
`addChildren`; `addChild` lets a list have nothing twice.

| State | Code |
|---|---|
| `equivObjs`, `children` | `PartialOrderElement::equivObjs`, `children`, root included |
| `po`, `strands` | the wrapper being placed and the work list of `addElement` |
| `pc`, `held` | where the handler is in `startSend`, and what it took from the graph |
| `sendStations`, `parallelFactor`, `order` | `send_state_t`, the configuration |

Properties: `EachHeldOnce` (the graph neither loses nor doubles an element),
`HighestFirst` (an element is handed out only when none that has to precede it
waits), `StationsBusy` (no free station while something waits).  `HighestFirst` is
stated from what the configuration promises, not from the comparisons the graph
uses.  It holds for the single orders and for the combination that ends in FIFO;
for a combination without FIFO it fails (section 3.2).  `SendOrderProofs` proves all
three for every order but that combination.

### 2.6 SendPath: from DATAOBJECT_SEND to the verdict

`SendPath.tla` composes `ProtocolManager::onSendDataObject` and
`onSendDataObjectActual`, the handlers of the send priority manager, the sender
instances of one link with their limit, and the neighbour's changes in the node
store.  Stations are kept by the *name* of the node, and the verdict an instance
raises carries the name its peer has at that moment; a nameless neighbour gets
another name when it is described, or when it leaves and returns.  `lost` records
for each request why no verdict for its station will come: refused by the second
half of the send, forgotten by a worker whose peer is gone, stopped with the
instance, or reported under another name.  `dropped` means the final drop of an
object that stays unsigned or unencrypted; the security manager sends others again.

Properties: `StationAccounted`, `NoIdleStation`, `OneVerdict` (a request is in one
place until it has its one verdict), `WaitingEnds` (liveness: what waits is handed
out, unless its stations hold lost requests).  The documentation's claim without
that exception is `WaitingServed`, refuted by run `send_station_lost`.

### 2.7 Neighbourhood: who is a neighbour

`Neighbourhood.tla` models how one remote device enters and leaves the interface
store and the node store: connectivity threads that add and remove interfaces
under the store's lock and report after it, the handlers of `ConnectivityManager` and
`NodeManager`, the node store's merging (`NodeStore::update`), and the data store that
is asked for a node and answers later.

The code compares interfaces by address but shares the objects that stand for them, and
an object has one flag that says it is up.  So interface objects have an identity
`<<i, k>>`, the k-th object made of interface `i`:

* `addupdate`, for what a beacon finds, copies it into the store: a new object.
* `onIncomingDataObject` runs for every data object.  It marks up the object the protocol
  instance connected with, and when the interface is not in the store puts that very
  object back.  `Arrive` lets this be any object of the interface that exists or a new one.
* A nameless node shares the object of its event, a node made from the database
  (`createNode`) the objects in the interface store; a node made from a received
  description has its own.  `Node.object` says which.
* `report_dead` calls `Interface::down`, which toggles the flag.
* Node objects are shared too: the data store answers with the node store's own object
  when there is one.  `id` is that identity, `Current` reads the node an answer is now, and
  `Part` keeps what a replaced or purged node was for the answers that still hold it.

`reporting`, `snooped` and `dying` are the objects stored or removed whose report is not
queued yet; while `snooped` is not empty the kernel thread is inside its handler.

`overtaken` is history.  It records the interfaces for which the program itself lost track:
a report queued after the store changed again (`ReportUp`, `report_dead`), an object
put back or used while somebody still refers to it (`InUse`), an answer that is no
longer true (`Outdated`), a description too early or too late (`OutOfStep`), and a purge
before the loss is handled.  The properties speak about the others; section 5 says
what goes wrong in the recorded cases.

Setting or toggling a flag is one step; so are the lookup, the mark and the answer of
`_retrieveNode`.

Properties: `OneRecord`, `NeighboursAgree` (interface store and node store agree
once all is quiet), `ContactsTold` (so do the contact events).
`BestInformation`, a comment in `NodeManager.cpp`, fails (section 3.2).

### 2.8 Kernel: start-up and shutdown

`Kernel.tla` models the event loop and the phases of the managers.  `registry`,
`running`, `shutdownCalled`, `prepareShutdown` are the kernel's flags, `state`,
`prepared` and `ready` those of each manager.  `Plain` managers follow the defaults
of `Manager.h`.  Four become ready later: the protocol manager when its instances
are gone, clients before servers; the connectivity manager when its threads are;
the forwarding manager when its module has quit; the application manager when the
data store has answered and every message to an application has its verdict.  An
instance's `worker` stands for what `ProtocolRun` shows in detail.  `joining` is the
kernel thread waiting in `join()` for an instance that was registered too late.

Properties: `NothingLeftRunning` (no thread that still uses the managers when
`run()` returns, except a detached one), `ReadyMeansQuiet`, `ShutdownNotStuck`.
The last is an invariant that says what liveness would: every action uses up
something bounded, so each behaviour comes to rest, and where it rests `run()` has
returned.  It is stated without the timers, that is, for a node that is not forced
down.  One exception is named in it (`WaitsForNothing`, section 5).

### 2.9 How the modules fit together

`ProtocolRun` treats an exchange as one step with every outcome; `DataTransfer`
is that step, and `Handoff` what is left of it for the sender.  `Reception` takes
over where the receiving side of `DataTransfer` raises INCOMING, RECEIVED and
DELETED, now for several threads at once, and ends in `ObjectStore`, which
`DataStore` implements.  `SendPath` is the way to an instance and back: it takes the
choice among waiting objects from `SendOrder` (any of them), the inside of an
instance from `ProtocolRun` (every outcome it has, forgotten requests included), and
the changes of the neighbour's node from `Neighbourhood`.  `Kernel` ends them all.

## 3. Runs, bounds and fairness

### 3.1 Runs

| Run | Configuration | Question | States |
|---|---|---|---|
| `protocol_run` | `ProtocolRun.cfg` | is every request handled once, in order and reported; does the instance end | 89 000 |
| `unregister_race` | `ProtocolRun_unregister.cfg` | violation of `DeletedOnce` | |
| `transfer_stream` | `DataTransfer_stream.cfg` | does an exchange over TCP keep its promises and end | 500 000 |
| `transfer_datagram` | `DataTransfer_datagram.cfg` | the same over UDP with loss, delay, duplication and retries; does the filter settle | 250 000 |
| `data_store` | `DataStore.cfg` | is the store a FIFO store for objects, is nothing left behind, does it stop | 266 000 |
| `store_not_saved` | `DataStore_exit.cfg` | violation of `SavedOnShutdown` | |
| `reception` | `Reception.cfg` | do filters and store agree once all is quiet | 2 190 000 |
| `send_order` | `SendOrder.cfg` | does the graph keep every element and the order the configuration promises | 1 690 000 |
| `send_path` | `SendPath.cfg` | is every send answered once, every station accounted for, every waiting object served | 283 000 |
| `send_station_lost` | `SendPath_starved.cfg` | violation of `WaitingServed` | |
| `neighbourhood` | `Neighbourhood.cfg` | do interface store, node store and contact events agree once all is quiet | 9 500 000 |
| `kernel` | `Kernel.cfg` | does the node shut down in order, leaving no thread behind, without getting stuck | 2 860 000 |

### 3.2 Further configurations

These check one property each that a comment or document states and TLC refutes.
They are kept beside the runs for a reader who wants the counterexample.  One more,
`DataTransfer_periodic.cfg` (module `MCDataTransfer`), passes: the datagram run with the
filter replaced by the timer; `FilterAccounted`, `Remembered` and `Implements` hold on its
2 000 000 states.

| Configuration | Property | What the counterexample shows |
|---|---|---|
| `ProtocolRun_peer_leaves.cfg` | `NothingLost` | a worker whose peer has left the node store drops the object without a verdict (`Protocol.cpp:1515`); `Event.h:138` and `Protocol.h:541` promise one |
| `DataTransfer_duplicates.cfg` (module `MCDataTransfer`) | `Intact` | a repeated datagram is taken as payload (`Protocol.cpp:937`) |
| `DataStore_cancel.cfg` | `WaitsForATask` | the store thread waits once, without a loop, and may find the queue empty after a cancellation (`DataStore.cpp:970`) |
| `Reception_known.cfg` | `StoredIsKnown` | a stored object is missing from this node's filter (`DataManager.cpp:747`), so it is accepted again; `Node.h:175` |
| `SendOrder_inversion.cfg` | `HighestFirst` | with attribute and priority but no FIFO an element can be placed in two strands, and a lower one is sent first (`SendPriorityManager.cpp:883`, `958`); `docs/README-sendpriority.txt:22` |
| `Neighbourhood_answer.cfg` | `BestInformation` | the data store's late answer replaces a newer description (`NodeManager.cpp:603`); the comment at `NodeManager.cpp:553` |

### 3.3 Bounds and fairness

*Bounds.*  `ProtocolRun`: three requests let one be in the queue, one in hand and
one kept for retransmission; two shutdowns let them race with each other and
with the worker's own end.  `DataTransfer`: two objects, one whose payload takes
two buffers and one without payload; a buffer of two cells makes headers and
payloads span reads; over UDP one fault in any place is followed by the retries and
late answers it causes (`ImplementsHandoff` is proved for any number of faults);
three sends over TCP reach a new connection after a failure.  `DataStore`: four tasks
of every kind, two objects of which one is not persistent, one node.
`Reception`: two objects, two threads and three copies, so that a stored copy, a
duplicate and a failing copy of one object meet, or two copies of one object a
replacement of the filter caused by another; one deletion.  `SendOrder`: five
elements with two priorities and one attribute give every shape of the graph up to
three levels, with one and two stations.  `SendPath`: two ordinary objects and one
control message, one station, one instance per link and one loss of the interface,
so that an instance ends while another name is in use and something waits.
`Neighbourhood`: a device with two interfaces, two interface objects in all (two of one
interface, or one of each), a description in the database and a newer one received; the
one data object received may be a description or not, and use an old object or a new one.
Five node objects are never all in use.  The same properties held in larger explorations
that take too long for a run: three interface objects; create times 1 and 2 with two
data objects received; an empty database; and random walks with four objects and four
data objects received.  `Kernel`: one manager with default behaviour, one client, one
server and the local protocol, the local connectivity and one it spawns, one
application; more of each multiplies the interleavings without a new kind of wait,
since each set is only tested for being empty.  Deadlock is not
checked because each of these systems may come to rest when its bounded inputs
are used up.

*Fairness.*  Every thread that can take a step takes one in the end: this is
what the operating system's scheduler gives, and waits in the code have
timeouts.  No fairness is assumed for new requests, shutdowns, peers, faults or
the network.  In `ProtocolRun` weak fairness of the worker and of the kernel
thread's unfinished handlers; in `DataTransfer` of each side's steps and of the
receiving kernel; in `DataStore` of the thread, and of a stop that has begun; in
`SendPath` of the handling of events, of the workers and of the deletion of ended
instances.  `SendOrder`, `Reception`, `Neighbourhood` and `Kernel` assume none.

*Faults of the code the properties can see.*  Every property has a mutant in
`PROJECT.json`, a one-line change of a definition that a plausible slip in the
code would produce; the faulty variants stand before the definitions.

## 4. Proofs

The modules `*Proofs` hold for every value of the constants that satisfies the
named assumptions.

| Module | Theorems | Property |
|---|---|---|
| `ProtocolRunProofs` | `TypeCorrect`, `HeldInOnePlace`, `ReportedInOrder`, `ResponsibilityKept`, `VerdictsFinal`, `DeletedAfterRun`, `StopLosesOne` | `TypeOK`, `OnePlace`, `InOrder`, `AccountedFor`, `VerdictFinal`, `NoRunAfterDelete`, `AtMostOneLostByStop` |
| `DataTransferProofs` | `TypeCorrect`, `ImplementsHandoff`, `StreamIntact`, `FilterKept`, `ReceivedRemembered` | `TypeOK`, `Implements`, `Intact` (streams), `FilterAccounted`, `Remembered` |
| `DataStoreProofs` | `TypeCorrect`, `TakenInOrder`, `SavedOnceAndLast`, `NothingLeftBehind`, `ImplementsObjectStore` | `TypeOK`, `MostUrgentFirst`, `SavedIsFinal`, `Drained`, `Implements` |
| `ReceptionProofs` | `TypeCorrect`, `Settled`, `FiltersSettle`, `NewForStored`, `NoGhosts`, `StoreAsPromised` | `TypeOK`, `AcknowledgedIsSettled`, `FiltersAgree`, `NewMeansStored`, `NoGhost`, `UsesObjectStore` |
| `SendOrderProofs` | `TypeCorrect`, `HeldOnce`, `SentInOrder`, `StationsFilled` | `TypeOK`, `EachHeldOnce`, `HighestFirst`, `StationsBusy` |
| `SendPathProofs` | `TypeCorrect`, `StationsAccounted`, `StationsFilled`, `SettledOnce` | `TypeOK`, `StationAccounted`, `NoIdleStation`, `OneVerdict` |
| `NeighbourhoodProofs` | `TypeCorrect`, `OneRecordEach`, `NeighboursInAgreement` | `TypeOK`, `OneRecord`, `NeighboursAgree` |
| `KernelProofs` | `TypeCorrect`, `NothingLeft`, `QuietWhenReady`, `ShutdownGoesOn` | `TypeOK`, `NothingLeftRunning`, `ReadyMeansQuiet`, `ShutdownNotStuck` |

*ProtocolRun.*  `TypeCorrect` is inductive by itself.  The others need
`IInv`: a request in hand or kept for retransmission determines where the
worker is (`Control`), requests not yet made have no verdict (`Fresh`), the queue
is in request order behind what the worker holds (`Sorted`), and while nobody
disturbs the instance a kept request is always reached again (`Calm`).
`DeletedAfterRun` adds what the kernel thread knows after `join()`: the worker is gone
and nothing is queued (`AfterDelete`).  `StopLosesOne` adds that a request is lost
only where the worker gives up the one it keeps (`LostAtEnd`).

*DataTransfer.*  `TypeCorrect` covers the index arithmetic of the receive buffer.
`ImplementsHandoff` shows that every step maps to a step or a stutter of
`Handoff`; its invariant says that every control message under way tells the
truth about `accepted` and `got`, which both only grow, so that loss, delay and
repetition cannot make it false.  A datagram sender compares the session of such a
message with its object; a stream's sender does not, and there the argument is
`StreamInv`.

`StreamInv` says what is under way between the two ends of an open connection when the
sender has sent `k` cells of an object (`Offered`, `Delivering`): the receiver has a
prefix of the header, or the header and a prefix of the payload, the stream holds
exactly the cells in between (`Carries`, `Holds`), the messages to the sender are one of
five short sequences about this object (`Replies`), and the buffer is empty between two
reads (`Tidy`).  `HeaderPut` and `PayloadPut` say what `putData` and `removeData` do to a
buffer that holds only header cells, or only payload cells, `HeaderRead` and
`PayloadRead` what one read leads to.  `StreamIntact` follows because a file of the right
length that holds the payload's cells in order is the payload (`HoldsAll`).

`FilterInv` is the invariant for the filter (`Tracked`): what is in `localBF` is in the
filter; everything in the filter, and every object with INCOMING queued, was received,
is being received, or has a DELETED queued behind; and an object that is being received, or was
received and not accepted again, either has INCOMING queued with no DELETED behind it, or is in
`localBF` with no DELETED queued.  The last part is what `Remembered` needs: every copy of
`localBF` contains the object once its own INCOMING is handled.

*DataStore.*  The inductive invariant says that the list is sorted by the order
`TaskQueue::insert` uses (`Sorted`), that numbers of queued tasks are those given
out (`Numbered`), that the exit task, when it is taken, is the only one left
(`TaskNumbered`, because the last number with the lowest priority sorts
last), that nothing follows it (`ExitOnce`), and that a task not done is in the
queue or in the thread's hands (`Tracked`).  The lemmas `InsertKeepsOrder`,
`TakeKeepsOrder` and `EraseKeepsOrder` say what the three operations do to the
list.  `InCallOrder` is what the refinement needs besides: the operations in `asked` are
exactly the insertions and deletions that are queued or being executed, their numbers
increase, and the one being executed is the first.  It holds when a task is taken because
all of them have the same priority, so that the sorted list has them by age.

*Reception.*  `IInv` follows each copy: a copy that was received waits once, in one
place (event, verification, task of the store), and its `outcome` says in which; it is
announced once, before its RECEIVED; the DELETED of a failed one comes after its
announcement.  About the filters it says that `doBF` is ahead of `localBF` only by
objects that are being received or whose announcement is still queued, and that every
object in `localBF` has a reason to be there: stored, kept, withheld, or under way.
When nothing is under way the reasons that are left are those `NoGhost` names.
`StoreAsPromised` maps each step to one of `ObjectStore`.

*SendOrder.*  `Content` says what is in the wrappers: an element is in one of them, as
long as it waits (`Filed`), ages are unique and given out in order (`Numbered`), and
between two handlers a station is free only when nothing waits (`Filling`).  `Shaped` says
what the graph looks like, which depends on the order.  Under the attribute it has two
levels (`Levelled`): wrappers with the attribute at the root, in front of the others, and
the others at the root or below some of them.  Under the remaining orders it is a line
`c` of wrappers, each the only child of the one before (`LinedBy`), with wrappers beside it
at the root that compare with nothing (elements without a priority); nothing in the line has to precede what stands above it (`Ranked`), and the
wrapper being placed has to precede nothing that it has been compared with and passed
(`Descended`).  The shipped combination is not transitive; an element
that is placed above another is not preceded by what stands below that one only because
it is the youngest, and so greater by attribute or priority (`GreaterOverLower`), or was in
hand and is preceded by nothing (`Fronted`).  That `addElement` finds a
wrapper that is not in use is counting (there is one more than elements); what `Selected`
returns is shown by taking the smallest length for which it would be wrong
(`LeastNatural`, `ListExists`, from the well-foundedness of `<`), since an induction principle cannot be
instantiated here.

*SendPath.*  A request is in one place until it is settled, it enters at most one
station and stays there until its RESULT or a recorded loss, no station holds more than
it may, and a station that becomes free is filled in the same handler.

*Neighbourhood.*  `TypeOK` and, for `OneRecord`, that `NodeStore::update` and the handlers
that add a node look for the device's other record first.  For `NeighboursAgree` the
invariant is `Agree(i)` for every interface that is not in `overtaken`.  `StoredUp`: the
object in the interface store is up.  `Apart`: while a DOWN of the interface is queued no
node, and no answer in front of it, shares the stored object, so that the DOWN takes some
other object down.  Then one of two things holds.  Either a report, a query or an answer
about an object that is not the stored one is under way (`Doomed`): it will be recorded as
late.  Or the interface is accounted for: when it is stored, it is up in a node, or a
report, query or answer about the stored object is under way behind every DOWN (`There`);
when it is not stored, its loss is about to be reported or the last report queued is a
DOWN, or no node has it up and no UP is queued (`Gone`).  An answer counts only when it is
sure to bring the interface up (`Sure`): it is a nameless one, or it carries a flag that is
up in a node object that neither the node store nor another answer holds.  When all is quiet nothing is under way and
`There` and `Gone` are the two directions of the property.

*Kernel.*  `IInv` puts the phases of the managers in step with the kernel's flags, says
that start-up and each shutdown phase are ordered once (through facts about which
events are queued and in which order), what each manager has checked before it became
ready, and that a running thread belongs to a registered client or to one whose
registration is still queued before the deletion of the applications' protocol.
`Progress` adds, for each manager not yet ready, that what it waits for was told to stop
or that its event is queued; with it a state in which nothing is under way is one in
which `run()` has returned.

*Assumptions.*  Only the sizes and types of constants (`ConfigAssumption`,
`BoundsAssumption`, `ConstantsAssumption`, `DataStoreAssumption`,
`ReceptionAssumption`, `SendOrderAssumption`, `SendPathAssumption`, `NeighbourhoodAssumption`,
`KernelAssumption`) and, for TCP, that there is no redundancy and no retry on the same
connection (`StreamAssumption`), and that the device's name in `Neighbourhood` is the name
of no interface.  TLC evaluates them in the runs.  The theorems about `SendOrder` have a
hypothesis of their own, that `Orders` is without `"AttributePriority"`: under it an element
can be placed twice, and `SendOrder_inversion.cfg` shows that `SentInOrder` would be false.

*Only model-checked.*  All liveness properties, since TLAPS has no proof rule for fairness
here, and `ContactsTold`, which needs in addition that each object is in one stage only and
what the latest contact event was in each stage.  The type invariants are proved and not run.

## 5. Seen while modelling, without a run

* A request kept for retransmission is also lost without a verdict when the
  instance is shut down (`Protocol.cpp:1627`); `AtMostOneLostByStop` bounds this.
* REJECT is reported as a success (`Protocol.cpp:1575`), and a retry that arrives
  before the receiving kernel has handled the DELETED event of the failed attempt
  is rejected although the peer has nothing.
* Two protocol threads can accept the same object, since the test of the filter
  (`Protocol.cpp:1022`) and the addition (`Protocol.cpp:1107`) are separate.
* `Event.h:129` says the flag of DATAOBJECT_DELETED asks for removal from the
  filter; `DataManager.cpp:743` and every caller use it in the opposite sense.
* `Manager.h:106` asks every manager to signal that it is ready.  When the last
  application has left and a neighbour update for it is still pending, the
  application manager waits for a verdict (`ApplicationManager.cpp:594`) that does
  not come, since the protocol manager drops such a message in shutdown; without
  registered applications no timeout is set either.  `WaitsForNothing` is this state.
* `HaggleKernel::shutdown` is ignored until all managers are ready for start-up
  (`HaggleKernel.cpp:356`), so an emergency shutdown while the start-up file is
  read has no effect.
* A forced shutdown deletes an instance that has ended although its delete event
  is still queued (`ProtocolManager.cpp:493`); the manager is unregistered before
  that event is handled unless the applications' protocol is still there.
* A detached instance's queue is closed and not cleared, although the comment
  above it (`ProtocolManager.cpp:484`) says that its objects are evicted with a
  failure verdict.
* `ApplicationManager::onDataStoreFinishedProcessing` signals readiness whatever
  the phase is (`ApplicationManager.cpp:432`).
* A description of a known device that arrives before the interface event makes it
  an available neighbour; the interface event that follows finds it in the node
  store and no contact event is raised for it.  `ContactsTold` excludes this case
  with the others in `overtaken`.
* A copy of `localBF` (`DataManager.cpp:622`, `:775`) makes this node forget the objects it
  has accepted, or even received, whose INCOMING is still queued.  Such an object is
  accepted a second time, and when that attempt fails its DELETED takes the object out of
  `localBF` although it was received.  `Remembered` excludes such objects (`again`).
* A data object handled between the loss of an interface and its INTERFACE_DOWN puts the
  same object back into the interface store (`ConnectivityManager.cpp:680`,
  `InterfaceStore.cpp:159`); the queued INTERFACE_DOWN then takes it down when a nameless
  node shares it, and the interface stays stored and not up.  With the events in the other
  order the neighbour is available again and no contact event is raised.
* `Interface::down` toggles the flag (`Interface.cpp:284`), so a report of a lost interface
  (`ConnectivityManager.cpp:739`) for an object that is already down brings it up.
* A node made from the database shares the interface store's object, so it stops being
  available when the loss is reported and before INTERFACE_DOWN is handled; a purge in
  between (`NodeManager.cpp:778`) removes it and no end of contact is raised.
* A late answer of the data store that is a node object replaced in the meantime brings
  back the flags it had.
* `Node.cpp:1402`: `setLastRoutingUpdateTime` assigns another field.
* `parallel_factor` 0 is accepted and then nothing is ever sent;
  `SendOrderAssumption` excludes it.  The self tests of `SendPriorityManager` insert
  everything first and pop afterwards, and so never put an element back.

## 6. What is not modelled

* The kernel's event heap: the modules take it as FIFO (`SendPath` as a set).  Events
  are ordered by time, which is the order of posting unless two times are equal
  or the clock is set back.
* False positives of Bloom filters; the filter's own arithmetic.
* The contents of objects, attributes, matching and ranking; SQL.
* Wall-clock time: timeouts are steps that may happen, retries are counted.
* Node descriptions, control messages of applications, fragments, coded blocks,
  encryption: `Reception` follows ordinary data objects only.
* In `SendPath`, several neighbours and several interfaces per neighbour, and the
  ranking of protocols; in `Neighbourhood`, the retries of this node's own
  description, parent interfaces, the blacklist and how beacons age.
* In `Kernel`, what managers do while they run, beyond what the shutdown waits for.
* The components listed as `not_modelled` in `PROJECT.json`.

## 7. Plan

Done: protocol instance, transfer, data store, reception, send priority, send path,
neighbourhood, start-up and shutdown; every safety property of the passing runs
but `ContactsTold` is proved.  Left, in this order:

1. *`ContactsTold`*: its proof, from the stages of each object.
2. *Forwarding*: pending queries and resends when neighbours come and go.
3. *Node descriptions*: the send list of `NodeManager` and its retries.
4. *The event heap* as a pure algorithm against a reference order, with equal times
   and a clock that is set back; the counting filter in the same way.
5. *Caching orders and purgers; reassembly of fragments.*
