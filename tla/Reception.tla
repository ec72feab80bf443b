------------------------------- MODULE Reception -------------------------------
(***************************************************************************)
(* How a data object that arrives over several protocol threads is         *)
(* accepted, verified and stored: the acceptance test in                   *)
(* Protocol::receiveDataObject, the events it raises, SecurityManager and  *)
(* DataManager that handle them in the kernel thread, their helper         *)
(* threads, and the data store as ObjectStore describes it.                *)
(*                                                                         *)
(* Two Bloom filters say what this node holds.  localBF is the counting    *)
(* filter of DataManager, used by the kernel thread only.  doBF is the     *)
(* plain filter of "this node" that the protocol threads test and add to;  *)
(* Node::setBloomfilter replaces it by a copy of localBF.  Every use goes  *)
(* through NodeRef's lock proxy, which holds the node's lock for one       *)
(* expression: the test and the addition are therefore two steps.          *)
(*                                                                         *)
(* A copy is one transfer of an object that passed the test.  Filters are  *)
(* exact sets here: false positives are left out, and localBF never counts *)
(* an object twice because every addition is preceded by a test.  Control  *)
(* messages, node descriptions, fragments and network coded blocks take    *)
(* other paths and are not modelled.                                       *)
(***************************************************************************)
EXTENDS Integers, Sequences, FiniteSets

CONSTANTS
    Objects,      \* data objects, all persistent
    Receivers,    \* protocol threads that receive
    MaxCopies,    \* bound: copies accepted
    MaxDeletes    \* bound: deletions asked for by managers

ASSUME ReceptionAssumption == MaxCopies \in Nat /\ MaxDeletes \in Nat

VARIABLES
    periodic,  \* configuration: periodicBloomfilterUpdateInterval > 0
    rx,        \* what each protocol thread is doing, and with which copy
    object,    \* the object of each copy
    outcome,   \* what became of each copy
    duplicate, \* copies with isDuplicate()
    copies,    \* number of copies so far
    doBF, localBF,
    events,    \* the kernel's event queue
    security,  \* copies queued for the SecurityHelper thread
    helper,    \* copies queued for the DataHelper thread
    tasks,     \* object tasks in the data store's queue
    store,     \* objects in the data store
    news,      \* copies for which DATAOBJECT_NEW was raised
    kept,      \* objects DataManager kept in its filter when they were deleted
    deletes    \* deletions asked for so far

filterVars == <<doBF, localBF>>
copyVars   == <<object, outcome, duplicate, copies>>
helperVars == <<security, helper>>
storeVars  == <<tasks, store>>
vars == <<periodic, rx, copyVars, filterVars, events, helperVars, storeVars, news, kept, deletes>>

Copies == 1..MaxCopies
NoCopy == 0

CopyEvent(type, c) == [type |-> type, copy |-> c, object |-> object[c], keep |-> FALSE]
Deleted(o, keep) == [type |-> "DELETED", copy |-> NoCopy, object |-> o, keep |-> keep]
Raise(e) == events' = Append(events, e)

Init ==
    /\ periodic \in BOOLEAN
    /\ rx = [r \in Receivers |-> [pc |-> "idle", copy |-> NoCopy]]
    /\ object \in [Copies -> Objects]
    /\ outcome = [c \in Copies |-> "unused"]
    /\ duplicate = {} /\ copies = 0
    /\ doBF = {} /\ localBF = {}
    /\ events = <<>> /\ security = <<>> /\ helper = <<>>
    /\ tasks = <<>> /\ store = {}
    /\ news = {} /\ kept = {} /\ deletes = 0

Settle(c, fate) == outcome' = [outcome EXCEPT ![c] = fate]

-----------------------------------------------------------------------------
(* Protocol threads.                                                       *)

Step(r, label, c) == rx' = [rx EXCEPT ![r] = [pc |-> label, copy |-> c]]

\* The object of the header is not in this node's filter.
Wanted(o) == o \notin doBF

\* The header is complete; an object that is not wanted is rejected, which
\* changes nothing here.
TestFilter(r) ==
    /\ rx[r].pc = "idle" /\ copies < MaxCopies
    /\ Wanted(object[copies + 1])
    /\ copies' = copies + 1
    /\ Settle(copies + 1, "receiving")
    /\ Step(r, "tested", copies + 1)
    /\ UNCHANGED <<object, duplicate, filterVars, events, helperVars, storeVars,
                   news, kept, deletes, periodic>>

Accept(r) ==
    /\ rx[r].pc = "tested"
    /\ doBF' = doBF \union {object[rx[r].copy]}
    /\ Step(r, "accepted", rx[r].copy)
    /\ UNCHANGED <<copyVars, localBF, events, helperVars, storeVars, news, kept, deletes, periodic>>

\* After the answer was sent, or could not be sent.
RaiseIncoming(r) ==
    /\ rx[r].pc = "accepted"
    /\ Raise(CopyEvent("INCOMING", rx[r].copy))
    /\ Step(r, "receiving", rx[r].copy)
    /\ UNCHANGED <<copyVars, filterVars, helperVars, storeVars, news, kept, deletes, periodic>>

\* The rest of the object arrives; it is acknowledged.
ReceiveDone(r) ==
    /\ rx[r].pc = "receiving"
    /\ Raise(CopyEvent("RECEIVED", rx[r].copy))
    /\ Settle(rx[r].copy, "acknowledged")
    /\ Step(r, "idle", NoCopy)
    /\ UNCHANGED <<object, duplicate, copies, filterVars, helperVars, storeVars,
                   news, kept, deletes, periodic>>

\* Faulty variant: a transfer that fails leaves no trace.
FailureEvents_None(c) == <<>>

FailureEvents(c) == <<Deleted(object[c], FALSE)>>

ReceiveFails(r) ==
    /\ rx[r].pc = "receiving"
    /\ events' = events \o FailureEvents(rx[r].copy)
    /\ Settle(rx[r].copy, "failed")
    /\ Step(r, "idle", NoCopy)
    /\ UNCHANGED <<object, duplicate, copies, filterVars, helperVars, storeVars,
                   news, kept, deletes, periodic>>

-----------------------------------------------------------------------------
(* The kernel thread handles the first event.                              *)

Handle(type) == events # <<>> /\ Head(events).type = type

\* Faulty variant: the copy in this node's filter is not refreshed.
setBloomfilter_Missing(bf) == UNCHANGED doBF

setBloomfilter(bf) == doBF' = bf

Marked(c) == IF object[c] \in localBF THEN duplicate \union {c} ELSE duplicate

\* DataManager::onIncomingDataObject
onIncomingDataObject ==
    /\ Handle("INCOMING")
    /\ events' = Tail(events)
    /\ duplicate' = Marked(Head(events).copy)
    /\ localBF' = localBF \union {Head(events).object}
    /\ IF Head(events).object \in localBF
          THEN UNCHANGED doBF
          ELSE IF periodic THEN doBF' = doBF \union {Head(events).object}
          ELSE setBloomfilter(localBF')
    /\ UNCHANGED <<rx, object, outcome, copies, helperVars, storeVars, news, kept, deletes, periodic>>

\* SecurityManager::onReceivedDataObject: a duplicate ends here.
onReceivedDuplicate ==
    /\ Handle("RECEIVED") /\ Head(events).copy \in duplicate
    /\ events' = Tail(events)
    /\ Settle(Head(events).copy, "duplicate")
    /\ UNCHANGED <<rx, object, duplicate, copies, filterVars, helperVars, storeVars,
                   news, kept, deletes, periodic>>

\* No signature is called for (by the security level, or for security requests
\* and responses), or the signature is checked by the helper, or it is missing
\* although one is called for.
onReceivedDataObject ==
    /\ Handle("RECEIVED") /\ Head(events).copy \notin duplicate
    /\ \/ /\ events' = Append(Tail(events), CopyEvent("VERIFIED", Head(events).copy))
          /\ UNCHANGED <<outcome, security>>
       \/ /\ security' = Append(security, Head(events).copy)
          /\ events' = Tail(events)
          /\ UNCHANGED outcome
       \/ /\ events' = Append(Tail(events), Deleted(Head(events).object, FALSE))
          /\ Settle(Head(events).copy, "refused")
          /\ UNCHANGED security
    /\ UNCHANGED <<rx, object, duplicate, copies, filterVars, helper, storeVars,
                   news, kept, deletes, periodic>>

\* Where payloads are encrypted, an object of another node that names an access
\* policy but brings no capability is dropped, without a DELETED event.
onReceivedWithoutCapability ==
    /\ Handle("RECEIVED") /\ Head(events).copy \notin duplicate
    /\ events' = Tail(events)
    /\ Settle(Head(events).copy, "withheld")
    /\ UNCHANGED <<rx, object, duplicate, copies, filterVars, helperVars, storeVars,
                   news, kept, deletes, periodic>>

\* The SecurityHelper thread and onSecurityTaskComplete.
onSecurityTaskComplete ==
    /\ security # <<>>
    /\ security' = Tail(security)
    /\ \/ Raise(CopyEvent("VERIFIED", Head(security))) /\ UNCHANGED outcome
       \/ Raise(Deleted(object[Head(security)], FALSE)) /\ Settle(Head(security), "refused")
    /\ UNCHANGED <<rx, object, duplicate, copies, filterVars, helper, storeVars,
                   news, kept, deletes, periodic>>

\* Faulty variant: the object is not passed on to the data store.
InsertTask_Missing(c) == UNCHANGED tasks

\* Faulty variant: a new task overtakes those already queued.
InsertTask_First(c) == tasks' = <<[op |-> "insert", copy |-> c,
                                   object |-> object[c], keep |-> FALSE]>> \o tasks

InsertTask(c) == tasks' = Append(tasks, [op |-> "insert", copy |-> c,
                                         object |-> object[c], keep |-> FALSE])

\* DataManager::onVerifiedDataObject: the data is verifiable and goes to the
\* helper, or there is no data to verify.
onVerifiedDataObject ==
    /\ Handle("VERIFIED")
    /\ events' = Tail(events)
    /\ \/ helper' = Append(helper, Head(events).copy) /\ UNCHANGED tasks
       \/ InsertTask(Head(events).copy) /\ UNCHANGED helper
    /\ UNCHANGED <<rx, copyVars, filterVars, security, store, news, kept, deletes, periodic>>

\* DataHelper::doTask
VerifyData ==
    /\ helper # <<>>
    /\ helper' = Tail(helper)
    /\ \/ Raise(CopyEvent("DATA_TASK", Head(helper))) /\ UNCHANGED outcome
       \/ Raise(Deleted(object[Head(helper)], FALSE)) /\ Settle(Head(helper), "refused")
    /\ UNCHANGED <<rx, object, duplicate, copies, filterVars, security, storeVars,
                   news, kept, deletes, periodic>>

onDataTaskComplete ==
    /\ Handle("DATA_TASK")
    /\ events' = Tail(events)
    /\ InsertTask(Head(events).copy)
    /\ UNCHANGED <<rx, copyVars, filterVars, helperVars, store, news, kept, deletes, periodic>>

Announced(c) == IF c \in duplicate THEN news ELSE news \union {c}

onInsertedDataObject ==
    /\ Handle("INSERTED")
    /\ events' = Tail(events)
    /\ news' = Announced(Head(events).copy)
    /\ UNCHANGED <<rx, copyVars, filterVars, helperVars, storeVars, kept, deletes, periodic>>

\* DataManager::onDeletedDataObject; the filter of this node is also replaced
\* when the object has no valid signature.
onDeletedDataObject ==
    LET o == Head(events).object
        removed == ~Head(events).keep /\ o \in localBF
    IN  /\ Handle("DELETED")
        /\ events' = Tail(events)
        /\ localBF' = IF removed THEN localBF \ {o} ELSE localBF
        /\ \E invalidSignature \in BOOLEAN :
               IF removed \/ invalidSignature
               THEN setBloomfilter(localBF') ELSE UNCHANGED doBF
        /\ kept' = IF Head(events).keep /\ o \in localBF THEN kept \union {o}
                   ELSE IF removed THEN kept \ {o} ELSE kept
        /\ UNCHANGED <<rx, copyVars, helperVars, storeVars, news, deletes, periodic>>

\* DataManager::onPeriodicBloomfilterUpdate
onPeriodicBloomfilterUpdate ==
    /\ periodic
    /\ doBF # localBF
    /\ setBloomfilter(localBF)
    /\ UNCHANGED <<rx, copyVars, localBF, events, helperVars, storeVars, news, kept, deletes, periodic>>

\* A manager (caching, applications) asks for a deletion.
deleteDataObject(o, keep) ==
    /\ deletes < MaxDeletes
    /\ deletes' = deletes + 1
    /\ tasks' = Append(tasks, [op |-> "delete", copy |-> NoCopy, object |-> o, keep |-> keep])
    /\ UNCHANGED <<rx, copyVars, filterVars, events, helperVars, store, news, kept, periodic>>

-----------------------------------------------------------------------------
(* The data store thread executes the first object task.                   *)

\* Faulty variant: an object that is already stored is not marked as such.
StoreMarks_Never(t) == duplicate

StoreMarks(t) == IF t.object \in store THEN duplicate \union {t.copy} ELSE duplicate

_insertDataObject ==
    /\ tasks # <<>> /\ Head(tasks).op = "insert"
    /\ tasks' = Tail(tasks)
    /\ store' = store \union {Head(tasks).object}
    /\ duplicate' = StoreMarks(Head(tasks))
    /\ Settle(Head(tasks).copy,
              IF Head(tasks).object \in store THEN "duplicate" ELSE "stored")
    /\ Raise(CopyEvent("INSERTED", Head(tasks).copy))
    /\ UNCHANGED <<rx, object, copies, filterVars, helperVars, news, kept, deletes, periodic>>

_deleteDataObject ==
    /\ tasks # <<>> /\ Head(tasks).op = "delete"
    /\ tasks' = Tail(tasks)
    /\ store' = store \ {Head(tasks).object}
    /\ IF Head(tasks).object \in store
          THEN Raise(Deleted(Head(tasks).object, Head(tasks).keep))
          ELSE UNCHANGED events
    /\ UNCHANGED <<rx, copyVars, filterVars, helperVars, news, kept, deletes, periodic>>

-----------------------------------------------------------------------------
Protocols == \E r \in Receivers :
    TestFilter(r) \/ Accept(r) \/ RaiseIncoming(r) \/ ReceiveDone(r) \/ ReceiveFails(r)

HandleEvent ==
    \/ onIncomingDataObject \/ onReceivedDuplicate \/ onReceivedDataObject
    \/ onReceivedWithoutCapability
    \/ onVerifiedDataObject \/ onDataTaskComplete \/ onInsertedDataObject
    \/ onDeletedDataObject

DataStoreRun == _insertDataObject \/ _deleteDataObject

Next ==
    \/ Protocols
    \/ HandleEvent \/ onPeriodicBloomfilterUpdate
    \/ \E o \in Objects, keep \in BOOLEAN : deleteDataObject(o, keep)
    \/ onSecurityTaskComplete \/ VerifyData
    \/ DataStoreRun

Spec == Init /\ [][Next]_vars

-----------------------------------------------------------------------------
(* Properties.                                                             *)

Event == [type : {"INCOMING", "RECEIVED", "VERIFIED", "DATA_TASK", "INSERTED", "DELETED"},
          copy : Copies \union {NoCopy}, object : Objects, keep : BOOLEAN]

\* Every variable has its type.
TypeOK ==
    /\ periodic \in BOOLEAN
    /\ rx \in [Receivers -> [pc : {"idle", "tested", "accepted", "receiving"},
                             copy : Copies \union {NoCopy}]]
    /\ object \in [Copies -> Objects]
    /\ outcome \in [Copies -> {"unused", "receiving", "acknowledged", "failed",
                               "duplicate", "refused", "withheld", "stored"}]
    /\ duplicate \subseteq Copies /\ copies \in 0..MaxCopies
    /\ doBF \subseteq Objects /\ localBF \subseteq Objects
    /\ events \in Seq(Event)
    /\ security \in Seq(Copies) /\ helper \in Seq(Copies)
    /\ tasks \in Seq([op : {"insert", "delete"}, copy : Copies \union {NoCopy},
                      object : Objects, keep : BOOLEAN])
    /\ store \subseteq Objects /\ news \subseteq Copies /\ kept \subseteq Objects
    /\ deletes \in 0..MaxDeletes

\* Nothing is under way: no transfer, no event, no task.
Quiet ==
    /\ \A r \in Receivers : rx[r].pc = "idle"
    /\ events = <<>> /\ security = <<>> /\ helper = <<>> /\ tasks = <<>>

\* The node does not refuse what it does not have: when nothing is under way,
\* an object in its filter is stored, was deleted with the request to keep it
\* in the filter, or was dropped for want of a capability.  A transfer that fails,
\* a bad signature, bad data and a deletion all take the object out again, in
\* whatever order they happen; that drop alone never does.
NoGhost ==
    Quiet => doBF \subseteq store \union kept
                            \union {object[c] : c \in {d \in Copies : outcome[d] = "withheld"}}

\* When nothing is under way both filters say the same, although the protocol
\* threads change one of them on their own and the other replaces it wholesale.
FiltersAgree == Quiet => doBF = localBF

\* DATAOBJECT_NEW is raised for the copies that entered the store and for no
\* other one, and for every one of them.
NewMeansStored ==
    /\ \A c \in news : outcome[c] = "stored"
    /\ Quiet => \A c \in Copies : outcome[c] = "stored" => c \in news

\* An object that is stored is in the filter, so that no peer sends it again.
StoredIsKnown == Quiet => store \subseteq doBF

\* Insertions and deletions reach the store in the order they were asked for.
Asked == [i \in 1..Len(tasks) |-> <<tasks[i].op, tasks[i].object>>]
Abstract == INSTANCE ObjectStore WITH Persistent <- Objects, pending <- Asked

\* The store used here is the one the data store thread implements.
UsesObjectStore == Abstract!Spec

\* A copy that was accepted does not get lost in the handlers: when nothing is
\* under way it failed, was stored, was found to be a duplicate, was refused or withheld,
\* even though its sender may have been told long before that it has arrived.
AcknowledgedIsSettled ==
    Quiet => \A c \in Copies : outcome[c] \notin {"receiving", "acknowledged"}

================================================================================
