------------------------------- MODULE DataStore -------------------------------
(***************************************************************************)
(* The data store thread of the Haggle kernel and its task queue           *)
(* (hagglekernel/DataStore.cpp), with the part of the in-memory store that *)
(* decides which data objects are held (MemoryDataStore.cpp).              *)
(*                                                                         *)
(* Managers run in the kernel thread and post tasks; each call holds the   *)
(* store's mutex from the insertion to the signal, so it is one step.  The *)
(* store thread takes the first task under the mutex and executes it after *)
(* unlocking.  The kernel's last act is dataStore->stop(): it raises the   *)
(* exit signal, then posts the exit task, then joins; these are separate   *)
(* steps because only the second one takes the store's mutex.              *)
(*                                                                         *)
(* Task types are grouped by what the queue does with them:                *)
(*   insert, delete  TASK_INSERT_DATAOBJECT, TASK_DELETE_DATAOBJECT[_BY_ID]*)
(*   update          the other high priority tasks: nodes, filters,        *)
(*                   repository writes, dumps, replacement queries, config *)
(*   query           TASK_DATAOBJECT[_FOR_NODES]_QUERY about a node        *)
(*   find            TASK_FILTER_QUERY, TASK_NODE_QUERY                    *)
(*   lookup          TASK_READ_REPOSITORY, TASK_RETRIEVE_NODE_BY_TYPE      *)
(*   age, exit       TASK_AGE_DATAOBJECTS, TASK_EXIT                       *)
(* A task carries the number of its posting, which stands for its          *)
(* timestamp: both are taken under the mutex and the clock is assumed not  *)
(* to step back.                                                           *)
(***************************************************************************)
EXTENDS Integers, Sequences, FiniteSets

CONSTANTS
    Objects,        \* data objects
    Persistent,     \* those with isPersistent()
    Nodes,          \* nodes queries are made for
    Kinds,          \* the kinds of tasks managers post in this instance
    MaxTasks,       \* bound: tasks posted
    MaxAgedAtOnce   \* DATASTORE_MAX_DATAOBJECTS_AGED_AT_ONCE

High   == {"insert", "delete", "update"}
Medium == {"query", "find", "lookup"}
Low    == {"age", "exit"}

NoSubject == "none"

ASSUME DataStoreAssumption ==
    /\ Persistent \subseteq Objects
    /\ Kinds \subseteq (High \union Medium \union Low) \ {"exit"}
    /\ MaxTasks \in Nat /\ MaxAgedAtOnce \in Nat \ {0}
    /\ NoSubject \notin Objects \union Nodes

VARIABLES
    queue,      \* DataStore::taskQ
    pc,         \* where the store thread is
    task,       \* the task it has taken off the queue
    signalled,  \* cond.signal() was called while the thread was waiting
    exitSignal, \* Thread::exitSignal
    kpc,        \* how far the kernel thread is in stopping the store
    posted,     \* tasks posted so far
    fate,       \* what became of each of them
    store,      \* the data objects held
    exited,     \* _exit() was called
    saved,      \* what it wrote to disk
    asked       \* history: insertions and deletions not carried out, in the order of the calls

threadVars == <<pc, task, signalled>>
stopVars   == <<kpc, exitSignal>>
saveVars   == <<exited, saved>>
vars == <<queue, threadVars, stopVars, posted, fate, store, saveVars, asked>>

Numbers  == 1..MaxTasks

Subjects(kind) ==
    IF kind \in {"insert", "delete"} THEN Objects
    ELSE IF kind = "query" THEN Nodes
    ELSE {NoSubject}

Task == [kind : High \union Medium \union Low,
         subject : Objects \union Nodes \union {NoSubject},
         n : 1..(MaxTasks + 1)]

Exit(n) == [kind |-> "exit", subject |-> NoSubject, n |-> n]

Init ==
    /\ queue = <<>> /\ pc = "top" /\ task = Exit(1) /\ signalled = FALSE
    /\ kpc = "running" /\ exitSignal = FALSE
    /\ posted = 0 /\ fate = [i \in Numbers |-> "unposted"]
    /\ store = {} /\ exited = FALSE /\ saved = {} /\ asked = <<>>

Priority(kind) == IF kind \in High THEN 0 ELSE IF kind \in Medium THEN 1 ELSE 2

-----------------------------------------------------------------------------
(* The task queue.                                                         *)

\* Faulty variant: only the priority decides, and a new task goes before equals.
Precedes_NoTimestamp(t, u) == Priority(t.kind) <= Priority(u.kind)

\* Faulty variant: the queue is a plain list.
Precedes_Never(t, u) == FALSE

\* The order TaskQueue::insert keeps.
Precedes(t, u) ==
    \/ Priority(t.kind) < Priority(u.kind)
    \/ Priority(t.kind) = Priority(u.kind) /\ t.n < u.n

\* TaskQueue::insert: the new task goes before the first one that it precedes.
Insert(t) ==
    \E i \in 1..(Len(queue) + 1) :
        /\ i <= Len(queue) => Precedes(t, queue[i])
        /\ \A j \in 1..(i - 1) : ~Precedes(t, queue[j])
        /\ queue' = [k \in 1..(Len(queue) + 1) |->
                        IF k < i THEN queue[k] ELSE IF k = i THEN t ELSE queue[k - 1]]

\* Faulty variant: a task is queued without waking the thread.
Signal_Missing == UNCHANGED signalled

Signal == signalled' = (signalled \/ pc = "waiting")

IsObjectTask(t) == t.kind \in {"insert", "delete"}

\* The calls insertDataObject, deleteDataObject, do...Query and the others.
Post(kind) ==
    /\ kpc = "running"
    /\ posted < MaxTasks
    /\ posted' = posted + 1
    /\ \E s \in Subjects(kind) :
           LET t == [kind |-> kind, subject |-> s, n |-> posted + 1]
           IN  /\ Insert(t)
               /\ asked' = IF IsObjectTask(t) THEN Append(asked, t) ELSE asked
    /\ fate' = [fate EXCEPT ![posted + 1] = "queued"]
    /\ Signal
    /\ UNCHANGED <<pc, task, stopVars, store, saveVars>>

Concerns(t, node) == t.kind = "query" /\ t.subject = node

\* What is left of the queue, in its order: the tasks at the positions at[1],
\* at[2], ..., which are those of the tasks that do not concern the node.
Erase(node) ==
    \E k \in 0..Len(queue) : \E at \in [1..k -> 1..Len(queue)] :
        /\ \A i, j \in 1..k : i < j => at[i] < at[j]
        /\ \A p \in 1..Len(queue) : (\E i \in 1..k : at[i] = p) <=> ~Concerns(queue[p], node)
        /\ queue' = [i \in 1..k |-> queue[at[i]]]

Erased(node) ==
    {i \in Numbers : \E p \in 1..Len(queue) : queue[p].n = i /\ Concerns(queue[p], node)}

\* The erased tasks are neither executed nor answered, and nobody is signalled.
cancelDataObjectQueries(node) ==
    /\ kpc = "running"
    /\ Erased(node) # {}
    /\ Erase(node)
    /\ fate' = [i \in Numbers |-> IF i \in Erased(node) THEN "cancelled" ELSE fate[i]]
    /\ UNCHANGED <<threadVars, stopVars, posted, store, saveVars, asked>>

-----------------------------------------------------------------------------
(* The store thread.                                                       *)

TakeFirst ==
    /\ task' = Head(queue)
    /\ queue' = Tail(queue)
    /\ pc' = "execute"

Take ==
    /\ pc = "top" /\ queue # <<>>
    /\ TakeFirst
    /\ UNCHANGED <<signalled, stopVars, posted, fate, store, saveVars, asked>>

Wait ==
    /\ pc = "top" /\ queue = <<>> /\ ~exitSignal
    /\ pc' = "waiting"
    /\ signalled' = FALSE
    /\ UNCHANGED <<queue, task, stopVars, posted, fate, store, saveVars, asked>>

\* The wait is not repeated: the front of the list is taken unconditionally.
\* Of an empty list, front() is memory that is no task, and run() follows it.
WakeUp ==
    /\ pc = "waiting" /\ signalled
    /\ signalled' = FALSE
    /\ \/ queue # <<>> /\ TakeFirst
       \/ queue = <<>> /\ pc' = "undefined" /\ UNCHANGED <<queue, task>>
    /\ UNCHANGED <<stopVars, posted, fate, store, saveVars, asked>>

\* Faulty variant: the thread leaves as soon as it is told to.
MayLeave_AtOnce == exitSignal

\* taskQ.empty() and shouldExit()
MayLeave == queue = <<>> /\ exitSignal

Leave ==
    /\ pc = "top" /\ MayLeave
    /\ pc' = "ended"
    /\ UNCHANGED <<queue, task, signalled, stopVars, posted, fate, store, saveVars, asked>>

InsertObject(o) == IF o \in Persistent THEN store \union {o} ELSE store \ {o}

DeleteObject(o) == store \ {o}

AgedStores == {s \in SUBSET store : Cardinality(store \ s) <= MaxAgedAtOnce}

Done(outcome) ==
    /\ pc' = "top"
    /\ fate' = [fate EXCEPT ![task.n] = outcome]
    /\ UNCHANGED <<queue, task, signalled, stopVars, posted>>

ExecuteInsert ==
    /\ pc = "execute" /\ task.kind = "insert"
    /\ store' = InsertObject(task.subject)
    /\ asked' = Tail(asked)
    /\ Done("executed") /\ UNCHANGED saveVars

ExecuteDelete ==
    /\ pc = "execute" /\ task.kind = "delete"
    /\ store' = DeleteObject(task.subject)
    /\ asked' = Tail(asked)
    /\ Done("executed") /\ UNCHANGED saveVars

ExecuteAge ==
    /\ pc = "execute" /\ task.kind = "age"
    /\ store' \in AgedStores
    /\ Done("executed") /\ UNCHANGED <<saveVars, asked>>

\* Queries that are still queued when the kernel stops are not made.
Skipped == exitSignal /\ task.kind \in {"query", "find"}

ExecuteOther ==
    /\ pc = "execute" /\ task.kind \in Medium \union {"update"}
    /\ Done(IF Skipped THEN "skipped" ELSE "executed")
    /\ UNCHANGED <<store, saveVars, asked>>

\* TASK_EXIT saves the store and does not end the loop: run() goes on until
\* the queue is empty.
ExecuteExit ==
    /\ pc = "execute" /\ task.kind = "exit"
    /\ exited' = TRUE /\ saved' = store
    /\ pc' = "top"
    /\ UNCHANGED <<queue, task, signalled, stopVars, posted, fate, store, asked>>

-----------------------------------------------------------------------------
(* HaggleKernel::run, after its loop: dataStore->stop().                   *)

RaiseExit ==
    /\ kpc = "running"
    /\ exitSignal' = TRUE
    /\ kpc' = "cancelling"
    /\ UNCHANGED <<queue, threadVars, posted, fate, store, saveVars, asked>>

\* Faulty variant: the exit task is queued but the thread is not woken.
hookCancel_NoSignal ==
    /\ kpc = "cancelling"
    /\ Insert(Exit(posted + 1))
    /\ kpc' = "joining"
    /\ UNCHANGED <<threadVars, exitSignal, posted, fate, store, saveVars, asked>>

\* Faulty variant: the exit task is put first.
hookCancel_First ==
    /\ kpc = "cancelling"
    /\ queue' = <<Exit(posted + 1)>> \o queue
    /\ Signal
    /\ kpc' = "joining"
    /\ UNCHANGED <<pc, task, exitSignal, posted, fate, store, saveVars, asked>>

hookCancel ==
    /\ kpc = "cancelling"
    /\ Insert(Exit(posted + 1))
    /\ Signal
    /\ kpc' = "joining"
    /\ UNCHANGED <<pc, task, exitSignal, posted, fate, store, saveVars, asked>>

Join ==
    /\ kpc = "joining" /\ pc = "ended"
    /\ kpc' = "stopped"
    /\ UNCHANGED <<queue, threadVars, exitSignal, posted, fate, store, saveVars, asked>>

-----------------------------------------------------------------------------
Kernel ==
    \/ \E k \in Kinds : Post(k)
    \/ \E n \in Nodes : cancelDataObjectQueries(n)
    \/ RaiseExit
    \/ hookCancel
    \/ Join

Thread ==
    \/ Take \/ Wait \/ WakeUp \/ Leave
    \/ ExecuteInsert \/ ExecuteDelete \/ ExecuteAge \/ ExecuteOther \/ ExecuteExit

Next == Kernel \/ Thread

Spec == Init /\ [][Next]_vars

\* The store thread is scheduled, and a kernel that has begun to stop the
\* store goes on; nothing makes the kernel stop.
FairSpec == Spec /\ WF_vars(Thread) /\ WF_vars(hookCancel) /\ WF_vars(Join)

-----------------------------------------------------------------------------
(* Properties.                                                             *)

\* Every variable has its type; only persistent objects are held and saved.
TypeOK ==
    /\ queue \in Seq(Task) /\ task \in Task
    /\ pc \in {"top", "waiting", "execute", "ended", "undefined"}
    /\ signalled \in BOOLEAN /\ exitSignal \in BOOLEAN
    /\ kpc \in {"running", "cancelling", "joining", "stopped"}
    /\ posted \in 0..MaxTasks
    /\ fate \in [Numbers -> {"unposted", "queued", "executed", "skipped", "cancelled"}]
    /\ store \in SUBSET Persistent
    /\ exited \in BOOLEAN /\ saved \in SUBSET Persistent /\ asked \in Seq(Task)

\* DataManager::onInsertedDataObject tells the other managers that a query
\* made through the task queue "will be processed after the insertion task".
\* When the store thread takes a task, every task still queued is less urgent,
\* or equally urgent and was posted later.
MostUrgentFirst ==
    [][pc' = "execute" /\ pc # "execute"
       => \A i \in 1..Len(queue') :
              \/ Priority(queue'[i].kind) > Priority(task'.kind)
              \/ /\ Priority(queue'[i].kind) = Priority(task'.kind)
                 /\ queue'[i].n > task'.n]_vars

\* What _exit() saves is what the store holds in the end: the exit task is
\* executed after everything posted before it, and nothing changes the store
\* after it.
SavedIsFinal == exited => saved = store /\ queue = <<>>

\* The thread does not leave tasks behind: when it has ended, every task the
\* managers posted was executed, was a query skipped or was cancelled.
Drained ==
    pc = "ended" => \A i \in 1..posted : fate[i] \in {"executed", "skipped", "cancelled"}

\* The insertions and deletions asked for and not carried out.
Operation(t) == <<t.kind, t.subject>>
Asked == [i \in 1..Len(asked) |-> Operation(asked[i])]

Abstract == INSTANCE ObjectStore WITH pending <- Asked, store <- store

\* The task queue and its thread implement the store of ObjectStore.
Implements == Abstract!Spec

\* A posted task is executed, skipped or cancelled in the end: no signal is
\* lost between the test of the queue and the wait.
EventuallyDone ==
    \A i \in Numbers :
        (fate[i] = "queued") ~> (fate[i] # "queued" \/ pc = "undefined")

\* stop() returns.
StopReturns == (kpc = "joining") ~> (kpc = "stopped" \/ pc = "undefined")

\* MemoryDataStore::_exit is "Called on shutdown" to persist the data objects.
SavedOnShutdown == kpc = "stopped" => saved = store

\* After "Waiting for task" there is a task.
WaitsForATask == pc # "undefined"

================================================================================
