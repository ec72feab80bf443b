---------------------------- MODULE DataStoreProofs ----------------------------
(***************************************************************************)
(* Proofs about the task queue and its thread for every number of tasks,   *)
(* objects and nodes: the queue is always sorted, the exit task is the     *)
(* last one, every task that was posted is in one place, and insertions    *)
(* and deletions are carried out in the order of the calls.                *)
(***************************************************************************)
EXTENDS DataStore, TLAPS

Stopping == {"joining", "stopped"}

\* The queue is in the order TaskQueue::insert keeps, which no two tasks share.
Sorted == \A i, j \in 1..Len(queue) : i < j => Precedes(queue[i], queue[j])

\* Numbers are given out in order; the exit task has the one after the last,
\* and it is queued by hookCancel only.
Numbered ==
    \A i \in 1..Len(queue) :
        IF queue[i].kind = "exit"
        THEN queue[i].n = posted + 1 /\ kpc \in Stopping
        ELSE queue[i].n \in 1..posted

\* The same for the task that is being executed.
TaskNumbered ==
    pc = "execute" =>
        IF task.kind = "exit"
        THEN task.n = posted + 1 /\ queue = <<>> /\ kpc \in Stopping
        ELSE task.n \in 1..posted

\* After the exit task there is no other one.
ExitOnce ==
    exited => saved = store /\ queue = <<>> /\ pc # "execute" /\ kpc \in Stopping

\* A task that is not done is queued or being executed.
Tracked ==
    \A i \in 1..posted :
        /\ fate[i] # "unposted"
        /\ fate[i] = "queued" =>
              \/ \E j \in 1..Len(queue) : queue[j].n = i
              \/ pc = "execute" /\ task.n = i

\* The thread ends, and the kernel goes on to stop it, once the signal is raised.
Ending ==
    /\ kpc = "running" <=> ~exitSignal
    /\ pc = "ended" => kpc # "running"
    /\ pc = "ended" => \A i \in 1..posted : fate[i] # "queued"

\* The insertions and deletions asked for are those queued or being executed, each
\* once, and the oldest of them is executed first.
InCallOrder ==
    /\ \A i, j \in 1..Len(asked) : i < j => asked[i].n < asked[j].n
    /\ \A i \in 1..Len(asked) : IsObjectTask(asked[i]) /\ asked[i].n \in 1..posted
    /\ \A i \in 1..Len(asked) :
          \/ \E j \in 1..Len(queue) : queue[j] = asked[i]
          \/ pc = "execute" /\ task = asked[i]
    /\ \A j \in 1..Len(queue) : IsObjectTask(queue[j]) => \E i \in 1..Len(asked) : asked[i] = queue[j]
    /\ pc = "execute" => \A j \in 1..Len(queue) : queue[j] # task
    /\ pc = "execute" /\ IsObjectTask(task) => asked # <<>> /\ Head(asked) = task

IInv == TypeOK /\ Sorted /\ Numbered /\ TaskNumbered /\ ExitOnce /\ Tracked /\ Ending
-----------------------------------------------------------------------------
(* The queue.                                                              *)

\* The order of tasks is transitive.
LEMMA PrecedesTransitive ==
    ASSUME NEW t \in Task, NEW u \in Task, NEW v \in Task, Precedes(t, u), Precedes(u, v)
    PROVE  Precedes(t, v)
<1>1. t.n \in Int /\ u.n \in Int /\ v.n \in Int
  BY DataStoreAssumption DEF Task
<1>2. Priority(t.kind) \in Int /\ Priority(u.kind) \in Int /\ Priority(v.kind) \in Int
  BY DEF Priority
<1> QED  BY <1>1, <1>2 DEF Precedes

\* Of two tasks with different numbers, one precedes the other.
LEMMA PrecedesTotal ==
    ASSUME NEW t \in Task, NEW u \in Task, t.n > u.n, ~Precedes(t, u)
    PROVE  Precedes(u, t)
<1>1. t.n \in Int /\ u.n \in Int
  BY DataStoreAssumption DEF Task
<1>2. Priority(t.kind) \in Int /\ Priority(u.kind) \in Int
  BY DEF Priority
<1> QED  BY <1>1, <1>2 DEF Precedes

\* TaskQueue::insert adds one task, loses none and keeps the order.
LEMMA InsertKeepsOrder ==
    ASSUME queue \in Seq(Task), Sorted, NEW t \in Task,
           \A i \in 1..Len(queue) : queue[i].n < t.n,
           Insert(t)
    PROVE  /\ queue' \in Seq(Task)
           /\ Sorted'
           /\ \A k \in 1..Len(queue') : queue'[k] = t \/ \E j \in 1..Len(queue) : queue'[k] = queue[j]
           /\ \A j \in 1..Len(queue) : \E k \in 1..Len(queue') : queue'[k] = queue[j]
           /\ \E k \in 1..Len(queue') : queue'[k] = t
<1>1. PICK i \in 1..(Len(queue) + 1) :
        /\ i <= Len(queue) => Precedes(t, queue[i])
        /\ \A j \in 1..(i - 1) : ~Precedes(t, queue[j])
        /\ queue' = [k \in 1..(Len(queue) + 1) |->
                        IF k < i THEN queue[k] ELSE IF k = i THEN t ELSE queue[k - 1]]
  BY DEF Insert
<1>2. Len(queue) \in Nat /\ i \in Nat
  OBVIOUS
<1>3. \A k \in 1..Len(queue) : queue[k] \in Task
  OBVIOUS
<1>4. \A k \in 1..(Len(queue) + 1) : queue'[k] = IF k < i THEN queue[k] ELSE IF k = i THEN t ELSE queue[k - 1]
  BY <1>1
<1>5. queue' \in Seq(Task) /\ Len(queue') = Len(queue) + 1
  <2>1. \A k \in 1..(Len(queue) + 1) : queue'[k] \in Task
    BY <1>2, <1>3, <1>4
  <2> QED  BY <1>1, <1>2, <2>1
<1>6. \A k \in 1..(i - 1) : Precedes(queue[k], t)
  BY <1>1, <1>2, <1>3, PrecedesTotal
<1>7. \A k \in i..Len(queue) : Precedes(t, queue[k])
  BY <1>1, <1>2, <1>3, PrecedesTransitive DEF Sorted
<1>8. Sorted'
  <2> SUFFICES ASSUME NEW a \in 1..(Len(queue) + 1), NEW b \in 1..(Len(queue) + 1), a < b
               PROVE  Precedes(queue'[a], queue'[b])
    BY <1>5 DEF Sorted, Precedes
  <2>1. CASE b < i
    BY <2>1, <1>2, <1>4 DEF Sorted
  <2>2. CASE b = i
    BY <2>2, <1>2, <1>4, <1>6
  <2>3. CASE b > i /\ a = i
    BY <2>3, <1>2, <1>4, <1>7
  <2>4. CASE b > i /\ a < i
    <3>1. a \in 1..Len(queue) /\ b - 1 \in 1..Len(queue) /\ a < b - 1
      BY <2>4, <1>2
    <3>2. queue'[a] = queue[a] /\ queue'[b] = queue[b - 1]
      BY <2>4, <1>2, <1>4
    <3> QED  BY <3>1, <3>2 DEF Sorted
  <2>5. CASE a > i
    <3>1. a - 1 \in 1..Len(queue) /\ b - 1 \in 1..Len(queue) /\ a - 1 < b - 1
      BY <2>5, <1>2
    <3>2. queue'[a] = queue[a - 1] /\ queue'[b] = queue[b - 1]
      BY <2>5, <1>2, <1>4
    <3> QED  BY <3>1, <3>2 DEF Sorted
  <2> QED  BY <2>1, <2>2, <2>3, <2>4, <2>5, <1>2
<1>9. \A k \in 1..Len(queue') : queue'[k] = t \/ \E j \in 1..Len(queue) : queue'[k] = queue[j]
  <2> SUFFICES ASSUME NEW k \in 1..(Len(queue) + 1), k # i
               PROVE  \E j \in 1..Len(queue) : queue'[k] = queue[j]
    BY <1>2, <1>4, <1>5
  <2>1. CASE k < i
    BY <2>1, <1>2, <1>4
  <2>2. CASE k > i
    <3>1. k - 1 \in 1..Len(queue) /\ queue'[k] = queue[k - 1]
      BY <2>2, <1>2, <1>4
    <3> QED  BY <3>1
  <2> QED  BY <2>1, <2>2, <1>2
<1>10. \A j \in 1..Len(queue) : \E k \in 1..Len(queue') : queue'[k] = queue[j]
  <2> TAKE j \in 1..Len(queue)
  <2>1. CASE j < i
    BY <2>1, <1>2, <1>4, <1>5
  <2>2. CASE j >= i
    <3>1. j + 1 \in 1..(Len(queue) + 1) /\ queue'[j + 1] = queue[j]
      BY <2>2, <1>2, <1>4
    <3> QED  BY <3>1, <1>5
  <2> QED  BY <2>1, <2>2, <1>2
<1>11. \E k \in 1..Len(queue') : queue'[k] = t
  BY <1>2, <1>4, <1>5
<1> QED  BY <1>5, <1>8, <1>9, <1>10, <1>11

\* Taking the first task keeps the order, and the task taken precedes the rest.
LEMMA TakeKeepsOrder ==
    ASSUME queue \in Seq(Task), queue # <<>>, Sorted, queue' = Tail(queue)
    PROVE  /\ queue' \in Seq(Task)
           /\ Len(queue') = Len(queue) - 1
           /\ Sorted'
           /\ \A k \in 1..Len(queue') : k + 1 \in 1..Len(queue) /\ queue'[k] = queue[k + 1]
           /\ \A k \in 1..Len(queue') : Precedes(Head(queue), queue'[k])
           /\ Head(queue) = queue[1] /\ 1 \in 1..Len(queue) /\ Head(queue) \in Task
<1>1. Len(queue) \in Nat \ {0} /\ Len(queue') = Len(queue) - 1 /\ queue' \in Seq(Task)
  OBVIOUS
<1>2. \A k \in 1..Len(queue') : k + 1 \in 1..Len(queue) /\ queue'[k] = queue[k + 1]
  BY <1>1
<1>3. Head(queue) = queue[1] /\ 1 \in 1..Len(queue) /\ Head(queue) \in Task
  BY <1>1
<1>4. Sorted'
  <2> SUFFICES ASSUME NEW a \in 1..Len(queue'), NEW b \in 1..Len(queue'), a < b
               PROVE  Precedes(queue'[a], queue'[b])
    BY DEF Sorted, Precedes
  <2>1. a + 1 < b + 1
    BY <1>1
  <2> QED  BY <1>2, <2>1 DEF Sorted
<1>5. \A k \in 1..Len(queue') : Precedes(Head(queue), queue'[k])
  <2> TAKE k \in 1..Len(queue')
  <2>1. 1 < k + 1
    BY <1>1
  <2> QED  BY <1>2, <1>3, <2>1 DEF Sorted
<1> QED  BY <1>1, <1>2, <1>3, <1>4, <1>5

\* cancelDataObjectQueries keeps the order, and every task it does not erase.
LEMMA EraseKeepsOrder ==
    ASSUME queue \in Seq(Task), Sorted, NEW node, Erase(node)
    PROVE  /\ queue' \in Seq(Task)
           /\ Sorted'
           /\ \A k \in 1..Len(queue') : \E j \in 1..Len(queue) : queue'[k] = queue[j]
           /\ \A j \in 1..Len(queue) :
                 ~Concerns(queue[j], node) => \E k \in 1..Len(queue') : queue'[k] = queue[j]
<1>0. PICK k \in 0..Len(queue) : \E at \in [1..k -> 1..Len(queue)] :
        /\ \A i, j \in 1..k : i < j => at[i] < at[j]
        /\ \A p \in 1..Len(queue) : (\E i \in 1..k : at[i] = p) <=> ~Concerns(queue[p], node)
        /\ queue' = [i \in 1..k |-> queue[at[i]]]
  BY DEF Erase
<1>1. PICK at \in [1..k -> 1..Len(queue)] :
        /\ \A i, j \in 1..k : i < j => at[i] < at[j]
        /\ \A p \in 1..Len(queue) : (\E i \in 1..k : at[i] = p) <=> ~Concerns(queue[p], node)
        /\ queue' = [i \in 1..k |-> queue[at[i]]]
  BY <1>0
<1>2. k \in Nat /\ \A i \in 1..k : at[i] \in 1..Len(queue) /\ queue[at[i]] \in Task
  OBVIOUS
<1>3. queue' \in Seq(Task) /\ Len(queue') = k
  BY <1>1, <1>2
<1>4. \A i \in 1..k : queue'[i] = queue[at[i]]
  BY <1>1
<1>5. Sorted'
  <2> SUFFICES ASSUME NEW a \in 1..k, NEW b \in 1..k, a < b
               PROVE  Precedes(queue'[a], queue'[b])
    BY <1>3 DEF Sorted, Precedes
  <2>1. at[a] < at[b]
    BY <1>1
  <2> QED  BY <2>1, <1>2, <1>4 DEF Sorted
<1>6. \A i \in 1..Len(queue') : \E j \in 1..Len(queue) : queue'[i] = queue[j]
  BY <1>2, <1>3, <1>4
<1>7. ASSUME NEW j \in 1..Len(queue), ~Concerns(queue[j], node)
      PROVE  \E i \in 1..Len(queue') : queue'[i] = queue[j]
  <2>1. PICK i \in 1..k : at[i] = j
    BY <1>1, <1>7
  <2> QED  BY <2>1, <1>3, <1>4
<1> QED  BY <1>3, <1>5, <1>6, <1>7

-----------------------------------------------------------------------------
(* The inductive invariant.                                                *)

USE DEF Stopping, Numbers

\* The invariant holds when the store thread starts.
LEMMA InitIInv == Init => IInv
<1> SUFFICES ASSUME Init PROVE IInv
  OBVIOUS
<1>1. Exit(1) \in Task
  BY DataStoreAssumption DEF Exit, Task, Low
<1>2. TypeOK
  <2>1. queue \in Seq(Task) /\ posted \in 0..MaxTasks
    BY DataStoreAssumption DEF Init
  <2>2. fate \in [Numbers -> {"unposted", "queued", "executed", "skipped", "cancelled"}]
    BY DEF Init
  <2> QED  BY <1>1, <2>1, <2>2 DEF Init, TypeOK
<1> QED
  BY <1>2 DEF Init, IInv, Sorted, Numbered, TaskNumbered, ExitOnce, Tracked, Ending

\* Facts about a task that is inserted, common to Post and hookCancel.
LEMMA NewTask ==
    ASSUME IInv, kpc \in {"running", "cancelling"}
    PROVE  /\ posted \in Nat /\ MaxTasks \in Nat /\ posted <= MaxTasks
           /\ \A i \in 1..Len(queue) : queue[i] \in Task
           /\ \A i \in 1..Len(queue) : queue[i].kind # "exit"
           /\ \A i \in 1..Len(queue) : queue[i].n \in 1..posted
           /\ \A i \in 1..Len(queue) : queue[i].n < posted + 1
           /\ ~exited
           /\ pc = "execute" => task.kind # "exit" /\ task.n \in 1..posted
<1>1. posted \in Nat /\ MaxTasks \in Nat /\ posted <= MaxTasks
  BY DataStoreAssumption DEF IInv, TypeOK
<1>2. \A i \in 1..Len(queue) : queue[i] \in Task
  BY DEF IInv, TypeOK
<1>3. \A i \in 1..Len(queue) : queue[i].kind # "exit" /\ queue[i].n \in 1..posted
  BY DEF IInv, Numbered
<1>4. \A i \in 1..Len(queue) : queue[i].n < posted + 1
  BY <1>1, <1>3
<1>5. ~exited
  BY DEF IInv, ExitOnce
<1>6. pc = "execute" => task.kind # "exit" /\ task.n \in 1..posted
  BY DEF IInv, TaskNumbered
<1> QED  BY <1>1, <1>2, <1>3, <1>4, <1>5, <1>6

\* insertDataObject, deleteDataObject, do...Query and the other posting calls.
LEMMA PostKeeps ==
    ASSUME IInv, NEW kind \in Kinds, Post(kind)
    PROVE  IInv'
<1>1. PICK s \in Subjects(kind) :
        LET t == [kind |-> kind, subject |-> s, n |-> posted + 1]
        IN  Insert(t) /\ asked' = IF IsObjectTask(t) THEN Append(asked, t) ELSE asked
  BY DEF Post
<1> DEFINE t == [kind |-> kind, subject |-> s, n |-> posted + 1]
<1>2. /\ kpc = "running" /\ kpc' = kpc /\ exitSignal' = exitSignal
      /\ posted < MaxTasks /\ posted' = posted + 1
      /\ fate' = [fate EXCEPT ![posted + 1] = "queued"]
      /\ signalled' = (signalled \/ pc = "waiting")
      /\ pc' = pc /\ task' = task /\ store' = store /\ exited' = exited /\ saved' = saved
  BY DEF Post, Signal, stopVars, saveVars
<1>3. TypeOK /\ Sorted /\ Numbered /\ TaskNumbered /\ ExitOnce /\ Tracked /\ Ending
  BY DEF IInv
<1>4. /\ posted \in Nat /\ MaxTasks \in Nat /\ posted + 1 \in 1..MaxTasks
      /\ \A i \in 1..Len(queue) : queue[i].n \in 1..posted /\ queue[i].kind # "exit"
      /\ \A i \in 1..Len(queue) : queue[i].n < posted + 1
      /\ ~exited
      /\ pc = "execute" => task.kind # "exit" /\ task.n \in 1..posted
  BY <1>2, NewTask
<1>5. kind \in (High \union Medium \union Low) \ {"exit"}
  BY DataStoreAssumption
<1>6. t \in Task /\ t.n = posted + 1 /\ t.kind # "exit"
  <2>1. s \in Objects \union Nodes \union {NoSubject}
    BY DEF Subjects
  <2> QED  BY <2>1, <1>4, <1>5 DEF Task
<1> HIDE DEF t
<1>7. Insert(t) /\ asked' = IF IsObjectTask(t) THEN Append(asked, t) ELSE asked
  BY <1>1 DEF t
<1>8. /\ queue' \in Seq(Task) /\ Sorted'
      /\ \A k \in 1..Len(queue') : queue'[k] = t \/ \E j \in 1..Len(queue) : queue'[k] = queue[j]
      /\ \A j \in 1..Len(queue) : \E k \in 1..Len(queue') : queue'[k] = queue[j]
      /\ \E k \in 1..Len(queue') : queue'[k] = t
  <2>1. queue \in Seq(Task)
    BY <1>3 DEF TypeOK
  <2>2. \A i \in 1..Len(queue) : queue[i].n < t.n
    BY <1>4, <1>6
  <2> QED  BY <2>1, <2>2, <1>3, <1>6, <1>7, InsertKeepsOrder
<1>9. TypeOK'
  <2>1. asked' \in Seq(Task)
    BY <1>3, <1>6, <1>7 DEF TypeOK
  <2> QED  BY <2>1, <1>2, <1>3, <1>4, <1>8 DEF TypeOK
<1>10. Numbered'
  <2>1. 1..posted \subseteq 1..(posted + 1) /\ posted + 1 \in 1..(posted + 1)
    BY <1>4
  <2>2. \A k \in 1..Len(queue') : queue'[k].kind # "exit" /\ queue'[k].n \in 1..(posted + 1)
    BY <1>4, <1>6, <1>8, <2>1
  <2> QED  BY <2>2, <1>2 DEF Numbered
<1>11. TaskNumbered'
  BY <1>2, <1>4 DEF TaskNumbered
<1>12. ExitOnce'
  BY <1>2, <1>4 DEF ExitOnce
<1>13. Tracked'
  <2> SUFFICES ASSUME NEW i \in 1..(posted + 1)
               PROVE  /\ fate'[i] # "unposted"
                      /\ fate'[i] = "queued" =>
                            \/ \E j \in 1..Len(queue') : queue'[j].n = i
                            \/ pc' = "execute" /\ task'.n = i
    BY <1>2 DEF Tracked
  <2>1. CASE i = posted + 1
    <3>1. fate'[i] = "queued"
      BY <2>1, <1>2, <1>3, <1>4 DEF TypeOK
    <3> QED  BY <3>1, <2>1, <1>6, <1>8
  <2>2. CASE i # posted + 1
    <3>1. i \in 1..posted /\ i \in 1..MaxTasks
      BY <2>2, <1>4
    <3>2. fate'[i] = fate[i]
      BY <2>2, <3>1, <1>2, <1>3 DEF TypeOK
    <3>3. (\E j \in 1..Len(queue) : queue[j].n = i) => \E j \in 1..Len(queue') : queue'[j].n = i
      BY <1>8
    <3> QED  BY <3>1, <3>2, <3>3, <1>2, <1>3 DEF Tracked
  <2> QED  BY <2>1, <2>2
<1>14. Ending'
  BY <1>2, <1>3 DEF Ending
<1> QED  BY <1>8, <1>9, <1>10, <1>11, <1>12, <1>13, <1>14 DEF IInv

\* cancelDataObjectQueries.
LEMMA CancelKeeps ==
    ASSUME IInv, NEW node \in Nodes, cancelDataObjectQueries(node)
    PROVE  IInv'
<1>1. /\ kpc = "running" /\ Erase(node)
      /\ fate' = [i \in Numbers |-> IF i \in Erased(node) THEN "cancelled" ELSE fate[i]]
      /\ pc' = pc /\ task' = task /\ signalled' = signalled /\ kpc' = kpc /\ exitSignal' = exitSignal
      /\ posted' = posted /\ store' = store /\ exited' = exited /\ saved' = saved /\ asked' = asked
  BY DEF cancelDataObjectQueries, threadVars, stopVars, saveVars
<1>2. TypeOK /\ Sorted /\ Numbered /\ TaskNumbered /\ ExitOnce /\ Tracked /\ Ending
  BY DEF IInv
<1>3. /\ posted \in Nat /\ MaxTasks \in Nat /\ posted <= MaxTasks /\ ~exited
      /\ \A i \in 1..Len(queue) : queue[i].n \in 1..posted /\ queue[i].kind # "exit"
      /\ pc = "execute" => task.kind # "exit" /\ task.n \in 1..posted
  BY <1>1, NewTask
<1>4. /\ queue' \in Seq(Task) /\ Sorted'
      /\ \A k \in 1..Len(queue') : \E j \in 1..Len(queue) : queue'[k] = queue[j]
      /\ \A j \in 1..Len(queue) :
            ~Concerns(queue[j], node) => \E k \in 1..Len(queue') : queue'[k] = queue[j]
  BY <1>1, <1>2, EraseKeepsOrder DEF TypeOK
<1>5. TypeOK'
  BY <1>1, <1>2, <1>4 DEF TypeOK
<1>6. Numbered' /\ TaskNumbered' /\ ExitOnce'
  BY <1>1, <1>3, <1>4 DEF Numbered, TaskNumbered, ExitOnce
<1>7. Tracked'
  <2> SUFFICES ASSUME NEW i \in 1..posted
               PROVE  /\ fate'[i] # "unposted"
                      /\ fate'[i] = "queued" =>
                            \/ \E j \in 1..Len(queue') : queue'[j].n = i
                            \/ pc' = "execute" /\ task'.n = i
    BY <1>1 DEF Tracked
  <2>1. i \in Numbers
    BY <1>3
  <2>2. CASE i \in Erased(node)
    BY <2>1, <2>2, <1>1
  <2>3. CASE i \notin Erased(node)
    <3>1. fate'[i] = fate[i]
      BY <2>1, <2>3, <1>1
    <3>2. (\E j \in 1..Len(queue) : queue[j].n = i) => \E j \in 1..Len(queue') : queue'[j].n = i
      BY <2>1, <2>3, <1>4 DEF Erased
    <3> QED  BY <3>1, <3>2, <1>1, <1>2 DEF Tracked
  <2> QED  BY <2>2, <2>3
<1>8. Ending'
  BY <1>1, <1>2 DEF Ending
<1> QED  BY <1>4, <1>5, <1>6, <1>7, <1>8 DEF IInv

\* The exit task is queued behind everything else.
LEMMA HookCancelKeeps ==
    ASSUME IInv, hookCancel
    PROVE  IInv'
<1> DEFINE t == Exit(posted + 1)
<1>1. /\ kpc = "cancelling" /\ kpc' = "joining" /\ exitSignal' = exitSignal
      /\ Insert(t)
      /\ signalled' = (signalled \/ pc = "waiting")
      /\ pc' = pc /\ task' = task /\ posted' = posted /\ fate' = fate
      /\ store' = store /\ exited' = exited /\ saved' = saved /\ asked' = asked
  BY DEF hookCancel, Signal, saveVars
<1>2. TypeOK /\ Sorted /\ Numbered /\ TaskNumbered /\ ExitOnce /\ Tracked /\ Ending
  BY DEF IInv
<1>3. /\ posted \in Nat /\ MaxTasks \in Nat /\ posted <= MaxTasks /\ ~exited
      /\ \A i \in 1..Len(queue) : queue[i].n \in 1..posted /\ queue[i].kind # "exit"
      /\ \A i \in 1..Len(queue) : queue[i].n < posted + 1
      /\ pc = "execute" => task.kind # "exit" /\ task.n \in 1..posted
  BY <1>1, NewTask
<1>4. t \in Task /\ t.n = posted + 1 /\ t.kind = "exit"
  BY <1>3 DEF Exit, Task, Low
<1> HIDE DEF t
<1>5. /\ queue' \in Seq(Task) /\ Sorted'
      /\ \A k \in 1..Len(queue') : queue'[k] = t \/ \E j \in 1..Len(queue) : queue'[k] = queue[j]
      /\ \A j \in 1..Len(queue) : \E k \in 1..Len(queue') : queue'[k] = queue[j]
  <2>1. queue \in Seq(Task)
    BY <1>2 DEF TypeOK
  <2>2. \A i \in 1..Len(queue) : queue[i].n < t.n
    BY <1>3, <1>4
  <2> QED  BY <2>1, <2>2, <1>1, <1>2, <1>4, InsertKeepsOrder
<1>6. TypeOK'
  BY <1>1, <1>2, <1>5 DEF TypeOK
<1>7. Numbered' /\ TaskNumbered' /\ ExitOnce'
  BY <1>1, <1>3, <1>4, <1>5 DEF Numbered, TaskNumbered, ExitOnce
<1>8. Tracked'
  <2>1. \A i \in 1..posted :
          (\E j \in 1..Len(queue) : queue[j].n = i) => \E j \in 1..Len(queue') : queue'[j].n = i
    BY <1>5
  <2> QED  BY <2>1, <1>1, <1>2 DEF Tracked
<1>9. Ending'
  BY <1>1, <1>2 DEF Ending
<1> QED  BY <1>5, <1>6, <1>7, <1>8, <1>9 DEF IInv

\* Take, and WakeUp when there is a task.
LEMMA TakeFirstKeeps ==
    ASSUME IInv, queue # <<>>, TakeFirst, pc # "execute", pc # "ended", signalled' \in BOOLEAN,
           UNCHANGED <<stopVars, posted, fate, store, saveVars, asked>>
    PROVE  IInv'
<1>1. /\ task' = Head(queue) /\ queue' = Tail(queue) /\ pc' = "execute"
      /\ kpc' = kpc /\ exitSignal' = exitSignal /\ posted' = posted /\ fate' = fate
      /\ store' = store /\ exited' = exited /\ saved' = saved /\ asked' = asked
  BY DEF TakeFirst, stopVars, saveVars
<1>2. TypeOK /\ Sorted /\ Numbered /\ TaskNumbered /\ ExitOnce /\ Tracked /\ Ending
  BY DEF IInv
<1>3. /\ queue' \in Seq(Task) /\ Len(queue') = Len(queue) - 1 /\ Sorted'
      /\ \A k \in 1..Len(queue') : k + 1 \in 1..Len(queue) /\ queue'[k] = queue[k + 1]
      /\ \A k \in 1..Len(queue') : Precedes(Head(queue), queue'[k])
      /\ Head(queue) = queue[1] /\ 1 \in 1..Len(queue) /\ Head(queue) \in Task
  BY <1>1, <1>2, TakeKeepsOrder DEF TypeOK
<1>4. Len(queue) \in Nat /\ posted \in Nat
  BY <1>2 DEF TypeOK
<1>5. TypeOK'
  BY <1>1, <1>2, <1>3 DEF TypeOK
<1>6. Numbered'
  BY <1>1, <1>2, <1>3 DEF Numbered
<1>7. TaskNumbered'
  <2>1. CASE task'.kind # "exit"
    BY <2>1, <1>1, <1>2, <1>3 DEF Numbered, TaskNumbered
  <2>2. CASE task'.kind = "exit"
    <3>1. task'.n = posted + 1 /\ kpc \in Stopping
      BY <2>2, <1>1, <1>2, <1>3 DEF Numbered
    <3>2. \A k \in 1..Len(queue') : queue'[k].n \in 1..(posted + 1)
      <4>1. 1..posted \subseteq 1..(posted + 1) /\ posted + 1 \in 1..(posted + 1)
        BY <1>4
      <4>2. \A k \in 1..Len(queue) : queue[k].n \in 1..(posted + 1)
        BY <4>1, <1>2 DEF Numbered
      <4> QED  BY <4>2, <1>3
    <3>3. \A k \in 1..Len(queue') : ~Precedes(task', queue'[k])
      <4> TAKE k \in 1..Len(queue')
      <4>1. ~(task'.n < queue'[k].n)
        BY <3>1, <3>2, <1>4
      <4>2. ~(Priority(task'.kind) < Priority(queue'[k].kind))
        BY <2>2 DEF Priority, High, Medium
      <4> QED  BY <4>1, <4>2 DEF Precedes
    <3>4. Len(queue') = 0
      <4>1. ~(1 \in 1..Len(queue'))
        BY <3>3, <1>1, <1>3
      <4> QED  BY <4>1, <1>3, <1>4
    <3>5. queue' = <<>>
      BY <3>4, <1>3
    <3> QED  BY <2>2, <3>1, <3>5, <1>1 DEF TaskNumbered
  <2> QED  BY <2>1, <2>2
<1>8. ExitOnce'
  BY <1>1, <1>2 DEF ExitOnce
<1>9. Tracked'
  <2> SUFFICES ASSUME NEW i \in 1..posted
               PROVE  /\ fate'[i] # "unposted"
                      /\ fate'[i] = "queued" =>
                            \/ \E j \in 1..Len(queue') : queue'[j].n = i
                            \/ pc' = "execute" /\ task'.n = i
    BY <1>1 DEF Tracked
  <2>1. ASSUME NEW j \in 1..Len(queue), queue[j].n = i
        PROVE  task'.n = i \/ \E k \in 1..Len(queue') : queue'[k].n = i
    <3>1. CASE j = 1
      BY <3>1, <2>1, <1>1, <1>3
    <3>2. CASE j # 1
      <4>1. j - 1 \in 1..Len(queue') /\ (j - 1) + 1 = j
        BY <3>2, <1>3, <1>4
      <4>2. queue'[j - 1] = queue[j]
        BY <4>1, <1>3
      <4> QED  BY <4>1, <4>2, <2>1
    <3> QED  BY <3>1, <3>2
  <2> QED  BY <2>1, <1>1, <1>2 DEF Tracked
<1>10. Ending'
  BY <1>1, <1>2 DEF Ending
<1> QED  BY <1>3, <1>5, <1>6, <1>7, <1>8, <1>9, <1>10 DEF IInv

\* Steps that move only the two threads and the signals.
LEMMA MoveKeeps ==
    ASSUME IInv, UNCHANGED <<queue, task, posted, fate, store, saveVars, asked>>,
           signalled' \in BOOLEAN, exitSignal' \in BOOLEAN,
           pc' \in {pc, "waiting", "undefined", "ended"},
           pc' # "execute" => pc # "execute" \/ pc' = pc,
           kpc' \in {"running", "cancelling", "joining", "stopped"},
           kpc \in Stopping => kpc' \in Stopping,
           (kpc' = "running") <=> ~exitSignal',
           pc' = "ended" => kpc' # "running",
           pc' = "ended" => pc = "ended" \/ queue = <<>>
    PROVE  IInv'
<1>1. TypeOK /\ Sorted /\ Numbered /\ TaskNumbered /\ ExitOnce /\ Tracked /\ Ending
  BY DEF IInv
<1>2. /\ queue' = queue /\ task' = task /\ posted' = posted /\ fate' = fate
      /\ store' = store /\ exited' = exited /\ saved' = saved /\ asked' = asked
  BY DEF saveVars
<1>3. TypeOK' /\ Sorted'
  BY <1>1, <1>2 DEF TypeOK, Sorted, Precedes
<1>4. Numbered' /\ TaskNumbered' /\ ExitOnce'
  BY <1>1, <1>2 DEF Numbered, TaskNumbered, ExitOnce
<1>5. Tracked'
  BY <1>1, <1>2 DEF Tracked
<1>6. Ending'
  <2>1. queue = <<>> => Len(queue) = 0
    OBVIOUS
  <2>2. pc' = "ended" => \A i \in 1..posted : fate[i] # "queued"
    BY <2>1, <1>1 DEF Ending, Tracked
  <2> QED  BY <2>2, <1>2 DEF Ending
<1> QED  BY <1>3, <1>4, <1>5, <1>6 DEF IInv

\* The tasks managers post.
LEMMA DoneKeeps ==
    ASSUME IInv, pc = "execute", task.kind # "exit",
           NEW outcome \in {"executed", "skipped"}, Done(outcome),
           store' \in SUBSET Persistent, asked' \in Seq(Task), UNCHANGED saveVars
    PROVE  IInv'
<1>1. /\ pc' = "top" /\ fate' = [fate EXCEPT ![task.n] = outcome]
      /\ queue' = queue /\ task' = task /\ signalled' = signalled
      /\ kpc' = kpc /\ exitSignal' = exitSignal /\ posted' = posted
      /\ exited' = exited /\ saved' = saved
  BY DEF Done, stopVars, saveVars
<1>2. TypeOK /\ Sorted /\ Numbered /\ TaskNumbered /\ ExitOnce /\ Tracked /\ Ending
  BY DEF IInv
<1>3. task.n \in 1..posted
  BY <1>2 DEF TaskNumbered
<1>4. 1..posted \subseteq Numbers
  BY <1>2, DataStoreAssumption DEF TypeOK
<1>5. TypeOK'
  BY <1>1, <1>2, <1>3, <1>4 DEF TypeOK
<1>6. Sorted'
  BY <1>1, <1>2 DEF Sorted, Precedes
<1>7. Numbered' /\ TaskNumbered' /\ ExitOnce'
  BY <1>1, <1>2 DEF Numbered, TaskNumbered, ExitOnce
<1>8. Tracked'
  <2> SUFFICES ASSUME NEW i \in 1..posted
               PROVE  /\ fate'[i] # "unposted"
                      /\ fate'[i] = "queued" => \E j \in 1..Len(queue) : queue[j].n = i
    BY <1>1 DEF Tracked
  <2>1. CASE i = task.n
    BY <2>1, <1>1, <1>2, <1>4 DEF TypeOK
  <2>2. CASE i # task.n
    <3>1. fate'[i] = fate[i]
      BY <2>2, <1>1, <1>2, <1>4 DEF TypeOK
    <3> QED  BY <2>2, <3>1, <1>2 DEF Tracked
  <2> QED  BY <2>1, <2>2
<1>9. Ending'
  BY <1>1, <1>2 DEF Ending
<1> QED  BY <1>5, <1>6, <1>7, <1>8, <1>9 DEF IInv

\* TASK_EXIT: no other task is left, so what is saved stays.
LEMMA ExitKeeps ==
    ASSUME IInv, ExecuteExit
    PROVE  IInv'
<1>1. /\ pc = "execute" /\ task.kind = "exit" /\ exited' = TRUE /\ saved' = store /\ pc' = "top"
      /\ queue' = queue /\ task' = task /\ signalled' = signalled
      /\ kpc' = kpc /\ exitSignal' = exitSignal /\ posted' = posted /\ fate' = fate /\ store' = store
      /\ asked' = asked
  BY DEF ExecuteExit, stopVars
<1>2. TypeOK /\ Sorted /\ Numbered /\ TaskNumbered /\ ExitOnce /\ Tracked /\ Ending
  BY DEF IInv
<1>3. task.n = posted + 1 /\ queue = <<>> /\ kpc \in Stopping
  BY <1>1, <1>2 DEF TaskNumbered
<1>4. \A i \in 1..posted : task.n # i
  BY <1>2, <1>3 DEF TypeOK
<1>5. TypeOK' /\ Sorted'
  BY <1>1, <1>2 DEF TypeOK, Sorted, Precedes
<1>6. Numbered' /\ TaskNumbered' /\ ExitOnce'
  BY <1>1, <1>2, <1>3 DEF Numbered, TaskNumbered, ExitOnce
<1>7. Tracked' /\ Ending'
  BY <1>1, <1>2, <1>4 DEF Tracked, Ending
<1> QED  BY <1>5, <1>6, <1>7 DEF IInv

\* Every step of the specification keeps the invariant.
LEMMA NextIInv == IInv /\ InCallOrder /\ [Next]_vars => IInv'
<1> SUFFICES ASSUME IInv, InCallOrder, [Next]_vars PROVE IInv'
  OBVIOUS
<1>1. TypeOK /\ Ending
  BY DEF IInv
<1>2. CASE \E k \in Kinds : Post(k)
  BY <1>2, PostKeeps
<1>3. CASE \E n \in Nodes : cancelDataObjectQueries(n)
  BY <1>3, CancelKeeps
<1>4. CASE RaiseExit
  <2>1. /\ UNCHANGED <<queue, task, posted, fate, store, saveVars, asked, pc, signalled>>
        /\ kpc = "running" /\ kpc' = "cancelling" /\ exitSignal' = TRUE
    BY <1>4 DEF RaiseExit, threadVars
  <2> QED  BY <2>1, <1>1, MoveKeeps DEF TypeOK
<1>5. CASE hookCancel
  BY <1>5, HookCancelKeeps
<1>6. CASE Join
  <2>1. /\ UNCHANGED <<queue, task, posted, fate, store, saveVars, asked, pc, signalled, exitSignal>>
        /\ kpc = "joining" /\ kpc' = "stopped" /\ pc = "ended"
    BY <1>6 DEF Join, threadVars
  <2> QED  BY <2>1, <1>1, MoveKeeps DEF TypeOK, Ending
<1>7. CASE Take
  <2>1. /\ TakeFirst /\ queue # <<>> /\ pc = "top" /\ signalled' = signalled
        /\ UNCHANGED <<stopVars, posted, fate, store, saveVars, asked>>
    BY <1>7 DEF Take
  <2> QED  BY <2>1, <1>1, TakeFirstKeeps DEF TypeOK
<1>8. CASE Wait
  <2>1. /\ UNCHANGED <<queue, task, posted, fate, store, saveVars, asked, kpc, exitSignal>>
        /\ pc = "top" /\ pc' = "waiting" /\ signalled' = FALSE
    BY <1>8 DEF Wait, stopVars
  <2> QED  BY <2>1, <1>1, MoveKeeps DEF TypeOK, Ending
<1>9. CASE WakeUp
  <2>1. CASE queue # <<>>
    <3>1. /\ TakeFirst /\ pc = "waiting" /\ signalled' = FALSE
          /\ UNCHANGED <<stopVars, posted, fate, store, saveVars, asked>>
      BY <1>9, <2>1 DEF WakeUp
    <3> QED  BY <2>1, <3>1, TakeFirstKeeps
  <2>2. CASE queue = <<>>
    <3>1. /\ UNCHANGED <<queue, task, posted, fate, store, saveVars, asked, kpc, exitSignal>>
          /\ pc = "waiting" /\ pc' = "undefined" /\ signalled' = FALSE
      BY <1>9, <2>2 DEF WakeUp, stopVars
    <3> QED  BY <3>1, <1>1, MoveKeeps DEF TypeOK, Ending
  <2> QED  BY <2>1, <2>2
<1>10. CASE Leave
  <2>1. /\ UNCHANGED <<queue, task, posted, fate, store, saveVars, asked, kpc, exitSignal, signalled>>
        /\ pc = "top" /\ pc' = "ended" /\ queue = <<>> /\ exitSignal
    BY <1>10 DEF Leave, MayLeave, stopVars
  <2> QED  BY <2>1, <1>1, MoveKeeps DEF TypeOK, Ending
<1>11. CASE ExecuteInsert
  <2>1. store' \in SUBSET Persistent
    BY <1>1, <1>11 DEF ExecuteInsert, InsertObject, TypeOK
  <2>2. asked' \in Seq(Task)
    BY <1>1, <1>11 DEF ExecuteInsert, InCallOrder, IsObjectTask, TypeOK
  <2> QED  BY <2>1, <2>2, <1>11, DoneKeeps DEF ExecuteInsert
<1>12. CASE ExecuteDelete
  <2>1. store' \in SUBSET Persistent
    BY <1>1, <1>12 DEF ExecuteDelete, DeleteObject, TypeOK
  <2>2. asked' \in Seq(Task)
    BY <1>1, <1>12 DEF ExecuteDelete, InCallOrder, IsObjectTask, TypeOK
  <2> QED  BY <2>1, <2>2, <1>12, DoneKeeps DEF ExecuteDelete
<1>13. CASE ExecuteAge
  <2>1. store' \in SUBSET Persistent
    BY <1>1, <1>13 DEF ExecuteAge, AgedStores, TypeOK
  <2> QED  BY <2>1, <1>1, <1>13, DoneKeeps DEF ExecuteAge, TypeOK
<1>14. CASE ExecuteOther
  <2>1. PICK outcome \in {"executed", "skipped"} : Done(outcome)
    BY <1>14 DEF ExecuteOther
  <2>2. /\ pc = "execute" /\ task.kind # "exit" /\ UNCHANGED saveVars
        /\ store' \in SUBSET Persistent /\ asked' \in Seq(Task)
    BY <1>14, <1>1 DEF ExecuteOther, Medium, TypeOK
  <2> QED  BY <2>1, <2>2, DoneKeeps
<1>15. CASE ExecuteExit
  BY <1>15, ExitKeeps
<1>16. CASE UNCHANGED vars
  <2>1. UNCHANGED <<queue, task, posted, fate, store, saveVars, asked, kpc, exitSignal, signalled, pc>>
    BY <1>16 DEF vars, threadVars, stopVars
  <2> QED  BY <2>1, <1>1, MoveKeeps DEF TypeOK, Ending
<1> QED
  BY <1>2, <1>3, <1>4, <1>5, <1>6, <1>7, <1>8, <1>9, <1>10, <1>11, <1>12, <1>13, <1>14,
     <1>15, <1>16 DEF Next, Kernel, Thread

-----------------------------------------------------------------------------
(* Insertions and deletions.                                               *)

\* Nothing is asked for at first.
LEMMA InitInCallOrder == Init => InCallOrder
<1> SUFFICES ASSUME Init PROVE InCallOrder
  OBVIOUS
<1>1. Len(queue) = 0 /\ Len(asked) = 0 /\ pc # "execute"
  BY DEF Init
<1> QED  BY <1>1 DEF InCallOrder

\* A posting call: the new task has a number of its own, larger than all others.
LEMMA PostInCallOrder ==
    ASSUME IInv, InCallOrder, NEW kind \in Kinds, Post(kind)
    PROVE  InCallOrder'
<1>1. PICK s \in Subjects(kind) :
        LET t == [kind |-> kind, subject |-> s, n |-> posted + 1]
        IN  Insert(t) /\ asked' = IF IsObjectTask(t) THEN Append(asked, t) ELSE asked
  BY DEF Post
<1> DEFINE t == [kind |-> kind, subject |-> s, n |-> posted + 1]
<1>2. /\ kpc = "running" /\ posted < MaxTasks /\ posted' = posted + 1 /\ pc' = pc /\ task' = task
      /\ queue \in Seq(Task) /\ asked \in Seq(Task) /\ Sorted /\ Len(asked) \in Nat
  BY DEF Post, IInv, TypeOK
<1>3. /\ posted \in Nat /\ MaxTasks \in Nat /\ posted <= MaxTasks
      /\ \A i \in 1..Len(queue) : queue[i].n < posted + 1
      /\ pc = "execute" => task.n \in 1..posted
  BY <1>2, NewTask
<1>4. t \in Task /\ t.n = posted + 1
  <2>1. s \in Objects \union Nodes \union {NoSubject}
    BY DEF Subjects
  <2>2. kind \in High \union Medium \union Low
    BY DataStoreAssumption
  <2> QED  BY <2>1, <2>2, <1>2, <1>3 DEF Task
<1> HIDE DEF t
<1>5. Insert(t) /\ asked' = IF IsObjectTask(t) THEN Append(asked, t) ELSE asked
  BY <1>1 DEF t
<1>6. /\ \A k \in 1..Len(queue') : queue'[k] = t \/ \E j \in 1..Len(queue) : queue'[k] = queue[j]
      /\ \A j \in 1..Len(queue) : \E k \in 1..Len(queue') : queue'[k] = queue[j]
      /\ \E k \in 1..Len(queue') : queue'[k] = t
  BY <1>2, <1>3, <1>4, <1>5, InsertKeepsOrder
<1>7. \A i \in 1..Len(asked) : IsObjectTask(asked[i]) /\ asked[i].n \in 1..posted
  BY DEF InCallOrder
<1>8. 1..posted \subseteq 1..(posted + 1) /\ posted + 1 \in 1..(posted + 1)
  BY <1>3
<1>9. \A i \in 1..Len(asked) :
         \/ \E j \in 1..Len(queue') : queue'[j] = asked[i]
         \/ pc' = "execute" /\ task' = asked[i]
  BY <1>2, <1>6 DEF InCallOrder
<1>10. pc' = "execute" => \A j \in 1..Len(queue') : queue'[j] # task'
  <2>1. pc = "execute" => task # t
    BY <1>3, <1>4
  <2>2. pc = "execute" => \A j \in 1..Len(queue) : queue[j] # task
    BY DEF InCallOrder
  <2> QED  BY <2>1, <2>2, <1>2, <1>6
<1>11. CASE ~IsObjectTask(t)
  <2>1. asked' = asked
    BY <1>5, <1>11
  <2>2. \A i \in 1..Len(asked') : IsObjectTask(asked'[i]) /\ asked'[i].n \in 1..posted'
    BY <2>1, <1>2, <1>7, <1>8 DEF IsObjectTask
  <2>3. \A j \in 1..Len(queue') : IsObjectTask(queue'[j]) => \E i \in 1..Len(asked') : asked'[i] = queue'[j]
    <3> SUFFICES ASSUME NEW j \in 1..Len(queue'), IsObjectTask(queue'[j])
                 PROVE  \E i \in 1..Len(asked) : asked[i] = queue'[j]
      BY <2>1
    <3>1. queue'[j] # t
      BY <1>11
    <3>2. PICK k \in 1..Len(queue) : queue'[j] = queue[k]
      BY <3>1, <1>6
    <3>3. IsObjectTask(queue[k])
      BY <3>2
    <3> QED  BY <3>2, <3>3 DEF InCallOrder
  <2>4. pc' = "execute" /\ IsObjectTask(task)' => asked' # <<>> /\ Head(asked)' = task'
    BY <2>1, <1>2 DEF InCallOrder, IsObjectTask
  <2> QED  BY <2>1, <2>2, <2>3, <2>4, <1>9, <1>10 DEF InCallOrder, IsObjectTask
<1>12. CASE IsObjectTask(t)
  <2>1. /\ asked' = Append(asked, t) /\ Len(asked') = Len(asked) + 1 /\ asked'[Len(asked) + 1] = t
        /\ \A i \in 1..Len(asked) : i \in 1..Len(asked') /\ asked'[i] = asked[i]
        /\ \A i \in 1..Len(asked') : i # Len(asked) + 1 => i \in 1..Len(asked)
    BY <1>2, <1>4, <1>5, <1>12
  <2>2. \A i \in 1..Len(asked') : IsObjectTask(asked'[i]) /\ asked'[i].n \in 1..posted'
    BY <2>1, <1>2, <1>4, <1>7, <1>8, <1>12
  <2>3. ASSUME NEW i \in 1..Len(asked'), NEW j \in 1..Len(asked'), i < j
        PROVE  asked'[i].n < asked'[j].n
    <3>1. i \in 1..Len(asked)
      BY <2>1, <2>3, <1>2
    <3>2. asked'[i] = asked[i] /\ asked[i].n < posted + 1
      BY <2>1, <3>1, <1>3, <1>7
    <3>3. CASE j = Len(asked) + 1
      BY <2>1, <3>2, <3>3, <1>4
    <3>4. CASE j # Len(asked) + 1
      BY <2>1, <2>3, <3>1, <3>2, <3>4 DEF InCallOrder
    <3> QED  BY <3>3, <3>4
  <2>4. \A i \in 1..Len(asked') :
           \/ \E j \in 1..Len(queue') : queue'[j] = asked'[i]
           \/ pc' = "execute" /\ task' = asked'[i]
    BY <2>1, <1>6, <1>9
  <2>5. \A j \in 1..Len(queue') : IsObjectTask(queue'[j]) => \E i \in 1..Len(asked') : asked'[i] = queue'[j]
    <3>1. Len(asked) + 1 \in 1..Len(asked')
      BY <2>1, <1>2
    <3>2. \A k \in 1..Len(queue) : IsObjectTask(queue[k]) => \E i \in 1..Len(asked) : asked[i] = queue[k]
      BY DEF InCallOrder
    <3> TAKE j \in 1..Len(queue')
    <3>3. CASE queue'[j] = t
      BY <2>1, <3>1, <3>3
    <3>4. CASE queue'[j] # t
      <4>1. PICK k \in 1..Len(queue) : queue'[j] = queue[k]
        BY <3>4, <1>6
      <4> QED  BY <2>1, <3>2, <4>1
    <3> QED  BY <3>3, <3>4
  <2>6. pc' = "execute" /\ IsObjectTask(task') => asked' # <<>> /\ Head(asked') = task'
    <3> SUFFICES ASSUME pc = "execute", IsObjectTask(task)
                 PROVE  asked' # <<>> /\ Head(asked') = task
      BY <1>2
    <3>1. asked # <<>> /\ Head(asked) = task
      BY DEF InCallOrder
    <3> QED  BY <2>1, <3>1, <1>2, <1>4
  <2> QED  BY <2>2, <2>3, <2>4, <2>5, <2>6, <1>10 DEF InCallOrder, IsObjectTask
<1> QED  BY <1>11, <1>12

\* Steps that neither ask for an operation nor carry one out nor take a task: a task
\* that leaves or enters the queue is no insertion and no deletion.
LEMMA OtherInCallOrder ==
    ASSUME InCallOrder, UNCHANGED <<asked, posted, task>>,
           pc' = "execute" => pc = "execute",
           pc = "execute" /\ IsObjectTask(task) => pc' = "execute",
           \A k \in 1..Len(queue') : ~IsObjectTask(queue'[k]) \/ \E j \in 1..Len(queue) : queue'[k] = queue[j],
           \A j \in 1..Len(queue) : IsObjectTask(queue[j]) => \E k \in 1..Len(queue') : queue'[k] = queue[j],
           pc' = "execute" => \A k \in 1..Len(queue') : queue'[k] # task
    PROVE  InCallOrder'
<1>1. \A i \in 1..Len(asked) : IsObjectTask(asked[i]) /\ asked[i].n \in 1..posted
  BY DEF InCallOrder
<1>2. \A i \in 1..Len(asked) :
         \/ \E j \in 1..Len(queue') : queue'[j] = asked[i]
         \/ pc' = "execute" /\ task = asked[i]
  BY <1>1 DEF InCallOrder
<1>3. \A j \in 1..Len(queue') : IsObjectTask(queue'[j]) => \E i \in 1..Len(asked) : asked[i] = queue'[j]
  <2> SUFFICES ASSUME NEW j \in 1..Len(queue'), IsObjectTask(queue'[j])
               PROVE  \E i \in 1..Len(asked) : asked[i] = queue'[j]
    OBVIOUS
  <2>1. PICK k \in 1..Len(queue) : queue'[j] = queue[k]
    OBVIOUS
  <2>2. IsObjectTask(queue[k])
    BY <2>1
  <2> QED  BY <2>1, <2>2 DEF InCallOrder
<1> QED  BY <1>1, <1>2, <1>3 DEF InCallOrder, IsObjectTask

\* The first task of the queue, if it is an insertion or a deletion, is the oldest one.
LEMMA TakeInCallOrder ==
    ASSUME IInv, InCallOrder, queue # <<>>, TakeFirst, pc # "execute", UNCHANGED <<asked, posted>>
    PROVE  InCallOrder'
<1>1. task' = Head(queue) /\ queue' = Tail(queue) /\ pc' = "execute"
  BY DEF TakeFirst
<1>2. queue \in Seq(Task) /\ asked \in Seq(Task) /\ Sorted /\ Len(queue) \in Nat
  BY DEF IInv, TypeOK
<1>3. /\ Len(queue') = Len(queue) - 1
      /\ \A k \in 1..Len(queue') : k + 1 \in 1..Len(queue) /\ queue'[k] = queue[k + 1]
      /\ \A k \in 1..Len(queue') : Precedes(Head(queue), queue'[k])
      /\ Head(queue) = queue[1] /\ 1 \in 1..Len(queue) /\ Head(queue) \in Task
  BY <1>1, <1>2, TakeKeepsOrder
<1>4. \A j \in 1..Len(queue) : queue[j] = task' \/ \E k \in 1..Len(queue') : queue'[k] = queue[j]
  <2> TAKE j \in 1..Len(queue)
  <2>1. CASE j = 1
    BY <2>1, <1>1, <1>3
  <2>2. CASE j # 1
    <3>1. j - 1 \in 1..Len(queue') /\ (j - 1) + 1 = j
      BY <2>2, <1>2, <1>3
    <3>2. queue'[j - 1] = queue[j]
      BY <3>1, <1>3
    <3> QED  BY <3>1, <3>2
  <2> QED  BY <2>1, <2>2
<1>5. \A t \in Task : ~Precedes(t, t)
  <2> TAKE t \in Task
  <2>1. t.n \in Int /\ Priority(t.kind) \in Int
    BY DataStoreAssumption DEF Task, Priority
  <2> QED  BY <2>1 DEF Precedes
<1>6. \A k \in 1..Len(queue') : queue'[k] # task'
  BY <1>1, <1>3, <1>5
<1>7. \A i \in 1..Len(asked) : \E j \in 1..Len(queue) : queue[j] = asked[i]
  BY DEF InCallOrder
<1>8. ASSUME IsObjectTask(task') PROVE asked # <<>> /\ Head(asked) = task'
  <2>1. PICK i \in 1..Len(asked) : asked[i] = task'
    <3>1. task' = queue[1] /\ 1 \in 1..Len(queue)
      BY <1>1, <1>3
    <3>2. IsObjectTask(queue[1]) => \E i \in 1..Len(asked) : asked[i] = queue[1]
      BY <3>1 DEF InCallOrder
    <3> QED  BY <3>1, <3>2, <1>8
  <2>2. asked # <<>> /\ 1 \in 1..Len(asked) /\ Head(asked) = asked[1] /\ Len(asked) \in Nat
    BY <2>1, <1>2
  <2>3. \/ task' = asked[1]
        \/ \E k \in 1..Len(queue') : queue'[k] = asked[1]
    BY <2>2, <1>4, <1>7
  <2>4. ASSUME NEW k \in 1..Len(queue'), queue'[k] = asked[1] PROVE FALSE
    <3>1. Precedes(task', asked[1]) /\ asked[1] \in Task /\ task' \in Task /\ IsObjectTask(asked[1])
      <4>1. Precedes(task', asked[1]) /\ task' \in Task
        BY <2>4, <1>1, <1>3
      <4>2. asked[1] \in Task
        BY <2>2, <1>2
      <4>3. IsObjectTask(asked[1])
        BY <2>2 DEF InCallOrder
      <4> QED  BY <4>1, <4>2, <4>3
    <3>2. Priority(task'.kind) = 0 /\ Priority(asked[1].kind) = 0
      BY <3>1, <1>8 DEF IsObjectTask, Priority, High
    <3>3. task'.n \in Int /\ asked[1].n \in Int
      BY <3>1, DataStoreAssumption DEF Task
    <3>4. task'.n < asked[1].n
      BY <3>1, <3>2 DEF Precedes
    <3>5. i = 1 \/ 1 < i
      BY <2>2
    <3>6. 1 < i => asked[1].n < asked[i].n
      BY <2>2 DEF InCallOrder
    <3> QED  BY <2>1, <3>3, <3>4, <3>5, <3>6
  <2> QED  BY <2>2, <2>3, <2>4
<1>9. \A i \in 1..Len(asked) : task' = asked[i] \/ \E k \in 1..Len(queue') : queue'[k] = asked[i]
  BY <1>4, <1>7
<1>10. \A j \in 1..Len(queue') : IsObjectTask(queue'[j]) => \E i \in 1..Len(asked) : asked[i] = queue'[j]
  BY <1>3 DEF InCallOrder
<1> QED  BY <1>1, <1>6, <1>8, <1>9, <1>10 DEF InCallOrder, IsObjectTask

\* An insertion or a deletion is carried out: the others remain queued.
LEMMA CarriedOutInCallOrder ==
    ASSUME IInv, InCallOrder, pc = "execute", IsObjectTask(task), asked' = Tail(asked),
           pc' = "top", UNCHANGED <<queue, posted>>
    PROVE  InCallOrder'
<1>1. asked \in Seq(Task) /\ asked # <<>> /\ Head(asked) = task
  BY DEF IInv, TypeOK, InCallOrder
<1>2. /\ Len(asked) \in Nat /\ 1 \in 1..Len(asked) /\ asked[1] = task /\ Len(asked') = Len(asked) - 1
      /\ \A i \in 1..Len(asked') : i + 1 \in 1..Len(asked) /\ 1 < i + 1 /\ asked'[i] = asked[i + 1]
  BY <1>1
<1>3. \A i \in 1..Len(asked') : asked'[i] # task
  <2> TAKE i \in 1..Len(asked')
  <2>1. asked[1].n < asked[i + 1].n /\ asked[1].n \in Int
    BY <1>1, <1>2, DataStoreAssumption DEF InCallOrder, Task
  <2> QED  BY <1>2, <2>1
<1>4. \A i \in 1..Len(asked') : \E j \in 1..Len(queue) : queue[j] = asked'[i]
  BY <1>2, <1>3 DEF InCallOrder
<1>5. ASSUME NEW j \in 1..Len(queue), IsObjectTask(queue[j])
      PROVE  \E i \in 1..Len(asked') : asked'[i] = queue[j]
  <2>1. PICK i \in 1..Len(asked) : asked[i] = queue[j]
    BY <1>5 DEF InCallOrder
  <2>2. i # 1
    BY <1>2, <2>1 DEF InCallOrder
  <2>3. i - 1 \in 1..Len(asked') /\ (i - 1) + 1 = i
    BY <1>2, <2>2
  <2>4. asked'[i - 1] = asked[i]
    BY <1>2, <2>3
  <2> QED  BY <2>1, <2>3, <2>4
<1>6. \A i \in 1..Len(asked') : IsObjectTask(asked'[i]) /\ asked'[i].n \in 1..posted
  BY <1>2 DEF InCallOrder
<1>7. ASSUME NEW i \in 1..Len(asked'), NEW j \in 1..Len(asked'), i < j
      PROVE  asked'[i].n < asked'[j].n
  <2>1. i + 1 < j + 1
    BY <1>2, <1>7
  <2> QED  BY <1>2, <2>1 DEF InCallOrder
<1> QED  BY <1>4, <1>5, <1>6, <1>7 DEF InCallOrder, IsObjectTask

\* Every step keeps the operations in the order of the calls.
LEMMA NextInCallOrder == IInv /\ InCallOrder /\ [Next]_vars => InCallOrder'
<1> SUFFICES ASSUME IInv, InCallOrder, [Next]_vars PROVE InCallOrder'
  OBVIOUS
<1>1. queue \in Seq(Task) /\ Sorted
  BY DEF IInv, TypeOK
<1>2. CASE \E k \in Kinds : Post(k)
  BY <1>2, PostInCallOrder
<1>3. ASSUME NEW node \in Nodes, cancelDataObjectQueries(node) PROVE InCallOrder'
  <2>1. Erase(node) /\ UNCHANGED <<asked, posted, task, pc>>
    BY <1>3 DEF cancelDataObjectQueries, threadVars
  <2>2. /\ \A k \in 1..Len(queue') : \E j \in 1..Len(queue) : queue'[k] = queue[j]
        /\ \A j \in 1..Len(queue) :
              ~Concerns(queue[j], node) => \E k \in 1..Len(queue') : queue'[k] = queue[j]
    BY <1>1, <2>1, EraseKeepsOrder
  <2>3. \A j \in 1..Len(queue) : IsObjectTask(queue[j]) => ~Concerns(queue[j], node)
    BY DEF IsObjectTask, Concerns
  <2>4. pc = "execute" => \A j \in 1..Len(queue) : queue[j] # task
    BY DEF InCallOrder
  <2> QED  BY <2>1, <2>2, <2>3, <2>4, OtherInCallOrder
<1>4. CASE hookCancel
  <2> DEFINE t == Exit(posted + 1)
  <2>1. kpc = "cancelling" /\ Insert(t) /\ UNCHANGED <<asked, posted, task, pc>>
    BY <1>4 DEF hookCancel
  <2>2. /\ posted \in Nat /\ MaxTasks \in Nat /\ posted <= MaxTasks
        /\ \A i \in 1..Len(queue) : queue[i].n < posted + 1
        /\ pc = "execute" => task.kind # "exit"
    BY <2>1, NewTask
  <2>3. t \in Task /\ t.n = posted + 1 /\ t.kind = "exit"
    BY <2>2 DEF Exit, Task, Low
  <2> HIDE DEF t
  <2>4. /\ \A k \in 1..Len(queue') : queue'[k] = t \/ \E j \in 1..Len(queue) : queue'[k] = queue[j]
        /\ \A j \in 1..Len(queue) : \E k \in 1..Len(queue') : queue'[k] = queue[j]
    BY <1>1, <2>1, <2>2, <2>3, InsertKeepsOrder
  <2>5. ~IsObjectTask(t)
    BY <2>3 DEF IsObjectTask
  <2>6. pc = "execute" => \A k \in 1..Len(queue') : queue'[k] # task
    BY <2>2, <2>3, <2>4 DEF InCallOrder
  <2> QED  BY <2>1, <2>4, <2>5, <2>6, OtherInCallOrder
<1>5. CASE Take \/ (WakeUp /\ queue # <<>>)
  <2>1. queue # <<>> /\ TakeFirst /\ pc # "execute" /\ UNCHANGED <<asked, posted>>
    BY <1>5 DEF Take, WakeUp
  <2> QED  BY <2>1, TakeInCallOrder
<1>6. CASE ExecuteInsert \/ ExecuteDelete
  <2>1. /\ pc = "execute" /\ IsObjectTask(task) /\ asked' = Tail(asked)
        /\ pc' = "top" /\ UNCHANGED <<queue, posted>>
    BY <1>6 DEF ExecuteInsert, ExecuteDelete, Done, IsObjectTask
  <2> QED  BY <2>1, CarriedOutInCallOrder
<1>7. CASE \/ RaiseExit \/ Join \/ Wait \/ (WakeUp /\ queue = <<>>) \/ Leave
           \/ ExecuteAge \/ ExecuteOther \/ ExecuteExit \/ UNCHANGED vars
  <2>1. /\ UNCHANGED <<queue, asked, posted, task>>
        /\ pc' = "execute" => pc = "execute"
        /\ pc = "execute" /\ IsObjectTask(task) => pc' = "execute"
    BY <1>7 DEF RaiseExit, Join, Wait, WakeUp, Leave, ExecuteAge, ExecuteOther, ExecuteExit,
       Done, vars, threadVars, IsObjectTask, Medium
  <2>2. pc' = "execute" => \A k \in 1..Len(queue) : queue[k] # task
    BY <2>1 DEF InCallOrder
  <2> QED  BY <2>1, <2>2, OtherInCallOrder
<1> QED  BY <1>2, <1>3, <1>4, <1>5, <1>6, <1>7 DEF Next, Kernel, Thread

\* The invariant holds in every reachable state.
THEOREM Inductive == Spec => [](IInv /\ InCallOrder)
<1>1. Init => IInv /\ InCallOrder
  BY InitIInv, InitInCallOrder
<1>2. IInv /\ InCallOrder /\ [Next]_vars => IInv' /\ InCallOrder'
  BY NextIInv, NextInCallOrder
<1> QED  BY <1>1, <1>2, PTL DEF Spec

-----------------------------------------------------------------------------
(* The theorems.                                                           *)

\* Every variable of the store thread, its queue and the stopping kernel keeps
\* its type; only persistent objects are ever held or saved.
THEOREM TypeCorrect == Spec => []TypeOK
<1>1. IInv => TypeOK
  BY DEF IInv
<1> QED  BY <1>1, Inductive, PTL

\* MemoryDataStore::_exit runs after every task posted before it, and what it
\* saves is what the store holds from then on.
THEOREM SavedOnceAndLast == Spec => []SavedIsFinal
<1>1. IInv => SavedIsFinal
  BY DEF IInv, ExitOnce, SavedIsFinal
<1> QED  BY <1>1, Inductive, PTL

\* When the store thread has ended, it has dealt with every task that managers
\* have posted.
THEOREM NothingLeftBehind == Spec => []Drained
<1>1. IInv => Drained
  <2> SUFFICES ASSUME IInv, pc = "ended", NEW i \in 1..posted
               PROVE  fate[i] \in {"executed", "skipped", "cancelled"}
    BY DEF Drained
  <2>1. i \in Numbers
    BY DataStoreAssumption DEF IInv, TypeOK
  <2>2. fate[i] \in {"unposted", "queued", "executed", "skipped", "cancelled"}
    BY <2>1 DEF IInv, TypeOK
  <2>3. fate[i] # "unposted" /\ fate[i] # "queued"
    BY DEF IInv, Tracked, Ending
  <2> QED  BY <2>2, <2>3
<1> QED  BY <1>1, Inductive, PTL

\* The task DataStore::run takes is the most urgent one, and the oldest of those.
THEOREM TakenInOrder == Spec => MostUrgentFirst
<1> DEFINE Ahead == pc' = "execute" /\ pc # "execute"
              => \A i \in 1..Len(queue') :
                     \/ Priority(queue'[i].kind) > Priority(task'.kind)
                     \/ /\ Priority(queue'[i].kind) = Priority(task'.kind)
                        /\ queue'[i].n > task'.n
<1>1. IInv /\ [Next]_vars => [Ahead]_vars
  <2> SUFFICES ASSUME IInv, Next, pc' = "execute", pc # "execute", NEW i \in 1..Len(queue')
               PROVE  \/ Priority(queue'[i].kind) > Priority(task'.kind)
                      \/ /\ Priority(queue'[i].kind) = Priority(task'.kind)
                         /\ queue'[i].n > task'.n
    OBVIOUS
  <2>1. queue # <<>> /\ TakeFirst
    BY DEF Next, Kernel, Thread, Post, cancelDataObjectQueries, RaiseExit, hookCancel, Join,
           Take, Wait, WakeUp, Leave, ExecuteInsert, ExecuteDelete, ExecuteAge, ExecuteOther,
           ExecuteExit, Done, threadVars
  <2>2. /\ queue \in Seq(Task) /\ Sorted /\ queue' = Tail(queue) /\ task' = Head(queue)
    BY <2>1 DEF IInv, TypeOK, TakeFirst
  <2>3. /\ Precedes(task', queue'[i]) /\ queue'[i] \in Task /\ task' \in Task
    BY <2>1, <2>2, TakeKeepsOrder
  <2>4. queue'[i].n \in Int /\ task'.n \in Int
    BY <2>3, DataStoreAssumption DEF Task
  <2>5. Priority(queue'[i].kind) \in Int /\ Priority(task'.kind) \in Int
    BY DEF Priority
  <2> QED  BY <2>3, <2>4, <2>5 DEF Precedes
<1> QED  BY <1>1, Inductive, PTL DEF Spec, MostUrgentFirst


-----------------------------------------------------------------------------
(* ObjectStore.                                                            *)

\* The operations a sequence of tasks stands for.
Operations(q) == [i \in 1..Len(q) |-> Operation(q[i])]

LEMMA OperationsType ==
    ASSUME NEW q \in Seq(Task)
    PROVE  /\ Operations(q) \in Seq({<<t.kind, t.subject>> : t \in Task})
           /\ Len(Operations(q)) = Len(q)
           /\ \A i \in 1..Len(q) : Operations(q)[i] = Operation(q[i])
<1>1. Len(q) \in Nat /\ \A i \in 1..Len(q) : q[i] \in Task
  OBVIOUS
<1>2. \A i \in 1..Len(q) : Operation(q[i]) \in {<<t.kind, t.subject>> : t \in Task}
  BY <1>1 DEF Operation
<1> QED  BY <1>1, <1>2 DEF Operations

\* Asking for one more.
LEMMA OperationsAppend ==
    ASSUME NEW q \in Seq(Task), NEW t \in Task
    PROVE  Operations(Append(q, t)) = Append(Operations(q), Operation(t))
<1>1. PICK u, m, n, e, S :
        /\ u = Append(q, t) /\ m = Operations(q) /\ n = Operations(u) /\ e = Operation(t)
        /\ S = {<<x.kind, x.subject>> : x \in Task}
  OBVIOUS
<1>2. /\ u \in Seq(Task) /\ Len(q) \in Nat /\ Len(u) = Len(q) + 1 /\ u[Len(q) + 1] = t
      /\ \A i \in 1..Len(q) : u[i] = q[i]
  BY <1>1
<1>3. m \in Seq(S) /\ Len(m) = Len(q) /\ \A i \in 1..Len(q) : m[i] = Operation(q[i])
  BY <1>1, OperationsType
<1>4. n \in Seq(S) /\ Len(n) = Len(u) /\ \A i \in 1..Len(u) : n[i] = Operation(u[i])
  BY <1>1, <1>2, OperationsType
<1>5. n[Len(m) + 1] = e
  <2>1. Len(q) + 1 \in 1..Len(u)
    BY <1>2
  <2> QED  BY <2>1, <1>1, <1>2, <1>3, <1>4
<1>6. \A i \in 1..Len(m) : n[i] = m[i]
  BY <1>2, <1>3, <1>4
<1>7. e \in S
  BY <1>1 DEF Operation
<1>8. n = Append(m, e)
  BY <1>2, <1>3, <1>4, <1>5, <1>6, <1>7
<1> QED  BY <1>1, <1>8

\* Carrying out the oldest.
LEMMA OperationsTail ==
    ASSUME NEW q \in Seq(Task), q # <<>>
    PROVE  /\ Operations(q) # <<>> /\ Head(Operations(q)) = Operation(Head(q))
           /\ Operations(Tail(q)) = Tail(Operations(q))
<1>1. PICK u, m, n, w, S :
        /\ u = Tail(q) /\ m = Operations(q) /\ n = Operations(u) /\ w = Tail(m)
        /\ S = {<<x.kind, x.subject>> : x \in Task}
  OBVIOUS
<1>2. /\ u \in Seq(Task) /\ Len(u) = Len(q) - 1 /\ Len(q) \in Nat /\ Len(q) >= 1
      /\ Head(q) = q[1] /\ \A i \in 1..Len(u) : u[i] = q[i + 1]
  BY <1>1
<1>3. m \in Seq(S) /\ Len(m) = Len(q) /\ \A i \in 1..Len(q) : m[i] = Operation(q[i])
  BY <1>1, OperationsType
<1>4. n \in Seq(S) /\ Len(n) = Len(u) /\ \A i \in 1..Len(u) : n[i] = Operation(u[i])
  BY <1>1, <1>2, OperationsType
<1>5. m # <<>> /\ Head(m) = Operation(Head(q))
  BY <1>2, <1>3
<1>6. \A i \in 1..Len(n) : n[i] = m[i + 1]
  <2> TAKE i \in 1..Len(n)
  <2>1. i \in 1..Len(u) /\ i + 1 \in 1..Len(q)
    BY <1>2, <1>4
  <2>2. n[i] = Operation(u[i]) /\ u[i] = q[i + 1]
    BY <2>1, <1>2, <1>4
  <2>3. m[i + 1] = Operation(q[i + 1])
    BY <2>1, <1>3
  <2> QED  BY <2>2, <2>3
<1>7. w \in Seq(S) /\ Len(w) = Len(n) /\ \A i \in 1..Len(w) : w[i] = m[i + 1]
  BY <1>1, <1>2, <1>3, <1>4, <1>5
<1>8. n = w
  BY <1>4, <1>6, <1>7
<1> QED  BY <1>1, <1>5, <1>8

\* Insertions and deletions that managers ask for reach the in-memory store one at a
\* time and in the order of the calls, whatever else is queued, cancelled or skipped and
\* also while the kernel stops the store; nothing else changes it but TASK_AGE_DATAOBJECTS.
THEOREM ImplementsObjectStore == Spec => Implements
<1>1. ASSUME Init PROVE Abstract!Init
  <2>1. asked = <<>> /\ Len(asked) = 0 /\ store = {}
    BY <1>1 DEF Init
  <2>2. Asked = <<>>
    BY <2>1 DEF Asked
  <2> QED  BY <2>1, <2>2 DEF Abstract!Init
<1>2. ASSUME IInv, InCallOrder, [Next]_vars PROVE [Abstract!Next]_(Abstract!vars)
  <2>1. asked \in Seq(Task) /\ task \in Task
    BY <1>2 DEF IInv, TypeOK
  <2>2. Asked = Operations(asked) /\ Asked' = Operations(asked')
    BY DEF Asked, Operations, Operation
  <2>3. UNCHANGED <<asked, store>> => UNCHANGED Abstract!vars
    BY <2>2 DEF Abstract!vars
  <2>4. ASSUME NEW k \in Kinds, Post(k) PROVE [Abstract!Next]_(Abstract!vars)
    <3>1. PICK s \in Subjects(k) :
            asked' = IF IsObjectTask([kind |-> k, subject |-> s, n |-> posted + 1])
                     THEN Append(asked, [kind |-> k, subject |-> s, n |-> posted + 1]) ELSE asked
      BY <2>4 DEF Post
    <3>2. store' = store /\ posted < MaxTasks /\ posted \in Nat /\ MaxTasks \in Nat
      BY <2>4, <1>2, DataStoreAssumption DEF Post, IInv, TypeOK
    <3>3. PICK t : t = [kind |-> k, subject |-> s, n |-> posted + 1]
      OBVIOUS
    <3>4. CASE IsObjectTask(t)
      <4>1. k \in {"insert", "delete"} /\ s \in Objects
        BY <3>3, <3>4 DEF IsObjectTask, Subjects
      <4>2. t \in Task /\ Operation(t) = <<k, s>>
        BY <3>2, <3>3, <4>1 DEF Task, High, Operation
      <4>3. asked' = Append(asked, t)
        BY <3>1, <3>3, <3>4
      <4>4. Asked' = Append(Asked, <<k, s>>)
        BY <2>1, <2>2, <4>2, <4>3, OperationsAppend
      <4>5. <<k, s>> \in Abstract!Ops
        BY <4>1 DEF Abstract!Ops
      <4>6. Abstract!Ask
        BY <3>2, <4>4, <4>5 DEF Abstract!Ask
      <4> QED  BY <4>6 DEF Abstract!Next
    <3>5. CASE ~IsObjectTask(t)
      <4>1. asked' = asked
        BY <3>1, <3>3, <3>5
      <4> QED  BY <2>3, <3>2, <4>1
    <3> QED  BY <3>4, <3>5
  <2>5. CASE ExecuteInsert \/ ExecuteDelete
    <3>1. /\ pc = "execute" /\ asked' = Tail(asked) /\ task.kind \in {"insert", "delete"}
          /\ store' = IF task.kind = "insert" /\ task.subject \in Persistent
                      THEN store \union {task.subject} ELSE store \ {task.subject}
      BY <2>5 DEF ExecuteInsert, ExecuteDelete, InsertObject, DeleteObject
    <3>2. asked # <<>> /\ Head(asked) = task
      BY <1>2, <3>1 DEF InCallOrder, IsObjectTask
    <3>3. Asked # <<>> /\ Head(Asked) = Operation(task) /\ Asked' = Tail(Asked)
      BY <2>1, <2>2, <3>1, <3>2, OperationsTail
    <3>4. Operation(task)[1] = task.kind /\ Operation(task)[2] = task.subject
      BY DEF Operation
    <3>5. store' = Abstract!Result(Head(Asked))
      BY <3>1, <3>3, <3>4 DEF Abstract!Result
    <3> QED  BY <3>3, <3>5 DEF Abstract!CarryOut, Abstract!Next
  <2>6. CASE ExecuteAge
    <3>1. asked' = asked /\ store' \in SUBSET store
      BY <2>6 DEF ExecuteAge, AgedStores
    <3>2. Asked' = Asked
      BY <2>2, <3>1
    <3> QED  BY <3>1, <3>2 DEF Abstract!Age, Abstract!Next
  <2>7. CASE \/ \E n \in Nodes : cancelDataObjectQueries(n)
             \/ RaiseExit \/ hookCancel \/ Join \/ Take \/ Wait \/ WakeUp \/ Leave
             \/ ExecuteOther \/ ExecuteExit \/ UNCHANGED vars
    <3>1. UNCHANGED <<asked, store>>
      BY <2>7 DEF cancelDataObjectQueries, RaiseExit, hookCancel, Join, Take, Wait, WakeUp, Leave,
         ExecuteOther, ExecuteExit, vars
    <3> QED  BY <2>3, <3>1
  <2> QED  BY <1>2, <2>4, <2>5, <2>6, <2>7 DEF Next, Kernel, Thread
<1> QED  BY <1>1, <1>2, Inductive, PTL DEF Spec, Implements, Abstract!Spec

================================================================================
