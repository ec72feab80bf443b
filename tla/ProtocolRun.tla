------------------------------ MODULE ProtocolRun ------------------------------
(***************************************************************************)
(* One client protocol instance of the Haggle kernel (hagglekernel/        *)
(* Protocol.cpp), its worker thread (libcpphaggle/Thread.cpp) and its send *)
(* queue (GenericQueue.h), driven by the kernel thread, which runs the     *)
(* ProtocolManager handlers.                                               *)
(*                                                                         *)
(* A request is one call of ProtocolManager::onSendDataObjectActual that   *)
(* picked this instance.  Requests are numbered in the order the kernel    *)
(* thread makes them.  The module keeps, for every request, the verdict    *)
(* the rest of the kernel is told (EVENT_TYPE_DATAOBJECT_SEND_SUCCESSFUL   *)
(* or _SEND_FAILURE), and interleaves the two threads at every read or     *)
(* write of the state they share: mode, isRegistered, the thread state,    *)
(* the exit signal and the queue.                                          *)
(***************************************************************************)
EXTENDS Integers, Sequences

CONSTANTS
    MaxRequests,          \* bound: requests made in one behaviour
    MaxIncoming,          \* bound: data objects the peer sends us
    MaxPeerChanges,       \* bound: times the peer leaves or re-enters the node store
    MaxShutdowns,         \* bound: calls of Protocol::shutdown
    ConnectionAttempts,   \* ProtocolConfiguration::getConnectionAttempts
    MaxProtocolErrors,    \* ProtocolConfiguration::getMaxProtocolErrors
    MaxSendTimeouts       \* ProtocolConfiguration::getMaxSendTimeouts

ASSUME BoundsAssumption ==
    /\ MaxRequests \in Nat /\ MaxIncoming \in Nat
    /\ MaxPeerChanges \in Nat /\ MaxShutdowns \in Nat

ASSUME ConfigAssumption ==
    /\ ConnectionAttempts \in Nat \ {0}
    /\ MaxProtocolErrors \in Nat /\ MaxSendTimeouts \in Nat

VARIABLES
    mode,        \* Protocol::mode, as far as a client uses it
    thr,         \* Thread::state; "none" while Runnable::thr is NULL
    exitSignal,  \* Thread::exitSignal is raised
    isRegistered,\* Protocol::isRegistered
    queue,       \* the requests in the send queue, oldest first
    closed,      \* GenericQueue::isClosed
    connected,   \* PROT_FLAG_CONNECTED
    pc,          \* where the worker thread is
    hand,        \* the request run() has taken off the queue, or None
    retransmit,  \* dObjToRetransmit, or None
    numConnectTry, numerr, numSendTimeouts,
    kpc,         \* where the kernel thread is in a handler of this protocol
    asked,       \* requests made so far
    verdict,     \* what the kernel was told about each request
    deleteEvents,\* delete_protocol_event events waiting in the event queue
    deleted,     \* the instance has been deleted
    peerKnown,   \* NodeStore::retrieve finds the peer
    incoming, peerChanges, shutdowns   \* what the environment has done so far

queueVars == <<queue, closed>>
retryVars == <<numConnectTry, numerr, numSendTimeouts>>
envVars   == <<peerKnown, incoming, peerChanges, shutdowns>>
runVars   == <<pc, hand, retransmit, retryVars>>
threadVars == <<thr, exitSignal>>
objVars   == <<mode, isRegistered, connected, deleteEvents, deleted>>
reqVars   == <<kpc, asked, verdict>>
vars == <<objVars, threadVars, queueVars, runVars, reqVars, envVars>>

None == 0
Requests == 1..MaxRequests

Elements(s) == {s[i] : i \in 1..Len(s)}

Init ==
    /\ mode = "idle" /\ isRegistered = TRUE /\ connected = FALSE
    /\ deleteEvents = 0 /\ deleted = FALSE
    /\ thr = "none" /\ exitSignal = FALSE
    /\ queue = <<>> /\ closed = FALSE
    /\ pc = "none" /\ hand = None /\ retransmit = None
    /\ numConnectTry = 0 /\ numerr = 0 /\ numSendTimeouts = 0
    /\ kpc = "idle" /\ asked = 0 /\ verdict = [r \in Requests |-> "unasked"]
    /\ peerKnown = TRUE /\ incoming = 0 /\ peerChanges = 0 /\ shutdowns = 0

isDone == mode = "done"
isGarbage == mode = "garbage"
shouldExit == exitSignal

-----------------------------------------------------------------------------
(* The worker thread.                                                      *)

Goto(label) == pc' = label

\* Runnable::run is entered: the mode is overwritten and the counters are new.
RunEntry ==
    /\ pc = "entry"
    /\ mode' = "idle"
    /\ numConnectTry' = 0 /\ numerr' = 0 /\ numSendTimeouts' = 0
    /\ retransmit' = None
    /\ Goto("loop")
    /\ UNCHANGED <<isRegistered, connected, deleteEvents, deleted, threadVars,
                   queueVars, hand, reqVars, envVars>>

\* Faulty variant: the loop only looks at the exit signal.
LoopEnds_IgnoresDone == shouldExit

\* while (!isDone() && !shouldExit())
LoopEnds == isDone \/ shouldExit

LoopTest ==
    /\ pc = "loop"
    /\ Goto(IF LoopEnds THEN "exit" ELSE "connectTest")
    /\ UNCHANGED <<objVars, threadVars, queueVars, hand, retransmit, retryVars,
                   reqVars, envVars>>

\* while (!isConnected() && !shouldExit() && !isDone()): falling out of this
\* loop because of a cancellation leads on to waitForEvent, not to the end.
ConnectTest ==
    /\ pc = "connectTest"
    /\ Goto(IF ~connected /\ ~shouldExit /\ ~isDone THEN "connect" ELSE "wait")
    /\ UNCHANGED <<objVars, threadVars, queueVars, hand, retransmit, retryVars,
                   reqVars, envVars>>

ConnectSucceeds ==
    /\ pc = "connect"
    /\ connected' = TRUE
    /\ Goto("connectCheck")
    /\ UNCHANGED <<mode, isRegistered, deleteEvents, deleted, threadVars,
                   queueVars, hand, retransmit, retryVars, reqVars, envVars>>

\* PROT_EVENT_ERROR_FATAL: done, but the queue stays open.
ConnectFatal ==
    /\ pc = "connect"
    /\ mode' = "done"
    /\ Goto("connectCheck")
    /\ UNCHANGED <<isRegistered, connected, deleteEvents, deleted, threadVars,
                   queueVars, hand, retransmit, retryVars, reqVars, envVars>>

\* Any other failure: the last attempt closes the queue, an earlier one sleeps.
ConnectFails ==
    /\ pc = "connect"
    /\ numConnectTry' = numConnectTry + 1
    /\ IF numConnectTry + 1 = ConnectionAttempts
          THEN closed' = TRUE /\ mode' = "done"
          ELSE UNCHANGED <<closed, mode>>
    /\ Goto("connectCheck")
    /\ UNCHANGED <<isRegistered, connected, deleteEvents, deleted, threadVars,
                   queue, hand, retransmit, numerr, numSendTimeouts,
                   reqVars, envVars>>

\* if (isDone() || shouldExit()) goto done;
ConnectCheck ==
    /\ pc = "connectCheck"
    /\ Goto(IF isDone \/ shouldExit THEN "exit" ELSE "connectTest")
    /\ UNCHANGED <<objVars, threadVars, queueVars, hand, retransmit, retryVars,
                   reqVars, envVars>>

\* Faulty variant: the kept request is retransmitted but not forgotten.
ClearRetransmit_Missing == UNCHANGED retransmit

ClearRetransmit == retransmit' = None

\* A pending retransmission is taken before anything in the queue.
TakeRetransmit ==
    /\ pc = "wait" /\ retransmit # None
    /\ hand' = retransmit /\ ClearRetransmit
    /\ Goto("lookup")
    /\ UNCHANGED <<objVars, threadVars, queueVars, retryVars, reqVars, envVars>>

\* Faulty variant: a queued request overtakes the one being retransmitted.
QueueIsNext_Always == TRUE

QueueIsNext == retransmit = None

\* GenericQueue::retrieve: an element is taken at once when the queue's signal
\* is raised, without a look at the socket or at the exit signal; in the wait
\* only when the exit signal is not raised.
TakeFromQueue ==
    /\ queue # <<>>
    /\ \/ pc = "wait" /\ QueueIsNext
       \/ pc = "waiting" /\ ~exitSignal
    /\ hand' = Head(queue) /\ queue' = Tail(queue)
    /\ Goto("lookup")
    /\ UNCHANGED <<objVars, threadVars, closed, retransmit, retryVars, reqVars, envVars>>

\* The queue is empty: wait for an element, the socket, the exit signal or
\* the timeout getWaitTimeBeforeDoneMillis.
StartWaiting ==
    /\ pc = "wait" /\ retransmit = None /\ queue = <<>>
    /\ Goto("waiting")
    /\ UNCHANGED <<objVars, threadVars, queueVars, hand, retransmit, retryVars,
                   reqVars, envVars>>

EndOfLoop ==      \* the two counters are reset at the end of the loop body
    /\ numerr' = 0 /\ numSendTimeouts' = 0
    /\ Goto("loop")

\* PROT_EVENT_TIMEOUT (nothing happened) and PROT_EVENT_SHOULD_EXIT: the
\* protocol is done; the queue is not closed.
WaitEnds ==
    /\ pc = "waiting"
    /\ exitSignal \/ queue = <<>>
    /\ mode' = "done"
    /\ EndOfLoop
    /\ UNCHANGED <<isRegistered, connected, deleteEvents, deleted, threadVars,
                   queueVars, hand, retransmit, numConnectTry, reqVars, envVars>>

\* The socket is readable (it wins over an element that arrived meanwhile).
WaitIncoming ==
    /\ pc = "waiting" /\ ~exitSignal /\ connected
    /\ incoming < MaxIncoming
    /\ incoming' = incoming + 1
    /\ Goto("receive")
    /\ UNCHANGED <<objVars, threadVars, queueVars, hand, retransmit, retryVars,
                   reqVars, peerKnown, peerChanges, shutdowns>>

\* numerr++ >= getMaxProtocolErrors() || shouldExit(), and the same test for
\* send timeouts.
GiveUp(n, max) == n >= max \/ shouldExit

\* An error of the wait itself, and a failed or timed out receive: counted,
\* and the loop continues without the reset at its end.
WaitOrReceiveError ==
    /\ \/ pc = "waiting" /\ ~exitSignal
       \/ pc = "receive"
    /\ numerr' = numerr + 1
    /\ IF GiveUp(numerr, MaxProtocolErrors)
          THEN closed' = TRUE /\ mode' = "done"
          ELSE UNCHANGED <<closed, mode>>
    /\ Goto("loop")
    /\ UNCHANGED <<isRegistered, connected, deleteEvents, deleted, threadVars,
                   queue, hand, retransmit, numConnectTry, numSendTimeouts,
                   reqVars, envVars>>

ReceiveSucceeds ==
    /\ pc = "receive"
    /\ EndOfLoop
    /\ UNCHANGED <<objVars, threadVars, queueVars, hand, retransmit,
                   numConnectTry, reqVars, envVars>>

\* PROT_EVENT_PEER_CLOSED, PROT_EVENT_ERROR_FATAL and the default case.
ReceiveEnds ==
    /\ pc = "receive"
    /\ closed' = TRUE /\ mode' = "done"
    /\ EndOfLoop
    /\ UNCHANGED <<isRegistered, connected, deleteEvents, deleted, threadVars,
                   queue, hand, retransmit, numConnectTry, reqVars, envVars>>

\* The late Bloom filter check needs the peer's entry in the node store; if
\* it is gone run() returns PROT_EVENT_ERROR, which is true for a bool: the
\* request in hand is gone and Thread::runloop calls run() again.
LookupPeer ==
    /\ pc = "lookup"
    /\ IF peerKnown
          THEN Goto("send") /\ UNCHANGED hand
          ELSE Goto("returnTrue") /\ hand' = None
    /\ UNCHANGED <<objVars, threadVars, queueVars, retransmit, retryVars,
                   reqVars, envVars>>

RunAgain ==
    /\ pc = "returnTrue"
    /\ Goto(IF exitSignal THEN "returned" ELSE "entry")
    /\ UNCHANGED <<objVars, threadVars, queueVars, hand, retransmit, retryVars,
                   reqVars, envVars>>

Tell(r, v) == verdict' = [verdict EXCEPT ![r] = v]

\* The object is obsolete, the peer already has it or its parent, the peer
\* accepted and acknowledged it, or rejected it: all count as a success.
SendSucceeds ==
    /\ pc = "send"
    /\ Tell(hand, "success") /\ hand' = None
    /\ EndOfLoop
    /\ UNCHANGED <<objVars, threadVars, queueVars, retransmit, numConnectTry,
                   kpc, asked, envVars>>

\* PROT_EVENT_TERMINATE, _PEER_CLOSED, _ERROR_FATAL and the default case.
SendEnds ==
    /\ pc = "send"
    /\ closed' = TRUE /\ mode' = "done"
    /\ Tell(hand, "failure") /\ hand' = None
    /\ EndOfLoop
    /\ UNCHANGED <<isRegistered, connected, deleteEvents, deleted, threadVars,
                   queue, retransmit, numConnectTry, kpc, asked, envVars>>

\* A send error or timeout that is one too many: the failure is reported.
GiveUpSend ==
    /\ closed' = TRUE /\ mode' = "done"
    /\ Tell(hand, "failure") /\ hand' = None
    /\ EndOfLoop
    /\ UNCHANGED retransmit

\* Faulty variant: the send is retried without keeping the request.
RetrySend_Forgotten ==
    /\ hand' = None
    /\ Goto("loop")
    /\ UNCHANGED <<retransmit, closed, mode, verdict>>

\* Faulty variant: the failure is reported although the send is retried.
RetrySend_Reported ==
    /\ retransmit' = hand /\ hand' = None
    /\ Tell(hand, "failure")
    /\ Goto("loop")
    /\ UNCHANGED <<closed, mode>>

\* Otherwise the request is kept for retransmission and the loop continues.
RetrySend ==
    /\ retransmit' = hand /\ hand' = None
    /\ Goto("loop")
    /\ UNCHANGED <<closed, mode, verdict>>

SendErrs ==
    /\ pc = "send"
    /\ \/ GiveUp(numerr, MaxProtocolErrors) /\ GiveUpSend
       \/ /\ ~GiveUp(numerr, MaxProtocolErrors) /\ RetrySend
          /\ numerr' = numerr + 1 /\ UNCHANGED numSendTimeouts
    /\ UNCHANGED <<isRegistered, connected, deleteEvents, deleted, threadVars,
                   queue, numConnectTry, kpc, asked, envVars>>

SendTimesOut ==
    /\ pc = "send"
    /\ \/ GiveUp(numSendTimeouts, MaxSendTimeouts) /\ GiveUpSend
       \/ /\ ~GiveUp(numSendTimeouts, MaxSendTimeouts) /\ RetrySend
          /\ numSendTimeouts' = numSendTimeouts + 1 /\ UNCHANGED numerr
    /\ UNCHANGED <<isRegistered, connected, deleteEvents, deleted, threadVars,
                   queue, numConnectTry, kpc, asked, envVars>>

\* done: of run(); ProtocolSocket::closeConnection returns before it does
\* anything, so the flag stays set.  The local dObjToRetransmit goes away.
RunExit ==
    /\ pc = "exit"
    /\ mode' = "done"
    /\ retransmit' = None
    /\ Goto("returned")
    /\ UNCHANGED <<isRegistered, connected, deleteEvents, deleted, threadVars,
                   queueVars, hand, retryVars, reqVars, envVars>>

\* Thread::runloop after the last run(): exitSignal.lower(), then
\* Thread::cleanup sets THREAD_STATE_CLEANUP and calls Protocol::cleanup.
Cleanup ==
    /\ pc = "returned"
    /\ exitSignal' = FALSE /\ thr' = "cleanup"
    /\ mode' = "garbage"
    /\ Goto("cleanup")
    /\ UNCHANGED <<isRegistered, connected, deleteEvents, deleted, queueVars,
                   hand, retransmit, retryVars, reqVars, envVars>>

\* Faulty variant: the worker stops without telling the manager.
MustUnregister_Never == FALSE

MustUnregister == isRegistered

\* else if (isRegistered) unregisterWithManager(), which tests the flag once
\* more: the last test ...
CleanupTest ==
    /\ pc = "cleanup"
    /\ Goto(IF MustUnregister THEN "unregister" ELSE "stop")
    /\ UNCHANGED <<objVars, threadVars, queueVars, hand, retransmit, retryVars,
                   reqVars, envVars>>

\* ... and Protocol::unregisterWithManager, which assigns the flag and posts
\* the event with no lock held.
CleanupUnregister ==
    /\ pc = "unregister"
    /\ isRegistered' = FALSE /\ deleteEvents' = deleteEvents + 1
    /\ Goto("stop")
    /\ UNCHANGED <<mode, connected, deleted, threadVars, queueVars, hand,
                   retransmit, retryVars, reqVars, envVars>>

ThreadStops ==
    /\ pc = "stop"
    /\ thr' = "stopped"
    /\ Goto("ended")
    /\ UNCHANGED <<objVars, exitSignal, queueVars, hand, retransmit, retryVars,
                   reqVars, envVars>>

Worker ==
    \/ RunEntry \/ LoopTest
    \/ ConnectTest \/ ConnectSucceeds \/ ConnectFatal \/ ConnectFails \/ ConnectCheck
    \/ TakeRetransmit \/ TakeFromQueue \/ StartWaiting \/ WaitEnds
    \/ WaitIncoming \/ WaitOrReceiveError \/ ReceiveSucceeds \/ ReceiveEnds
    \/ LookupPeer \/ RunAgain \/ SendSucceeds \/ SendEnds
    \/ SendErrs \/ SendTimesOut
    \/ RunExit \/ Cleanup \/ CleanupTest \/ CleanupUnregister \/ ThreadStops

-----------------------------------------------------------------------------
(* The kernel thread.                                                      *)

\* ProtocolManager picks the instance (neither garbage nor done) and calls
\* sendDataObject, whose first test is the same.
SendDataObject ==
    /\ kpc = "idle" /\ ~deleted
    /\ asked < MaxRequests
    /\ ~isDone /\ ~isGarbage
    /\ asked' = asked + 1
    /\ kpc' = "insert"
    /\ UNCHANGED <<objVars, threadVars, queueVars, runVars, verdict, envVars>>

\* q->insert: refused when closed (the manager then reports the failure).
InsertInQueue ==
    /\ kpc = "insert"
    /\ IF closed
          THEN /\ Tell(asked, "refused") /\ kpc' = "idle"
               /\ UNCHANGED queue
          ELSE /\ Tell(asked, "pending") /\ kpc' = "start"
               /\ queue' = Append(queue, asked)
    /\ UNCHANGED <<objVars, threadVars, closed, runVars, asked, envVars>>

\* startTxRx: Runnable::start creates a thread only if there never was one;
\* its result is ignored.
StartTxRx ==
    /\ kpc = "start"
    /\ kpc' = "idle"
    /\ IF thr = "none"
          THEN thr' = "running" /\ Goto("entry")
          ELSE UNCHANGED <<thr, pc>>
    /\ UNCHANGED <<objVars, exitSignal, queueVars, hand, retransmit, retryVars,
                   asked, verdict, envVars>>

\* Protocol::shutdown, called when an interface goes away or Haggle stops.
Shutdown ==
    /\ kpc = "idle" /\ ~deleted
    /\ shutdowns < MaxShutdowns
    /\ shutdowns' = shutdowns + 1
    /\ IF isDone THEN UNCHANGED <<mode, kpc>>
                 ELSE mode' = "done" /\ kpc' = "stopThread"
    /\ UNCHANGED <<isRegistered, connected, deleteEvents, deleted, threadVars,
                   queueVars, runVars, asked, verdict, peerKnown, incoming, peerChanges>>

\* if (isRunning()) cancel(); else if (isRegistered) unregisterWithManager()
ShutdownTest ==
    /\ kpc = "stopThread"
    /\ kpc' = IF thr = "running" THEN "cancel"
              ELSE IF isRegistered THEN "unregister" ELSE "idle"
    /\ UNCHANGED <<objVars, threadVars, queueVars, runVars, asked, verdict, envVars>>

\* Thread::cancel does nothing unless the thread is still running.
CancelThread ==
    /\ kpc = "cancel"
    /\ kpc' = "idle"
    /\ IF thr = "running"
          THEN thr' = "cancelled" /\ exitSignal' = TRUE
          ELSE UNCHANGED threadVars
    /\ UNCHANGED <<objVars, queueVars, runVars, asked, verdict, envVars>>

ShutdownUnregister ==
    /\ kpc = "unregister"
    /\ isRegistered' = FALSE /\ deleteEvents' = deleteEvents + 1
    /\ kpc' = "idle"
    /\ UNCHANGED <<mode, connected, deleted, threadVars, queueVars, runVars,
                   asked, verdict, envVars>>

DeleteQueued == deleteEvents > 0

\* onDeleteProtocolEvent: the kernel thread joins the worker ...
DeleteEvent ==
    /\ kpc = "idle" /\ DeleteQueued
    /\ deleteEvents' = deleteEvents - 1
    /\ kpc' = "join"
    /\ UNCHANGED <<mode, isRegistered, connected, deleted, threadVars,
                   queueVars, runVars, asked, verdict, envVars>>

\* Faulty variant: the instance is deleted without joining its worker.
Joined_NoWait == TRUE

\* Thread::join returns when the worker is gone (at once if it never was).
Joined == pc \in {"none", "ended"}

\* Faulty variant: the queue is emptied without reporting anything.
ClearedVerdicts_Silent == verdict

\* closeAndClearQueue: a failure for everything still in the queue.
ClearedVerdicts ==
    [r \in Requests |-> IF r \in Elements(queue) THEN "failure" ELSE verdict[r]]

\* ... and deletes the instance; the destructor closes the queue and reports
\* a failure for everything still in it.
JoinAndDelete ==
    /\ kpc = "join" /\ Joined
    /\ kpc' = "idle" /\ deleted' = TRUE
    /\ thr' = IF thr = "none" THEN "none" ELSE "joined"
    /\ closed' = TRUE /\ queue' = <<>>
    /\ verdict' = ClearedVerdicts
    /\ UNCHANGED <<mode, isRegistered, connected, deleteEvents, exitSignal,
                   runVars, asked, envVars>>

Kernel ==
    \/ SendDataObject \/ InsertInQueue \/ StartTxRx
    \/ Shutdown \/ ShutdownTest \/ CancelThread \/ ShutdownUnregister
    \/ DeleteEvent \/ JoinAndDelete

\* NodeManager removes the peer from the node store, or inserts it again.
PeerChanges ==
    /\ peerChanges < MaxPeerChanges
    /\ peerChanges' = peerChanges + 1
    /\ peerKnown' = ~peerKnown
    /\ UNCHANGED <<objVars, threadVars, queueVars, runVars, reqVars, incoming, shutdowns>>

Next == Worker \/ Kernel \/ PeerChanges

Spec == Init /\ [][Next]_vars

\* The operating system keeps scheduling both threads; a wait has a timeout.
\* New requests, shutdowns and what the peer does are never owed.
KernelStep ==
    \/ InsertInQueue \/ StartTxRx
    \/ ShutdownTest \/ CancelThread \/ ShutdownUnregister
    \/ DeleteEvent \/ JoinAndDelete
FairSpec == Spec /\ WF_vars(Worker) /\ WF_vars(KernelStep)

-----------------------------------------------------------------------------
(* Properties.                                                             *)

WorkerLabels == {"none", "entry", "loop", "connectTest", "connect", "connectCheck",
    "wait", "waiting", "receive", "lookup", "send", "returnTrue", "exit",
    "returned", "cleanup", "unregister", "stop", "ended"}
KernelLabels == {"idle", "insert", "start", "stopThread", "cancel", "unregister", "join"}
Verdicts == {"unasked", "pending", "refused", "success", "failure"}

Flags ==
    /\ isRegistered \in BOOLEAN /\ connected \in BOOLEAN /\ deleted \in BOOLEAN
    /\ exitSignal \in BOOLEAN /\ closed \in BOOLEAN /\ peerKnown \in BOOLEAN

Values ==
    /\ mode \in {"idle", "done", "garbage"}
    /\ deleteEvents \in Nat
    /\ thr \in {"none", "running", "cancelled", "cleanup", "stopped", "joined"}
    /\ queue \in Seq(Requests)
    /\ pc \in WorkerLabels
    /\ hand \in Requests \cup {None} /\ retransmit \in Requests \cup {None}
    /\ numConnectTry \in Nat /\ numerr \in Nat /\ numSendTimeouts \in Nat
    /\ kpc \in KernelLabels
    /\ asked \in 0..MaxRequests /\ verdict \in [Requests -> Verdicts]
    /\ kpc = "insert" => asked \in Requests
    /\ incoming \in Nat /\ peerChanges \in Nat /\ shutdowns \in Nat

\* Every variable has the type the code gives it.
TypeOK == Flags /\ Values

Held(r) == r \in Elements(queue) \/ r = hand \/ r = retransmit
Pending(r) == verdict[r] = "pending"
Answered(r) == verdict[r] \in {"success", "failure"}

\* A request the protocol holds is in one place only (once in the queue, in
\* the worker's hand, or kept for retransmission) and has no verdict yet:
\* this is why no request is ever reported twice.
OnePlace ==
    /\ \A r \in Requests : Held(r) => Pending(r)
    /\ \A i, j \in 1..Len(queue) : queue[i] = queue[j] => i = j
    /\ hand # None => hand # retransmit /\ hand \notin Elements(queue)
    /\ retransmit # None => retransmit \notin Elements(queue)

\* Requests are reported in the order in which they were made, whatever is
\* retried: when a request has its verdict, no earlier one is still held.
InOrder ==
    \A r, s \in Requests : r < s /\ Answered(s) => ~Held(r)

\* Protocol::sendDataObject promises responsibility for what it accepts.  The
\* code keeps the promise as long as the peer stays in the node store and
\* nobody stops the protocol: an unreported request is still held.
AccountedFor ==
    \A r \in Requests :
        Pending(r) /\ peerChanges = 0 /\ shutdowns = 0 => Held(r)

\* The same promise with no condition.  The code does not keep it (see
\* ProtocolRun_peer_leaves.cfg).
NothingLost ==
    \A r \in Requests : Pending(r) => Held(r)

\* Stopping the protocol loses at most the request being retransmitted.
Lost == {r \in Requests : Pending(r) /\ ~Held(r)}
AtMostOneLostByStop ==
    peerChanges = 0 => \A r, s \in Lost : r = s

\* A verdict is never changed or withdrawn.
VerdictFinal ==
    [][\A r \in Requests : verdict[r] \in {"refused", "success", "failure"}
                             => verdict'[r] = verdict[r]]_vars

\* An instance whose worker has exited and that is deleted leaves no
\* delete_protocol_event behind: handling it would use the freed object.
DeletedOnce == deleted => deleteEvents = 0

\* The instance is deleted only after its worker is gone, and the worker
\* never runs on a deleted instance.
NoRunAfterDelete == deleted => pc \in {"none", "ended"} /\ queue = <<>>

\* Every accepted request is eventually reported, unless the peer's entry
\* changed or the protocol was stopped.
EventuallyReported ==
    \A r \in Requests :
        Pending(r) ~> (~Pending(r) \/ peerChanges > 0 \/ shutdowns > 0)

\* A started protocol comes to an end: its worker stops and the instance is
\* deleted, whatever the peer and the kernel do.
EventuallyDeleted == (thr # "none") ~> deleted

-----------------------------------------------------------------------------
(* The inductive invariant behind OnePlace, InOrder and AccountedFor.      *)

\* Which labels of the worker go with its thread, a request in hand or kept.
Control ==
    /\ thr = "none" => pc = "none"
    /\ hand # None <=> pc \in {"lookup", "send"}
    /\ retransmit # None =>
         pc \in {"loop", "connectTest", "connect", "connectCheck", "wait", "exit"}

\* Requests not made yet have no verdict.
Fresh ==
    /\ kpc = "insert" => verdict[asked] = "unasked"
    /\ \A r \in Requests : r > asked => verdict[r] = "unasked"

\* The queue is in request order, behind what the worker holds (None is 0).
Sorted ==
    /\ \A i, j \in 1..Len(queue) : i < j => queue[i] < queue[j]
    /\ \A i \in 1..Len(queue) : hand < queue[i] /\ retransmit < queue[i]

HeldPending == \A r \in Requests : Held(r) => Pending(r)

\* While nobody stops the protocol and the peer stays known, a request kept
\* for retransmission is always reached again.
Undisturbed == peerChanges = 0 /\ shutdowns = 0
Calm ==
    Undisturbed =>
      /\ peerKnown /\ ~exitSignal /\ thr # "cancelled"
      /\ kpc \notin {"stopThread", "cancel", "unregister"}
      /\ mode = "garbage" => pc \in {"cleanup", "unregister", "stop", "ended"}
      /\ pc \in {"connectTest", "connect", "wait", "waiting", "receive", "lookup", "send"}
           => mode = "idle"
      /\ pc \in {"wait", "waiting", "receive", "lookup", "send"} => connected
      /\ retransmit # None => connected /\ mode = "idle" /\ pc \in {"loop", "connectTest", "wait"}
      /\ \A r \in Requests : Pending(r) => Held(r)

IInv == TypeOK /\ Control /\ Fresh /\ Sorted /\ HeldPending /\ InOrder /\ Calm
=============================================================================
