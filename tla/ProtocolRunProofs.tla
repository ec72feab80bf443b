--------------------------- MODULE ProtocolRunProofs ---------------------------
(***************************************************************************)
(* Proofs about ProtocolRun, for every number of requests and every        *)
(* configuration of the protocol.                                          *)
(***************************************************************************)
EXTENDS ProtocolRun, TLAPS

USE BoundsAssumption, ConfigAssumption

\* No step gives a flag a value that is not Boolean.
LEMMA FlagsStep == Flags /\ Next => Flags'
<1> SUFFICES ASSUME Flags, Next PROVE Flags'
    OBVIOUS
<1> USE DEF Flags, objVars, threadVars, queueVars, runVars,
        reqVars, envVars, retryVars
<1>1. CASE RunEntry BY <1>1 DEF RunEntry
<1>2. CASE LoopTest BY <1>2 DEF LoopTest
<1>3. CASE ConnectTest BY <1>3 DEF ConnectTest
<1>4. CASE ConnectSucceeds BY <1>4 DEF ConnectSucceeds
<1>5. CASE ConnectFatal BY <1>5 DEF ConnectFatal
<1>6. CASE ConnectFails BY <1>6 DEF ConnectFails
<1>7. CASE ConnectCheck BY <1>7 DEF ConnectCheck
<1>8. CASE TakeRetransmit BY <1>8 DEF TakeRetransmit, ClearRetransmit
<1>9. CASE TakeFromQueue BY <1>9 DEF TakeFromQueue
<1>10. CASE StartWaiting BY <1>10 DEF StartWaiting
<1>11. CASE WaitEnds BY <1>11 DEF WaitEnds, EndOfLoop
<1>12. CASE WaitIncoming BY <1>12 DEF WaitIncoming
<1>13. CASE WaitOrReceiveError BY <1>13 DEF WaitOrReceiveError
<1>14. CASE ReceiveSucceeds BY <1>14 DEF ReceiveSucceeds, EndOfLoop
<1>15. CASE ReceiveEnds BY <1>15 DEF ReceiveEnds, EndOfLoop
<1>16. CASE LookupPeer BY <1>16 DEF LookupPeer
<1>17. CASE RunAgain BY <1>17 DEF RunAgain
<1>18. CASE SendSucceeds BY <1>18 DEF SendSucceeds, EndOfLoop, Tell
<1>19. CASE SendEnds BY <1>19 DEF SendEnds, EndOfLoop, Tell
<1>20. CASE SendErrs BY <1>20 DEF SendErrs, GiveUpSend, RetrySend, EndOfLoop, Tell
<1>21. CASE SendTimesOut BY <1>21 DEF SendTimesOut, GiveUpSend, RetrySend, EndOfLoop, Tell
<1>22. CASE RunExit BY <1>22 DEF RunExit
<1>23. CASE Cleanup BY <1>23 DEF Cleanup
<1>24. CASE CleanupTest BY <1>24 DEF CleanupTest
<1>25. CASE CleanupUnregister BY <1>25 DEF CleanupUnregister
<1>26. CASE ThreadStops BY <1>26 DEF ThreadStops
<1>27. CASE SendDataObject BY <1>27 DEF SendDataObject
<1>28. CASE InsertInQueue BY <1>28 DEF InsertInQueue, Tell
<1>29. CASE StartTxRx BY <1>29 DEF StartTxRx
<1>30. CASE Shutdown BY <1>30 DEF Shutdown
<1>31. CASE ShutdownTest BY <1>31 DEF ShutdownTest
<1>32. CASE CancelThread BY <1>32 DEF CancelThread
<1>33. CASE ShutdownUnregister BY <1>33 DEF ShutdownUnregister
<1>34. CASE DeleteEvent BY <1>34 DEF DeleteEvent, DeleteQueued
<1>35. CASE JoinAndDelete BY <1>35 DEF JoinAndDelete, ClearedVerdicts
<1>36. CASE PeerChanges BY <1>36 DEF PeerChanges
<1>37. QED
  BY <1>1, <1>2, <1>3, <1>4, <1>5, <1>6, <1>7, <1>8, <1>9, <1>10, <1>11, <1>12, <1>13,
     <1>14, <1>15, <1>16, <1>17, <1>18, <1>19, <1>20, <1>21, <1>22, <1>23, <1>24, <1>25,
     <1>26, <1>27, <1>28, <1>29, <1>30, <1>31, <1>32, <1>33, <1>34, <1>35, <1>36
  DEF Next, Worker, Kernel

\* One element more at the end of a sequence.
LEMMA OneMore == ASSUME NEW S, NEW s \in Seq(S), NEW x \in S PROVE Append(s, x) \in Seq(S)
OBVIOUS

\* No step takes the other variables out of their types.
LEMMA ValuesStep == TypeOK /\ Next => Values'
<1> SUFFICES ASSUME TypeOK, Next PROVE Values'
    OBVIOUS
<1> USE DEF TypeOK, Values, Requests, None, Goto, WorkerLabels, KernelLabels, Verdicts,
        objVars, threadVars, queueVars, runVars,
        reqVars, envVars, retryVars
<1>1. CASE RunEntry BY <1>1 DEF RunEntry
<1>2. CASE LoopTest BY <1>2 DEF LoopTest
<1>3. CASE ConnectTest BY <1>3 DEF ConnectTest
<1>4. CASE ConnectSucceeds BY <1>4 DEF ConnectSucceeds
<1>5. CASE ConnectFatal BY <1>5 DEF ConnectFatal
<1>6. CASE ConnectFails BY <1>6 DEF ConnectFails
<1>7. CASE ConnectCheck BY <1>7 DEF ConnectCheck
<1>8. CASE TakeRetransmit BY <1>8 DEF TakeRetransmit, ClearRetransmit
<1>9. CASE TakeFromQueue BY <1>9 DEF TakeFromQueue
<1>10. CASE StartWaiting BY <1>10 DEF StartWaiting
<1>11. CASE WaitEnds BY <1>11 DEF WaitEnds, EndOfLoop
<1>12. CASE WaitIncoming BY <1>12 DEF WaitIncoming
<1>13. CASE WaitOrReceiveError BY <1>13 DEF WaitOrReceiveError
<1>14. CASE ReceiveSucceeds BY <1>14 DEF ReceiveSucceeds, EndOfLoop
<1>15. CASE ReceiveEnds BY <1>15 DEF ReceiveEnds, EndOfLoop
<1>16. CASE LookupPeer BY <1>16 DEF LookupPeer
<1>17. CASE RunAgain BY <1>17 DEF RunAgain
<1>18. CASE SendSucceeds BY <1>18 DEF SendSucceeds, EndOfLoop, Tell
<1>19. CASE SendEnds BY <1>19 DEF SendEnds, EndOfLoop, Tell
<1>20. CASE SendErrs BY <1>20 DEF SendErrs, GiveUpSend, RetrySend, EndOfLoop, Tell
<1>21. CASE SendTimesOut BY <1>21 DEF SendTimesOut, GiveUpSend, RetrySend, EndOfLoop, Tell
<1>22. CASE RunExit BY <1>22 DEF RunExit
<1>23. CASE Cleanup BY <1>23 DEF Cleanup
<1>24. CASE CleanupTest BY <1>24 DEF CleanupTest
<1>25. CASE CleanupUnregister BY <1>25 DEF CleanupUnregister
<1>26. CASE ThreadStops BY <1>26 DEF ThreadStops
<1>27. CASE SendDataObject BY <1>27 DEF SendDataObject
<1>28. CASE InsertInQueue
  <2>1. asked \in Requests BY <1>28 DEF InsertInQueue
  <2>2. verdict' \in [Requests -> Verdicts]
    BY <1>28, <2>1 DEF InsertInQueue, Tell
  <2>3. queue' \in Seq(Requests)
    <3>1. queue' = queue \/ queue' = Append(queue, asked) BY <1>28 DEF InsertInQueue
    <3>2. queue \in Seq(Requests) OBVIOUS
    <3>3. Append(queue, asked) \in Seq(Requests) BY <2>1, <3>2, OneMore
    <3>4. QED BY <3>1, <3>2, <3>3
  <2>4. kpc' \in {"idle", "start"}
    BY <1>28 DEF InsertInQueue
  <2>5. QED
    BY <1>28, <2>1, <2>2, <2>3, <2>4 DEF InsertInQueue
<1>29. CASE StartTxRx BY <1>29 DEF StartTxRx
<1>30. CASE Shutdown BY <1>30 DEF Shutdown
<1>31. CASE ShutdownTest BY <1>31 DEF ShutdownTest
<1>32. CASE CancelThread BY <1>32 DEF CancelThread
<1>33. CASE ShutdownUnregister BY <1>33 DEF ShutdownUnregister
<1>34. CASE DeleteEvent BY <1>34 DEF DeleteEvent, DeleteQueued
<1>35. CASE JoinAndDelete BY <1>35 DEF JoinAndDelete, ClearedVerdicts
<1>36. CASE PeerChanges BY <1>36 DEF PeerChanges
<1>37. QED
  BY <1>1, <1>2, <1>3, <1>4, <1>5, <1>6, <1>7, <1>8, <1>9, <1>10, <1>11, <1>12, <1>13,
     <1>14, <1>15, <1>16, <1>17, <1>18, <1>19, <1>20, <1>21, <1>22, <1>23, <1>24, <1>25,
     <1>26, <1>27, <1>28, <1>29, <1>30, <1>31, <1>32, <1>33, <1>34, <1>35, <1>36
  DEF Next, Worker, Kernel

\* The initial state is well typed.
LEMMA InitType == Init => TypeOK
<1>1. Init => Flags
  BY DEF Init, Flags
<1>2. Init => Values
  BY DEF Init, Values, Requests, None, WorkerLabels, KernelLabels, Verdicts
<1>3. QED BY <1>1, <1>2 DEF TypeOK

\* Type correctness of the protocol instance, its worker and its queue.
THEOREM TypeCorrect == Spec => []TypeOK
<1>1. Init => TypeOK BY InitType
<1>2. TypeOK /\ [Next]_vars => TypeOK'
  <2> SUFFICES ASSUME TypeOK, [Next]_vars PROVE TypeOK'
      OBVIOUS
  <2>1. CASE Next
    BY <2>1, FlagsStep, ValuesStep DEF TypeOK
  <2>2. CASE UNCHANGED vars
    BY <2>2 DEF vars, TypeOK, Flags, Values, objVars, threadVars, queueVars, runVars,
        reqVars, envVars, retryVars
  <2>3. QED BY <2>1, <2>2
<1>3. QED BY <1>1, <1>2, PTL DEF Spec

\* What a queue holds after an insertion, and before its first element is taken.
LEMMA ElementsAppend ==
  ASSUME NEW s \in Seq(Requests), NEW r \in Requests
  PROVE  Elements(Append(s, r)) = Elements(s) \cup {r}
BY DEF Elements

\* The elements of a sequence are its head and those of its tail.
LEMMA ElementsTail ==
  ASSUME NEW s \in Seq(Requests), s # <<>>
  PROVE  Elements(s) = {Head(s)} \cup Elements(Tail(s))
<1>1. ASSUME NEW i \in 1..Len(s) PROVE s[i] \in {Head(s)} \cup Elements(Tail(s))
  <2>1. CASE i = 1 BY <2>1
  <2>2. CASE i # 1
    <3>1. i - 1 \in 1..Len(Tail(s)) /\ s[i] = Tail(s)[i - 1] BY <2>2
    <3>2. QED BY <3>1 DEF Elements
  <2>3. QED BY <2>1, <2>2
<1>2. ASSUME NEW i \in 1..Len(Tail(s)) PROVE Tail(s)[i] \in Elements(s)
  <2>1. i + 1 \in 1..Len(s) /\ Tail(s)[i] = s[i + 1] OBVIOUS
  <2>2. QED BY <2>1 DEF Elements
<1>3. Head(s) \in Elements(s)
  <2>1. 1 \in 1..Len(s) /\ Head(s) = s[1] OBVIOUS
  <2>2. QED BY <2>1 DEF Elements
<1>4. QED BY <1>1, <1>2, <1>3 DEF Elements

\* The worker's labels.
LEMMA ControlStep == TypeOK /\ Control /\ Next => Control'
<1> SUFFICES ASSUME TypeOK, Control, Next PROVE Control'
    OBVIOUS
<1> USE DEF TypeOK, Values, Control, Requests, None, Goto,
        objVars, threadVars, queueVars, runVars, reqVars, envVars, retryVars
<1>1. CASE RunEntry BY <1>1 DEF RunEntry
<1>2. CASE LoopTest BY <1>2 DEF LoopTest
<1>3. CASE ConnectTest BY <1>3 DEF ConnectTest
<1>4. CASE ConnectSucceeds BY <1>4 DEF ConnectSucceeds
<1>5. CASE ConnectFatal BY <1>5 DEF ConnectFatal
<1>6. CASE ConnectFails BY <1>6 DEF ConnectFails
<1>7. CASE ConnectCheck BY <1>7 DEF ConnectCheck
<1>8. CASE TakeRetransmit BY <1>8 DEF TakeRetransmit, ClearRetransmit
<1>9. CASE TakeFromQueue
  <2>1. Head(queue) \in Requests BY <1>9 DEF TakeFromQueue
  <2>2. QED BY <1>9, <2>1 DEF TakeFromQueue, QueueIsNext
<1>10. CASE StartWaiting BY <1>10 DEF StartWaiting
<1>11. CASE WaitEnds BY <1>11 DEF WaitEnds, EndOfLoop
<1>12. CASE WaitIncoming BY <1>12 DEF WaitIncoming
<1>13. CASE WaitOrReceiveError BY <1>13 DEF WaitOrReceiveError
<1>14. CASE ReceiveSucceeds BY <1>14 DEF ReceiveSucceeds, EndOfLoop
<1>15. CASE ReceiveEnds BY <1>15 DEF ReceiveEnds, EndOfLoop
<1>16. CASE LookupPeer BY <1>16 DEF LookupPeer
<1>17. CASE RunAgain BY <1>17 DEF RunAgain
<1>18. CASE SendSucceeds BY <1>18 DEF SendSucceeds, EndOfLoop, Tell
<1>19. CASE SendEnds BY <1>19 DEF SendEnds, EndOfLoop, Tell
<1>20. CASE SendErrs BY <1>20 DEF SendErrs, GiveUpSend, RetrySend, EndOfLoop, Tell
<1>21. CASE SendTimesOut BY <1>21 DEF SendTimesOut, GiveUpSend, RetrySend, EndOfLoop, Tell
<1>22. CASE RunExit BY <1>22 DEF RunExit
<1>23. CASE Cleanup BY <1>23 DEF Cleanup
<1>24. CASE CleanupTest BY <1>24 DEF CleanupTest
<1>25. CASE CleanupUnregister BY <1>25 DEF CleanupUnregister
<1>26. CASE ThreadStops BY <1>26 DEF ThreadStops
<1>27. CASE SendDataObject BY <1>27 DEF SendDataObject
<1>28. CASE InsertInQueue BY <1>28 DEF InsertInQueue, Tell
<1>29. CASE StartTxRx BY <1>29 DEF StartTxRx
<1>30. CASE Shutdown BY <1>30 DEF Shutdown
<1>31. CASE ShutdownTest BY <1>31 DEF ShutdownTest
<1>32. CASE CancelThread BY <1>32 DEF CancelThread
<1>33. CASE ShutdownUnregister BY <1>33 DEF ShutdownUnregister
<1>34. CASE DeleteEvent BY <1>34 DEF DeleteEvent, DeleteQueued
<1>35. CASE JoinAndDelete BY <1>35 DEF JoinAndDelete, ClearedVerdicts, Joined
<1>36. CASE PeerChanges BY <1>36 DEF PeerChanges
<1>37. QED
  BY <1>1, <1>2, <1>3, <1>4, <1>5, <1>6, <1>7, <1>8, <1>9, <1>10, <1>11, <1>12, <1>13,
     <1>14, <1>15, <1>16, <1>17, <1>18, <1>19, <1>20, <1>21, <1>22, <1>23, <1>24, <1>25,
     <1>26, <1>27, <1>28, <1>29, <1>30, <1>31, <1>32, <1>33, <1>34, <1>35, <1>36
  DEF Next, Worker, Kernel

\* Requests get a verdict only once they are made.
LEMMA FreshStep == TypeOK /\ Control /\ Fresh /\ HeldPending /\ Next => Fresh'
<1> SUFFICES ASSUME TypeOK, Control, Fresh, HeldPending, Next PROVE Fresh'
    OBVIOUS
<1> USE DEF TypeOK, Values, Control, Fresh, HeldPending, Held, Pending, Requests, None, Goto,
        objVars, threadVars, queueVars, runVars, reqVars, envVars, retryVars
<1>1. CASE RunEntry BY <1>1 DEF RunEntry
<1>2. CASE LoopTest BY <1>2 DEF LoopTest
<1>3. CASE ConnectTest BY <1>3 DEF ConnectTest
<1>4. CASE ConnectSucceeds BY <1>4 DEF ConnectSucceeds
<1>5. CASE ConnectFatal BY <1>5 DEF ConnectFatal
<1>6. CASE ConnectFails BY <1>6 DEF ConnectFails
<1>7. CASE ConnectCheck BY <1>7 DEF ConnectCheck
<1>8. CASE TakeRetransmit BY <1>8 DEF TakeRetransmit, ClearRetransmit
<1>9. CASE TakeFromQueue BY <1>9 DEF TakeFromQueue
<1>10. CASE StartWaiting BY <1>10 DEF StartWaiting
<1>11. CASE WaitEnds BY <1>11 DEF WaitEnds, EndOfLoop
<1>12. CASE WaitIncoming BY <1>12 DEF WaitIncoming
<1>13. CASE WaitOrReceiveError BY <1>13 DEF WaitOrReceiveError
<1>14. CASE ReceiveSucceeds BY <1>14 DEF ReceiveSucceeds, EndOfLoop
<1>15. CASE ReceiveEnds BY <1>15 DEF ReceiveEnds, EndOfLoop
<1>16. CASE LookupPeer BY <1>16 DEF LookupPeer
<1>17. CASE RunAgain BY <1>17 DEF RunAgain
<1>18. CASE SendSucceeds BY <1>18 DEF SendSucceeds, EndOfLoop, Tell
<1>19. CASE SendEnds BY <1>19 DEF SendEnds, EndOfLoop, Tell
<1>20. CASE SendErrs BY <1>20 DEF SendErrs, GiveUpSend, RetrySend, EndOfLoop, Tell
<1>21. CASE SendTimesOut BY <1>21 DEF SendTimesOut, GiveUpSend, RetrySend, EndOfLoop, Tell
<1>22. CASE RunExit BY <1>22 DEF RunExit
<1>23. CASE Cleanup BY <1>23 DEF Cleanup
<1>24. CASE CleanupTest BY <1>24 DEF CleanupTest
<1>25. CASE CleanupUnregister BY <1>25 DEF CleanupUnregister
<1>26. CASE ThreadStops BY <1>26 DEF ThreadStops
<1>27. CASE SendDataObject BY <1>27 DEF SendDataObject
<1>28. CASE InsertInQueue BY <1>28 DEF InsertInQueue, Tell
<1>29. CASE StartTxRx BY <1>29 DEF StartTxRx
<1>30. CASE Shutdown BY <1>30 DEF Shutdown
<1>31. CASE ShutdownTest BY <1>31 DEF ShutdownTest
<1>32. CASE CancelThread BY <1>32 DEF CancelThread
<1>33. CASE ShutdownUnregister BY <1>33 DEF ShutdownUnregister
<1>34. CASE DeleteEvent BY <1>34 DEF DeleteEvent, DeleteQueued
<1>35. CASE JoinAndDelete BY <1>35 DEF JoinAndDelete, ClearedVerdicts, Joined
<1>36. CASE PeerChanges BY <1>36 DEF PeerChanges
<1>37. QED
  BY <1>1, <1>2, <1>3, <1>4, <1>5, <1>6, <1>7, <1>8, <1>9, <1>10, <1>11, <1>12, <1>13,
     <1>14, <1>15, <1>16, <1>17, <1>18, <1>19, <1>20, <1>21, <1>22, <1>23, <1>24, <1>25,
     <1>26, <1>27, <1>28, <1>29, <1>30, <1>31, <1>32, <1>33, <1>34, <1>35, <1>36
  DEF Next, Worker, Kernel

\* The queue stays in request order, behind what the worker holds.
LEMMA SortedStep == TypeOK /\ Control /\ Fresh /\ HeldPending /\ Sorted /\ Next => Sorted'
<1> SUFFICES ASSUME TypeOK, Control, Fresh, HeldPending, Sorted, Next PROVE Sorted'
    OBVIOUS
<1> USE DEF TypeOK, Values, Control, Sorted, Requests, None, Goto,
        objVars, threadVars, queueVars, runVars, reqVars, envVars, retryVars
<1>1. CASE RunEntry BY <1>1 DEF RunEntry
<1>2. CASE LoopTest BY <1>2 DEF LoopTest
<1>3. CASE ConnectTest BY <1>3 DEF ConnectTest
<1>4. CASE ConnectSucceeds BY <1>4 DEF ConnectSucceeds
<1>5. CASE ConnectFatal BY <1>5 DEF ConnectFatal
<1>6. CASE ConnectFails BY <1>6 DEF ConnectFails
<1>7. CASE ConnectCheck BY <1>7 DEF ConnectCheck
<1>8. CASE TakeRetransmit BY <1>8 DEF TakeRetransmit, ClearRetransmit
<1>9. CASE TakeFromQueue
  <2>1. /\ queue \in Seq(Requests) /\ queue # <<>> /\ queue' = Tail(queue)
        /\ hand' = Head(queue) /\ retransmit' = retransmit
    BY <1>9 DEF TakeFromQueue
  <2>2. Len(queue') = Len(queue) - 1 /\ \A i \in 1..Len(queue') : queue'[i] = queue[i + 1]
    BY <2>1
  <2>3. Head(queue) = queue[1] BY <2>1
  <2>4. QED BY <2>1, <2>2, <2>3
<1>10. CASE StartWaiting BY <1>10 DEF StartWaiting
<1>11. CASE WaitEnds BY <1>11 DEF WaitEnds, EndOfLoop
<1>12. CASE WaitIncoming BY <1>12 DEF WaitIncoming
<1>13. CASE WaitOrReceiveError BY <1>13 DEF WaitOrReceiveError
<1>14. CASE ReceiveSucceeds BY <1>14 DEF ReceiveSucceeds, EndOfLoop
<1>15. CASE ReceiveEnds BY <1>15 DEF ReceiveEnds, EndOfLoop
<1>16. CASE LookupPeer BY <1>16 DEF LookupPeer
<1>17. CASE RunAgain BY <1>17 DEF RunAgain
<1>18. CASE SendSucceeds BY <1>18 DEF SendSucceeds, EndOfLoop, Tell
<1>19. CASE SendEnds BY <1>19 DEF SendEnds, EndOfLoop, Tell
<1>20. CASE SendErrs BY <1>20 DEF SendErrs, GiveUpSend, RetrySend, EndOfLoop, Tell
<1>21. CASE SendTimesOut BY <1>21 DEF SendTimesOut, GiveUpSend, RetrySend, EndOfLoop, Tell
<1>22. CASE RunExit BY <1>22 DEF RunExit
<1>23. CASE Cleanup BY <1>23 DEF Cleanup
<1>24. CASE CleanupTest BY <1>24 DEF CleanupTest
<1>25. CASE CleanupUnregister BY <1>25 DEF CleanupUnregister
<1>26. CASE ThreadStops BY <1>26 DEF ThreadStops
<1>27. CASE SendDataObject BY <1>27 DEF SendDataObject
<1>28. CASE InsertInQueue
  <2>1. /\ kpc = "insert" /\ asked \in Requests /\ verdict[asked] = "unasked"
        /\ hand' = hand /\ retransmit' = retransmit
    BY <1>28 DEF InsertInQueue, Fresh
  <2>2. queue' = queue \/ queue' = Append(queue, asked)
    BY <1>28 DEF InsertInQueue
  <2>3. \A r \in Requests : Held(r) => r < asked
    BY <2>1 DEF Fresh, HeldPending, Pending
  <2>4. \A i \in 1..Len(queue) : queue[i] < asked
    BY <2>3 DEF Held, Elements
  <2>5. hand < asked /\ retransmit < asked
    BY <2>1, <2>3 DEF Held
  <2>6. CASE queue' = queue BY <2>1, <2>6
  <2>7. CASE queue' = Append(queue, asked)
    <3>1. /\ Len(queue') = Len(queue) + 1
          /\ \A i \in 1..Len(queue') : queue'[i] = IF i <= Len(queue) THEN queue[i] ELSE asked
      BY <2>1, <2>7
    <3>2. ASSUME NEW i \in 1..Len(queue'), NEW j \in 1..Len(queue'), i < j
          PROVE  queue'[i] < queue'[j]
      <4>1. i \in 1..Len(queue) /\ queue'[i] = queue[i] BY <3>1, <3>2
      <4>2. CASE j <= Len(queue)
        <5>1. j \in 1..Len(queue) /\ queue'[j] = queue[j] BY <3>1, <4>2
        <5>2. QED BY <3>2, <4>1, <5>1
      <4>3. CASE j > Len(queue)
        <5>1. queue'[j] = asked BY <3>1, <4>3
        <5>2. QED BY <2>4, <4>1, <5>1
      <4>4. QED BY <4>2, <4>3
    <3>3. ASSUME NEW i \in 1..Len(queue') PROVE hand < queue'[i] /\ retransmit < queue'[i]
      BY <2>5, <3>1
    <3>4. QED BY <2>1, <3>2, <3>3
  <2>8. QED BY <2>2, <2>6, <2>7
<1>29. CASE StartTxRx BY <1>29 DEF StartTxRx
<1>30. CASE Shutdown BY <1>30 DEF Shutdown
<1>31. CASE ShutdownTest BY <1>31 DEF ShutdownTest
<1>32. CASE CancelThread BY <1>32 DEF CancelThread
<1>33. CASE ShutdownUnregister BY <1>33 DEF ShutdownUnregister
<1>34. CASE DeleteEvent BY <1>34 DEF DeleteEvent, DeleteQueued
<1>35. CASE JoinAndDelete BY <1>35 DEF JoinAndDelete, ClearedVerdicts, Joined
<1>36. CASE PeerChanges BY <1>36 DEF PeerChanges
<1>37. QED
  BY <1>1, <1>2, <1>3, <1>4, <1>5, <1>6, <1>7, <1>8, <1>9, <1>10, <1>11, <1>12, <1>13,
     <1>14, <1>15, <1>16, <1>17, <1>18, <1>19, <1>20, <1>21, <1>22, <1>23, <1>24, <1>25,
     <1>26, <1>27, <1>28, <1>29, <1>30, <1>31, <1>32, <1>33, <1>34, <1>35, <1>36
  DEF Next, Worker, Kernel

\* At the end of a send the request in hand is nowhere else.
LEMMA HandAlone ==
  TypeOK /\ Control /\ Sorted /\ pc = "send"
    => hand \in Requests /\ retransmit = None /\ hand \notin Elements(queue)
BY DEF TypeOK, Values, Control, Sorted, Elements, Requests, None

\* When the worker is gone it holds nothing.
LEMMA NothingHeldAtJoin ==
  TypeOK /\ Control /\ Joined => hand = None /\ retransmit = None
BY DEF TypeOK, Values, Control, Joined, Requests, None

\* What is held has no verdict.
LEMMA HeldPendingStep ==
  TypeOK /\ Control /\ Fresh /\ HeldPending /\ Sorted /\ Next => HeldPending'
<1> SUFFICES ASSUME TypeOK, Control, Fresh, HeldPending, Sorted, Next PROVE HeldPending'
    OBVIOUS
<1> USE DEF TypeOK, Values, Control, HeldPending, Held, Pending, Requests, None, Goto,
        objVars, threadVars, queueVars, runVars, reqVars, envVars, retryVars
<1>1. CASE RunEntry BY <1>1 DEF RunEntry
<1>2. CASE LoopTest BY <1>2 DEF LoopTest
<1>3. CASE ConnectTest BY <1>3 DEF ConnectTest
<1>4. CASE ConnectSucceeds BY <1>4 DEF ConnectSucceeds
<1>5. CASE ConnectFatal BY <1>5 DEF ConnectFatal
<1>6. CASE ConnectFails BY <1>6 DEF ConnectFails
<1>7. CASE ConnectCheck BY <1>7 DEF ConnectCheck
<1>8. CASE TakeRetransmit BY <1>8 DEF TakeRetransmit, ClearRetransmit
<1>9. CASE TakeFromQueue
  <2>1. Elements(queue) = {Head(queue)} \cup Elements(Tail(queue))
    BY <1>9, ElementsTail DEF TakeFromQueue
  <2>2. QED BY <1>9, <2>1 DEF TakeFromQueue
<1>10. CASE StartWaiting BY <1>10 DEF StartWaiting
<1>11. CASE WaitEnds BY <1>11 DEF WaitEnds, EndOfLoop
<1>12. CASE WaitIncoming BY <1>12 DEF WaitIncoming
<1>13. CASE WaitOrReceiveError BY <1>13 DEF WaitOrReceiveError
<1>14. CASE ReceiveSucceeds BY <1>14 DEF ReceiveSucceeds, EndOfLoop
<1>15. CASE ReceiveEnds BY <1>15 DEF ReceiveEnds, EndOfLoop
<1>16. CASE LookupPeer BY <1>16 DEF LookupPeer
<1>17. CASE RunAgain BY <1>17 DEF RunAgain
<1>18. CASE SendSucceeds
  <2>1. hand \in Requests /\ retransmit = None /\ hand \notin Elements(queue)
    BY <1>18, HandAlone DEF SendSucceeds
  <2>2. QED BY <1>18, <2>1 DEF SendSucceeds, EndOfLoop, Tell
<1>19. CASE SendEnds
  <2>1. hand \in Requests /\ retransmit = None /\ hand \notin Elements(queue)
    BY <1>19, HandAlone DEF SendEnds
  <2>2. QED BY <1>19, <2>1 DEF SendEnds, EndOfLoop, Tell
<1>20. CASE SendErrs
  <2>1. hand \in Requests /\ retransmit = None /\ hand \notin Elements(queue)
    BY <1>20, HandAlone DEF SendErrs
  <2>2. QED BY <1>20, <2>1 DEF SendErrs, GiveUpSend, RetrySend, EndOfLoop, Tell
<1>21. CASE SendTimesOut
  <2>1. hand \in Requests /\ retransmit = None /\ hand \notin Elements(queue)
    BY <1>21, HandAlone DEF SendTimesOut
  <2>2. QED BY <1>21, <2>1 DEF SendTimesOut, GiveUpSend, RetrySend, EndOfLoop, Tell
<1>22. CASE RunExit BY <1>22 DEF RunExit
<1>23. CASE Cleanup BY <1>23 DEF Cleanup
<1>24. CASE CleanupTest BY <1>24 DEF CleanupTest
<1>25. CASE CleanupUnregister BY <1>25 DEF CleanupUnregister
<1>26. CASE ThreadStops BY <1>26 DEF ThreadStops
<1>27. CASE SendDataObject BY <1>27 DEF SendDataObject
<1>28. CASE InsertInQueue
  <2>1. asked \in Requests BY <1>28 DEF InsertInQueue
  <2>2. Elements(queue') \subseteq Elements(queue) \cup {asked}
    BY <1>28, <2>1, ElementsAppend DEF InsertInQueue
  <2>3. ~closed => verdict'[asked] = "pending"
    BY <1>28, <2>1 DEF InsertInQueue, Tell
  <2>4. closed => Elements(queue') = Elements(queue)
    BY <1>28 DEF InsertInQueue
  <2>5. ~Held(asked)
    BY <1>28, <2>1 DEF InsertInQueue, Fresh
  <2>6. \A r \in Requests \ {asked} : verdict'[r] = verdict[r]
    BY <1>28, <2>1 DEF InsertInQueue, Tell
  <2>7. QED BY <1>28, <2>1, <2>2, <2>3, <2>4, <2>5, <2>6 DEF InsertInQueue
<1>29. CASE StartTxRx BY <1>29 DEF StartTxRx
<1>30. CASE Shutdown BY <1>30 DEF Shutdown
<1>31. CASE ShutdownTest BY <1>31 DEF ShutdownTest
<1>32. CASE CancelThread BY <1>32 DEF CancelThread
<1>33. CASE ShutdownUnregister BY <1>33 DEF ShutdownUnregister
<1>34. CASE DeleteEvent BY <1>34 DEF DeleteEvent, DeleteQueued
<1>35. CASE JoinAndDelete
  <2>1. hand = None /\ retransmit = None
    BY <1>35, NothingHeldAtJoin DEF JoinAndDelete
  <2>2. Elements(queue') = {} BY <1>35 DEF JoinAndDelete, Elements
  <2>3. QED BY <1>35, <2>1, <2>2 DEF JoinAndDelete
<1>36. CASE PeerChanges BY <1>36 DEF PeerChanges
<1>37. QED
  BY <1>1, <1>2, <1>3, <1>4, <1>5, <1>6, <1>7, <1>8, <1>9, <1>10, <1>11, <1>12, <1>13,
     <1>14, <1>15, <1>16, <1>17, <1>18, <1>19, <1>20, <1>21, <1>22, <1>23, <1>24, <1>25,
     <1>26, <1>27, <1>28, <1>29, <1>30, <1>31, <1>32, <1>33, <1>34, <1>35, <1>36
  DEF Next, Worker, Kernel

\* Verdicts come in the order of the requests.
LEMMA InOrderStep ==
  TypeOK /\ Control /\ Fresh /\ HeldPending /\ Sorted /\ InOrder /\ Next => InOrder'
<1> SUFFICES ASSUME TypeOK, Control, Fresh, HeldPending, Sorted, InOrder, Next PROVE InOrder'
    OBVIOUS
<1> USE DEF TypeOK, Values, Control, InOrder, Held, Answered, Requests, None, Goto,
        objVars, threadVars, queueVars, runVars, reqVars, envVars, retryVars
<1>1. CASE RunEntry BY <1>1 DEF RunEntry
<1>2. CASE LoopTest BY <1>2 DEF LoopTest
<1>3. CASE ConnectTest BY <1>3 DEF ConnectTest
<1>4. CASE ConnectSucceeds BY <1>4 DEF ConnectSucceeds
<1>5. CASE ConnectFatal BY <1>5 DEF ConnectFatal
<1>6. CASE ConnectFails BY <1>6 DEF ConnectFails
<1>7. CASE ConnectCheck BY <1>7 DEF ConnectCheck
<1>8. CASE TakeRetransmit BY <1>8 DEF TakeRetransmit, ClearRetransmit
<1>9. CASE TakeFromQueue
  <2>1. Elements(queue) = {Head(queue)} \cup Elements(Tail(queue))
    BY <1>9, ElementsTail DEF TakeFromQueue
  <2>2. QED BY <1>9, <2>1 DEF TakeFromQueue
<1>10. CASE StartWaiting BY <1>10 DEF StartWaiting
<1>11. CASE WaitEnds BY <1>11 DEF WaitEnds, EndOfLoop
<1>12. CASE WaitIncoming BY <1>12 DEF WaitIncoming
<1>13. CASE WaitOrReceiveError BY <1>13 DEF WaitOrReceiveError
<1>14. CASE ReceiveSucceeds BY <1>14 DEF ReceiveSucceeds, EndOfLoop
<1>15. CASE ReceiveEnds BY <1>15 DEF ReceiveEnds, EndOfLoop
<1>16. CASE LookupPeer BY <1>16 DEF LookupPeer
<1>17. CASE RunAgain BY <1>17 DEF RunAgain
<1>18. CASE SendSucceeds
  <2>1. hand \in Requests /\ retransmit = None
    BY <1>18, HandAlone DEF SendSucceeds
  <2>2. \A r \in Requests : r \in Elements(queue) => hand < r
    BY DEF Sorted, Elements
  <2>3. QED BY <1>18, <2>1, <2>2 DEF SendSucceeds, EndOfLoop, Tell
<1>19. CASE SendEnds
  <2>1. hand \in Requests /\ retransmit = None
    BY <1>19, HandAlone DEF SendEnds
  <2>2. \A r \in Requests : r \in Elements(queue) => hand < r
    BY DEF Sorted, Elements
  <2>3. QED BY <1>19, <2>1, <2>2 DEF SendEnds, EndOfLoop, Tell
<1>20. CASE SendErrs
  <2>1. hand \in Requests /\ retransmit = None
    BY <1>20, HandAlone DEF SendErrs
  <2>2. \A r \in Requests : r \in Elements(queue) => hand < r
    BY DEF Sorted, Elements
  <2>3. QED BY <1>20, <2>1, <2>2 DEF SendErrs, GiveUpSend, RetrySend, EndOfLoop, Tell
<1>21. CASE SendTimesOut
  <2>1. hand \in Requests /\ retransmit = None
    BY <1>21, HandAlone DEF SendTimesOut
  <2>2. \A r \in Requests : r \in Elements(queue) => hand < r
    BY DEF Sorted, Elements
  <2>3. QED BY <1>21, <2>1, <2>2 DEF SendTimesOut, GiveUpSend, RetrySend, EndOfLoop, Tell
<1>22. CASE RunExit BY <1>22 DEF RunExit
<1>23. CASE Cleanup BY <1>23 DEF Cleanup
<1>24. CASE CleanupTest BY <1>24 DEF CleanupTest
<1>25. CASE CleanupUnregister BY <1>25 DEF CleanupUnregister
<1>26. CASE ThreadStops BY <1>26 DEF ThreadStops
<1>27. CASE SendDataObject BY <1>27 DEF SendDataObject
<1>28. CASE InsertInQueue
  <2>1. asked \in Requests BY <1>28 DEF InsertInQueue
  <2>2. Elements(queue') \subseteq Elements(queue) \cup {asked}
    BY <1>28, <2>1, ElementsAppend DEF InsertInQueue
  <2>3. \A r \in Requests : Answered(r)' => Answered(r) /\ r < asked
    BY <1>28, <2>1 DEF InsertInQueue, Tell, Fresh, Verdicts
  <2>4. QED BY <1>28, <2>1, <2>2, <2>3 DEF InsertInQueue
<1>29. CASE StartTxRx BY <1>29 DEF StartTxRx
<1>30. CASE Shutdown BY <1>30 DEF Shutdown
<1>31. CASE ShutdownTest BY <1>31 DEF ShutdownTest
<1>32. CASE CancelThread BY <1>32 DEF CancelThread
<1>33. CASE ShutdownUnregister BY <1>33 DEF ShutdownUnregister
<1>34. CASE DeleteEvent BY <1>34 DEF DeleteEvent, DeleteQueued
<1>35. CASE JoinAndDelete
  <2>1. hand = None /\ retransmit = None
    BY <1>35, NothingHeldAtJoin DEF JoinAndDelete
  <2>2. Elements(queue') = {} BY <1>35 DEF JoinAndDelete, Elements
  <2>3. QED BY <1>35, <2>1, <2>2 DEF JoinAndDelete
<1>36. CASE PeerChanges BY <1>36 DEF PeerChanges
<1>37. QED
  BY <1>1, <1>2, <1>3, <1>4, <1>5, <1>6, <1>7, <1>8, <1>9, <1>10, <1>11, <1>12, <1>13,
     <1>14, <1>15, <1>16, <1>17, <1>18, <1>19, <1>20, <1>21, <1>22, <1>23, <1>24, <1>25,
     <1>26, <1>27, <1>28, <1>29, <1>30, <1>31, <1>32, <1>33, <1>34, <1>35, <1>36
  DEF Next, Worker, Kernel

\* Without disturbance everything unreported is held.
LEMMA CalmStep ==
  TypeOK /\ Control /\ Calm /\ Sorted /\ Next => Calm'
<1> SUFFICES ASSUME TypeOK, Control, Calm, Sorted, Next PROVE Calm'
    OBVIOUS
<1> USE DEF TypeOK, Values, Control, Calm, Undisturbed, Held, Pending, Requests, None, Goto,
        objVars, threadVars, queueVars, runVars, reqVars, envVars, retryVars
<1>1. CASE RunEntry BY <1>1 DEF RunEntry
<1>2. CASE LoopTest BY <1>2 DEF LoopTest, LoopEnds, isDone, shouldExit
<1>3. CASE ConnectTest BY <1>3 DEF ConnectTest, isDone, shouldExit
<1>4. CASE ConnectSucceeds BY <1>4 DEF ConnectSucceeds
<1>5. CASE ConnectFatal BY <1>5 DEF ConnectFatal
<1>6. CASE ConnectFails BY <1>6 DEF ConnectFails
<1>7. CASE ConnectCheck BY <1>7 DEF ConnectCheck, isDone, shouldExit
<1>8. CASE TakeRetransmit BY <1>8 DEF TakeRetransmit, ClearRetransmit
<1>9. CASE TakeFromQueue
  <2>1. Elements(queue) = {Head(queue)} \cup Elements(Tail(queue))
    BY <1>9, ElementsTail DEF TakeFromQueue
  <2>2. QED BY <1>9, <2>1 DEF TakeFromQueue, QueueIsNext
<1>10. CASE StartWaiting BY <1>10 DEF StartWaiting
<1>11. CASE WaitEnds BY <1>11 DEF WaitEnds, EndOfLoop
<1>12. CASE WaitIncoming BY <1>12 DEF WaitIncoming
<1>13. CASE WaitOrReceiveError BY <1>13 DEF WaitOrReceiveError
<1>14. CASE ReceiveSucceeds BY <1>14 DEF ReceiveSucceeds, EndOfLoop
<1>15. CASE ReceiveEnds BY <1>15 DEF ReceiveEnds, EndOfLoop
<1>16. CASE LookupPeer BY <1>16 DEF LookupPeer
<1>17. CASE RunAgain BY <1>17 DEF RunAgain
<1>18. CASE SendSucceeds
  <2>1. hand \in Requests /\ retransmit = None /\ hand \notin Elements(queue)
    BY <1>18, HandAlone DEF SendSucceeds
  <2>2. QED BY <1>18, <2>1 DEF SendSucceeds, EndOfLoop, Tell
<1>19. CASE SendEnds
  <2>1. hand \in Requests /\ retransmit = None /\ hand \notin Elements(queue)
    BY <1>19, HandAlone DEF SendEnds
  <2>2. QED BY <1>19, <2>1 DEF SendEnds, EndOfLoop, Tell
<1>20. CASE SendErrs
  <2>1. hand \in Requests /\ retransmit = None /\ hand \notin Elements(queue)
    BY <1>20, HandAlone DEF SendErrs
  <2>2. QED BY <1>20, <2>1 DEF SendErrs, GiveUpSend, RetrySend, EndOfLoop, Tell
<1>21. CASE SendTimesOut
  <2>1. hand \in Requests /\ retransmit = None /\ hand \notin Elements(queue)
    BY <1>21, HandAlone DEF SendTimesOut
  <2>2. QED BY <1>21, <2>1 DEF SendTimesOut, GiveUpSend, RetrySend, EndOfLoop, Tell
<1>22. CASE RunExit BY <1>22 DEF RunExit
<1>23. CASE Cleanup BY <1>23 DEF Cleanup
<1>24. CASE CleanupTest BY <1>24 DEF CleanupTest
<1>25. CASE CleanupUnregister BY <1>25 DEF CleanupUnregister
<1>26. CASE ThreadStops BY <1>26 DEF ThreadStops
<1>27. CASE SendDataObject BY <1>27 DEF SendDataObject
<1>28. CASE InsertInQueue
  <2>1. asked \in Requests BY <1>28 DEF InsertInQueue
  <2>2. /\ closed => verdict' = [verdict EXCEPT ![asked] = "refused"] /\ queue' = queue
        /\ ~closed => verdict' = [verdict EXCEPT ![asked] = "pending"] /\ queue' = Append(queue, asked)
        /\ UNCHANGED <<mode, connected, thr, exitSignal, pc, hand, retransmit>>
        /\ UNCHANGED <<peerKnown, peerChanges, shutdowns>> /\ kpc' \in {"idle", "start"}
    BY <1>28 DEF InsertInQueue, Tell
  <2>3. ~closed => Elements(queue') = Elements(queue) \cup {asked}
    BY <2>1, <2>2, ElementsAppend
  <2>4. ASSUME Undisturbed, NEW r \in Requests, Pending(r)' PROVE Held(r)'
    <3>1. CASE closed
      BY <2>1, <2>2, <2>4, <3>1
    <3>2. CASE ~closed
      BY <2>1, <2>2, <2>3, <2>4, <3>2
    <3>3. QED BY <3>1, <3>2
  <2>5. QED BY <2>2, <2>4
<1>29. CASE StartTxRx BY <1>29 DEF StartTxRx
<1>30. CASE Shutdown BY <1>30 DEF Shutdown
<1>31. CASE ShutdownTest BY <1>31 DEF ShutdownTest
<1>32. CASE CancelThread BY <1>32 DEF CancelThread
<1>33. CASE ShutdownUnregister BY <1>33 DEF ShutdownUnregister
<1>34. CASE DeleteEvent BY <1>34 DEF DeleteEvent, DeleteQueued
<1>35. CASE JoinAndDelete
  <2>1. hand = None /\ retransmit = None
    BY <1>35, NothingHeldAtJoin DEF JoinAndDelete
  <2>2. QED BY <1>35, <2>1 DEF JoinAndDelete, ClearedVerdicts
<1>36. CASE PeerChanges BY <1>36 DEF PeerChanges
<1>37. QED
  BY <1>1, <1>2, <1>3, <1>4, <1>5, <1>6, <1>7, <1>8, <1>9, <1>10, <1>11, <1>12, <1>13,
     <1>14, <1>15, <1>16, <1>17, <1>18, <1>19, <1>20, <1>21, <1>22, <1>23, <1>24, <1>25,
     <1>26, <1>27, <1>28, <1>29, <1>30, <1>31, <1>32, <1>33, <1>34, <1>35, <1>36
  DEF Next, Worker, Kernel

\* The invariants hold initially and are left alone by a stuttering step.
LEMMA InitIInv == Init => IInv
<1> SUFFICES ASSUME Init PROVE IInv
    OBVIOUS
<1>1. TypeOK BY InitType
<1>2. Control /\ Fresh /\ Sorted
  BY DEF Init, Control, Fresh, Sorted, None, Requests
<1>3. \A r \in Requests : ~Held(r) /\ ~Pending(r) /\ ~Answered(r)
  BY DEF Init, Held, Pending, Answered, Elements, None, Requests
<1>4. HeldPending /\ InOrder BY <1>3 DEF HeldPending, InOrder
<1>5. peerKnown = TRUE /\ exitSignal = FALSE BY DEF Init
<1>6. Calm BY <1>3, <1>5 DEF Init, Calm, None
<1>7. QED BY <1>1, <1>2, <1>4, <1>6 DEF IInv

\* The inductive invariant holds when nothing happens,
LEMMA StutterIInv == IInv /\ UNCHANGED vars => IInv'
BY DEF IInv, TypeOK, Flags, Values, Control, Fresh, Sorted, HeldPending, InOrder, Calm,
       Held, Pending, Answered, Elements, Undisturbed, vars, objVars, threadVars,
       queueVars, runVars, reqVars, envVars, retryVars

\* and after every step.
LEMMA NextIInv == IInv /\ Next => IInv'
BY FlagsStep, ValuesStep, ControlStep, FreshStep, SortedStep, HeldPendingStep,
   InOrderStep, CalmStep DEF IInv, TypeOK

\* The inductive invariant of a protocol instance.
THEOREM Invariance == Spec => []IInv
<1>1. IInv /\ [Next]_vars => IInv'
  BY NextIInv, StutterIInv
<1>2. QED BY InitIInv, <1>1, PTL DEF Spec

\* A request is in one place only, and has no verdict while it is held.
THEOREM HeldInOnePlace == Spec => []OnePlace
<1>1. IInv => OnePlace
  <2> SUFFICES ASSUME IInv PROVE OnePlace
      OBVIOUS
  <2> USE DEF IInv, TypeOK, Values, Requests, None
  <2>1. \A r \in Requests : Held(r) => Pending(r) BY DEF HeldPending
  <2>2. \A i, j \in 1..Len(queue) : queue[i] = queue[j] => i = j
    <3> SUFFICES ASSUME NEW i \in 1..Len(queue), NEW j \in 1..Len(queue), i # j
                 PROVE  queue[i] # queue[j]
        OBVIOUS
    <3>1. queue[i] \in Nat /\ queue[j] \in Nat /\ (i < j \/ j < i) OBVIOUS
    <3>2. QED BY <3>1 DEF Sorted
  <2>3. hand \notin Elements(queue) /\ retransmit \notin Elements(queue)
    BY DEF Sorted, Elements
  <2>4. hand # None => retransmit = None BY DEF Control
  <2>5. QED BY <2>1, <2>2, <2>3, <2>4 DEF OnePlace
<1>2. QED BY <1>1, Invariance, PTL

\* Requests are reported in the order in which they were made.
THEOREM ReportedInOrder == Spec => []InOrder
<1>1. IInv => InOrder BY DEF IInv
<1>2. QED BY <1>1, Invariance, PTL

\* As long as the peer stays known and nobody stops the protocol, what is
\* accepted and not reported is still held.
THEOREM ResponsibilityKept == Spec => []AccountedFor
<1>1. IInv => AccountedFor BY DEF IInv, Calm, Undisturbed, AccountedFor
<1>2. QED BY <1>1, Invariance, PTL

\* A verdict is never changed: a step that tells one speaks of a request
\* that is held, or of the one being inserted.
THEOREM VerdictsFinal == Spec => VerdictFinal
<1> DEFINE Final == \A r \in Requests : verdict[r] \in {"refused", "success", "failure"}
                                          => verdict'[r] = verdict[r]
<1>1. ASSUME IInv, Next PROVE Final
  <2> USE <1>1 DEF IInv, TypeOK, Values, Requests, None
  <2>1. CASE SendSucceeds \/ SendEnds \/ SendErrs \/ SendTimesOut
    <3>1. pc = "send" BY <2>1 DEF SendSucceeds, SendEnds, SendErrs, SendTimesOut
    <3>2. hand \in Requests /\ verdict[hand] = "pending"
      BY <3>1, HandAlone DEF HeldPending, Held, Pending
    <3>3. verdict' = verdict \/ \E v \in {"success", "failure"} : verdict' = [verdict EXCEPT ![hand] = v]
      BY <2>1 DEF SendSucceeds, SendEnds, SendErrs, SendTimesOut, GiveUpSend, RetrySend, Tell
    <3>4. QED BY <3>2, <3>3
  <2>2. CASE InsertInQueue
    <3>1. verdict[asked] = "unasked" BY <2>2 DEF InsertInQueue, Fresh
    <3>2. \A r \in Requests \ {asked} : verdict'[r] = verdict[r] BY <2>2 DEF InsertInQueue, Tell
    <3>3. QED BY <3>1, <3>2
  <2>3. CASE JoinAndDelete
    <3>1. \A r \in Elements(queue) : verdict[r] = "pending"
      BY DEF HeldPending, Held, Pending, Elements
    <3>2. QED BY <2>3, <3>1 DEF JoinAndDelete, ClearedVerdicts
  <2>4. CASE verdict' = verdict BY <2>4
  <2>5. \/ SendSucceeds \/ SendEnds \/ SendErrs \/ SendTimesOut
        \/ InsertInQueue \/ JoinAndDelete \/ verdict' = verdict
    BY DEF Next, Worker, Kernel, PeerChanges, RunEntry, LoopTest, ConnectTest,
       ConnectSucceeds, ConnectFatal, ConnectFails, ConnectCheck, TakeRetransmit,
       TakeFromQueue, StartWaiting, WaitEnds, WaitIncoming, WaitOrReceiveError,
       ReceiveSucceeds, ReceiveEnds, LookupPeer, RunAgain, RunExit, Cleanup,
       CleanupTest, CleanupUnregister, ThreadStops, SendDataObject, StartTxRx,
       Shutdown, ShutdownTest, CancelThread, ShutdownUnregister, DeleteEvent, reqVars
  <2>6. QED BY <2>1, <2>2, <2>3, <2>4, <2>5
<1>2. ASSUME IInv, [Next]_vars PROVE [Final]_vars
  BY <1>1, <1>2
<1>3. QED BY <1>2, Invariance, PTL DEF Spec, VerdictFinal

-----------------------------------------------------------------------------
(* What is lost when the protocol is stopped.                              *)

\* After a deletion nothing starts: the kernel thread is in no handler that could
\* insert a request or create a thread.
AfterDelete ==
    deleted => pc \in {"none", "ended"} /\ queue = <<>> /\ kpc \in {"idle", "join"}

\* Only the step that deletes the instance makes it deleted, and it joins the worker first.
LEMMA AfterDeleteStep == AfterDelete /\ [Next]_vars => AfterDelete'
<1> SUFFICES ASSUME AfterDelete, [Next]_vars PROVE AfterDelete'
    OBVIOUS
<1> USE DEF AfterDelete, Goto, objVars, queueVars, runVars, reqVars, envVars, retryVars
<1>1. CASE deleted
  <2>1. Worker => FALSE
    BY <1>1 DEF Worker, RunEntry, LoopTest, ConnectTest, ConnectSucceeds, ConnectFatal,
       ConnectFails, ConnectCheck, TakeRetransmit, TakeFromQueue, StartWaiting, WaitEnds,
       WaitIncoming, WaitOrReceiveError, ReceiveSucceeds, ReceiveEnds, LookupPeer, RunAgain,
       SendSucceeds, SendEnds, SendErrs, SendTimesOut, RunExit, Cleanup, CleanupTest,
       CleanupUnregister, ThreadStops
  <2>2. CASE Kernel
    BY <1>1, <2>2 DEF Kernel, SendDataObject, InsertInQueue, StartTxRx, Shutdown,
       ShutdownTest, CancelThread, ShutdownUnregister, DeleteEvent, JoinAndDelete
  <2>3. CASE PeerChanges \/ UNCHANGED vars
    BY <1>1, <2>3 DEF PeerChanges, vars
  <2>4. QED BY <2>1, <2>2, <2>3 DEF Next
<1>2. CASE ~deleted
  <2>1. CASE JoinAndDelete BY <2>1 DEF JoinAndDelete, Joined
  <2>2. CASE ~JoinAndDelete
    <3>1. deleted' = deleted
      BY <2>2 DEF Next, Worker, Kernel, PeerChanges, RunEntry, LoopTest, ConnectTest,
         ConnectSucceeds, ConnectFatal, ConnectFails, ConnectCheck, TakeRetransmit,
         TakeFromQueue, StartWaiting, WaitEnds, WaitIncoming, WaitOrReceiveError,
         ReceiveSucceeds, ReceiveEnds, LookupPeer, RunAgain, SendSucceeds, SendEnds, SendErrs,
         SendTimesOut, RunExit, Cleanup, CleanupTest, CleanupUnregister, ThreadStops,
         SendDataObject, InsertInQueue, StartTxRx, Shutdown, ShutdownTest, CancelThread,
         ShutdownUnregister, DeleteEvent, vars
    <3>2. QED BY <1>2, <3>1
  <2>3. QED BY <2>1, <2>2
<1>3. QED BY <1>1, <1>2

\* The instance is deleted after its worker is gone, and the worker never runs on a
\* deleted instance.
THEOREM DeletedAfterRun == Spec => []NoRunAfterDelete
<1>1. Init => AfterDelete BY DEF Init, AfterDelete
<1>2. AfterDelete => NoRunAfterDelete BY DEF AfterDelete, NoRunAfterDelete
<1>3. QED BY <1>1, <1>2, AfterDeleteStep, PTL DEF Spec

\* The worker has left run() for good.
Over == pc \in {"returned", "cleanup", "unregister", "stop", "ended"}

\* While the peer stays known, run() returns once: what it loses it loses at the end.
LostAtEnd ==
    peerChanges = 0 =>
      /\ peerKnown = TRUE /\ pc # "returnTrue"
      /\ Lost # {} => Over
      /\ \A r, s \in Lost : r = s

\* A step that loses nothing and lets a worker that is over be over.
LEMMA NothingMoreLost ==
  ASSUME LostAtEnd, peerChanges' = peerChanges, peerKnown' = peerKnown,
         pc' = "returnTrue" => pc = "returnTrue", Over => Over', Lost' \subseteq Lost
  PROVE  LostAtEnd'
BY DEF LostAtEnd

\* Every step but the end of run() loses nothing.
LEMMA LostAtEndStep ==
  TypeOK /\ Control /\ Sorted /\ HeldPending /\ LostAtEnd /\ Next => LostAtEnd'
<1> SUFFICES ASSUME TypeOK, Control, Sorted, HeldPending, LostAtEnd, Next PROVE LostAtEnd'
    OBVIOUS
<1> DEFINE Keeps == /\ peerChanges' = peerChanges /\ peerKnown' = peerKnown
                    /\ (pc' = "returnTrue" => pc = "returnTrue") /\ (Over => Over') /\ Lost' \subseteq Lost
<1>0. ASSUME Keeps PROVE LostAtEnd' BY <1>0, NothingMoreLost
<1> USE DEF TypeOK, Values, Control, Lost, Over, Held, Pending, Requests, None, Goto,
        objVars, threadVars, queueVars, runVars, reqVars, envVars, retryVars
<1>1. CASE RunEntry
  <2>1. Keeps BY <1>1 DEF RunEntry
  <2>2. QED BY <2>1, <1>0
<1>2. CASE LoopTest
  <2>1. Keeps BY <1>2 DEF LoopTest
  <2>2. QED BY <2>1, <1>0
<1>3. CASE ConnectTest
  <2>1. Keeps BY <1>3 DEF ConnectTest
  <2>2. QED BY <2>1, <1>0
<1>4. CASE ConnectSucceeds
  <2>1. Keeps BY <1>4 DEF ConnectSucceeds
  <2>2. QED BY <2>1, <1>0
<1>5. CASE ConnectFatal
  <2>1. Keeps BY <1>5 DEF ConnectFatal
  <2>2. QED BY <2>1, <1>0
<1>6. CASE ConnectFails
  <2>1. Keeps BY <1>6 DEF ConnectFails
  <2>2. QED BY <2>1, <1>0
<1>7. CASE ConnectCheck
  <2>1. Keeps BY <1>7 DEF ConnectCheck
  <2>2. QED BY <2>1, <1>0
<1>8. CASE TakeRetransmit
  <2>1. Keeps BY <1>8 DEF TakeRetransmit, ClearRetransmit
  <2>2. QED BY <2>1, <1>0
<1>9. CASE TakeFromQueue
  <2>1. Elements(queue) = {Head(queue)} \cup Elements(Tail(queue))
    BY <1>9, ElementsTail DEF TakeFromQueue
  <2>2. retransmit' = retransmit /\ hand = None
    BY <1>9 DEF TakeFromQueue
  <2>3. Keeps BY <1>9, <2>1, <2>2 DEF TakeFromQueue
  <2>4. QED BY <2>3, <1>0
<1>10. CASE StartWaiting
  <2>1. Keeps BY <1>10 DEF StartWaiting
  <2>2. QED BY <2>1, <1>0
<1>11. CASE WaitEnds
  <2>1. Keeps BY <1>11 DEF WaitEnds, EndOfLoop
  <2>2. QED BY <2>1, <1>0
<1>12. CASE WaitIncoming
  <2>1. Keeps BY <1>12 DEF WaitIncoming
  <2>2. QED BY <2>1, <1>0
<1>13. CASE WaitOrReceiveError
  <2>1. Keeps BY <1>13 DEF WaitOrReceiveError
  <2>2. QED BY <2>1, <1>0
<1>14. CASE ReceiveSucceeds
  <2>1. Keeps BY <1>14 DEF ReceiveSucceeds, EndOfLoop
  <2>2. QED BY <2>1, <1>0
<1>15. CASE ReceiveEnds
  <2>1. Keeps BY <1>15 DEF ReceiveEnds, EndOfLoop
  <2>2. QED BY <2>1, <1>0
<1>16. CASE LookupPeer
  <2>1. CASE peerKnown
    <3>1. Keeps BY <1>16, <2>1 DEF LookupPeer
    <3>2. QED BY <3>1, <1>0
  <2>2. CASE ~peerKnown
    <3>1. peerChanges # 0 BY <2>2 DEF LostAtEnd
    <3>2. peerChanges' = peerChanges BY <1>16 DEF LookupPeer
    <3>3. QED BY <3>1, <3>2 DEF LostAtEnd
  <2>3. QED BY <2>1, <2>2
<1>17. CASE RunAgain
  BY <1>17 DEF RunAgain, LostAtEnd
<1>18. CASE SendSucceeds
  <2>1. hand \in Requests /\ retransmit = None /\ hand \notin Elements(queue)
    BY <1>18, HandAlone DEF SendSucceeds
  <2>2. Keeps BY <1>18, <2>1 DEF SendSucceeds, EndOfLoop, Tell
  <2>3. QED BY <2>2, <1>0
<1>19. CASE SendEnds
  <2>1. hand \in Requests /\ retransmit = None /\ hand \notin Elements(queue)
    BY <1>19, HandAlone DEF SendEnds
  <2>2. Keeps BY <1>19, <2>1 DEF SendEnds, EndOfLoop, Tell
  <2>3. QED BY <2>2, <1>0
<1>20. CASE SendErrs
  <2>1. hand \in Requests /\ retransmit = None /\ hand \notin Elements(queue)
    BY <1>20, HandAlone DEF SendErrs
  <2>2. Keeps BY <1>20, <2>1 DEF SendErrs, GiveUpSend, RetrySend, EndOfLoop, Tell
  <2>3. QED BY <2>2, <1>0
<1>21. CASE SendTimesOut
  <2>1. hand \in Requests /\ retransmit = None /\ hand \notin Elements(queue)
    BY <1>21, HandAlone DEF SendTimesOut
  <2>2. Keeps BY <1>21, <2>1 DEF SendTimesOut, GiveUpSend, RetrySend, EndOfLoop, Tell
  <2>3. QED BY <2>2, <1>0
<1>22. CASE RunExit
  <2>1. peerChanges = 0 => Lost = {} BY <1>22 DEF RunExit, LostAtEnd
  <2>2. Lost' \subseteq Lost \cup {retransmit} BY <1>22 DEF RunExit
  <2>3. peerChanges' = peerChanges /\ peerKnown' = peerKnown /\ pc' = "returned"
    BY <1>22 DEF RunExit
  <2> HIDE DEF Lost
  <2>4. QED BY <2>1, <2>2, <2>3 DEF LostAtEnd
<1>23. CASE Cleanup
  <2>1. Keeps BY <1>23 DEF Cleanup
  <2>2. QED BY <2>1, <1>0
<1>24. CASE CleanupTest
  <2>1. Keeps BY <1>24 DEF CleanupTest
  <2>2. QED BY <2>1, <1>0
<1>25. CASE CleanupUnregister
  <2>1. Keeps BY <1>25 DEF CleanupUnregister
  <2>2. QED BY <2>1, <1>0
<1>26. CASE ThreadStops
  <2>1. Keeps BY <1>26 DEF ThreadStops
  <2>2. QED BY <2>1, <1>0
<1>27. CASE SendDataObject
  <2>1. Keeps BY <1>27 DEF SendDataObject
  <2>2. QED BY <2>1, <1>0
<1>28. CASE InsertInQueue
  <2>1. asked \in Requests BY <1>28 DEF InsertInQueue
  <2>2. /\ closed => verdict' = [verdict EXCEPT ![asked] = "refused"] /\ queue' = queue
        /\ ~closed => verdict' = [verdict EXCEPT ![asked] = "pending"] /\ queue' = Append(queue, asked)
        /\ UNCHANGED <<pc, hand, retransmit, peerKnown, peerChanges>>
    BY <1>28 DEF InsertInQueue, Tell
  <2>3. ~closed => Elements(queue') = Elements(queue) \cup {asked}
    BY <2>1, <2>2, ElementsAppend
  <2>4. Lost' \subseteq Lost
    <3>1. CASE closed BY <2>1, <2>2, <3>1
    <3>2. CASE ~closed BY <2>1, <2>2, <2>3, <3>2
    <3>3. QED BY <3>1, <3>2
  <2>5. Keeps BY <1>28, <2>2, <2>4 DEF InsertInQueue, LostAtEnd
  <2>6. QED BY <2>5, <1>0
<1>29. CASE StartTxRx
  <2>1. Keeps BY <1>29 DEF StartTxRx
  <2>2. QED BY <2>1, <1>0
<1>30. CASE Shutdown
  <2>1. Keeps BY <1>30 DEF Shutdown
  <2>2. QED BY <2>1, <1>0
<1>31. CASE ShutdownTest
  <2>1. Keeps BY <1>31 DEF ShutdownTest
  <2>2. QED BY <2>1, <1>0
<1>32. CASE CancelThread
  <2>1. Keeps BY <1>32 DEF CancelThread
  <2>2. QED BY <2>1, <1>0
<1>33. CASE ShutdownUnregister
  <2>1. Keeps BY <1>33 DEF ShutdownUnregister
  <2>2. QED BY <2>1, <1>0
<1>34. CASE DeleteEvent
  <2>1. Keeps BY <1>34 DEF DeleteEvent
  <2>2. QED BY <2>1, <1>0
<1>35. CASE JoinAndDelete
  <2>1. hand = None /\ retransmit = None
    BY <1>35, NothingHeldAtJoin DEF JoinAndDelete
  <2>2. Keeps BY <1>35, <2>1 DEF JoinAndDelete, ClearedVerdicts, Joined
  <2>3. QED BY <2>2, <1>0
<1>36. CASE PeerChanges
  BY <1>36 DEF PeerChanges, LostAtEnd
<1>37. QED
  BY <1>1, <1>2, <1>3, <1>4, <1>5, <1>6, <1>7, <1>8, <1>9, <1>10, <1>11, <1>12, <1>13,
     <1>14, <1>15, <1>16, <1>17, <1>18, <1>19, <1>20, <1>21, <1>22, <1>23, <1>24, <1>25,
     <1>26, <1>27, <1>28, <1>29, <1>30, <1>31, <1>32, <1>33, <1>34, <1>35, <1>36
  DEF Next, Worker, Kernel

\* While the peer stays in the node store, stopping the protocol loses at most one
\* request, the one kept for retransmission.
THEOREM StopLosesOne == Spec => []AtMostOneLostByStop
<1>1. Init => LostAtEnd
  <2> SUFFICES ASSUME Init PROVE LostAtEnd
      OBVIOUS
  <2>1. Lost = {} BY DEF Init, Lost, Pending
  <2>2. peerKnown = TRUE BY DEF Init
  <2>3. QED BY <2>1, <2>2 DEF Init, LostAtEnd
<1>2. IInv /\ LostAtEnd /\ [Next]_vars => LostAtEnd'
  <2>1. LostAtEnd /\ UNCHANGED vars => LostAtEnd'
    BY DEF LostAtEnd, Lost, Over, Held, Pending, vars, objVars, queueVars, runVars, reqVars, envVars
  <2>2. QED BY <2>1, LostAtEndStep DEF IInv
<1>3. LostAtEnd => AtMostOneLostByStop BY DEF LostAtEnd, AtMostOneLostByStop
<1>4. QED BY <1>1, <1>2, <1>3, Invariance, PTL DEF Spec
=============================================================================
