---------------------------- MODULE DataTransfer ----------------------------
(***************************************************************************)
(* How one data object crosses one link: Protocol::sendDataObjectNow on    *)
(* the sending node, Protocol::receiveDataObject on the receiving one, the *)
(* channel between them and the part of the receiving kernel that keeps    *)
(* this node's Bloom filter: DataManager counts what it knows of in        *)
(* localBF and replaces the filter by a copy of it.                        *)
(*                                                                         *)
(* The sender sends the metadata header, waits for ACCEPT or REJECT, sends *)
(* the payload and waits for ACK.  The receiver reads into a fixed buffer, *)
(* feeds the buffer to DataObject::putData and answers when the header is  *)
(* complete and when the payload is.                                       *)
(*                                                                         *)
(* With Datagram FALSE the link is ProtocolSocket's (TCP): an ordered      *)
(* stream without boundaries that can break; any failure ends both         *)
(* instances and the next object travels on a new connection.  With        *)
(* Datagram TRUE it is ProtocolUDPGeneric's with the control protocol:     *)
(* datagrams with a session and a sequence number that can be lost,        *)
(* delayed and duplicated, and instances that live on.                     *)
(*                                                                         *)
(* Data is counted in cells.  Cell <<o, i>> is the i-th piece of object o: *)
(* the first HeaderLen cells are its metadata, the last of which ends in   *)
(* the closing tag putData looks for; DataLen[o] payload cells follow.     *)
(* The peer is another node, never a local application, so sending does    *)
(* not end after the header.  No code sends TERMINATE.                     *)
(***************************************************************************)
EXTENDS Integers, Sequences

CONSTANTS
    Objects,        \* data objects that may be sent over the link
    NoObject,       \* "none"
    HeaderLen,      \* cells of a metadata header
    DataLen,        \* cells of the payload of each object
    BufferSize,     \* cells of a protocol's buffer (bufferSize)
    MaxMetadata,    \* DATAOBJECT_MAX_METADATA_SIZE, in cells
    Datagram,       \* TRUE: UDP with control protocol; FALSE: TCP
    Redundancy,     \* extra copies of each datagram (redundancy)
    Periodic,       \* TRUE: periodicBloomfilterUpdateInterval > 0
    MaxRetries,     \* maxProtocolErrors and maxSendTimeouts
    MaxJobs,        \* bound: sends requested
    MaxFaults       \* bound: losses, duplications, resets, failed calls

ASSUME ConstantsAssumption ==
    /\ NoObject \notin Objects
    /\ HeaderLen \in Nat \ {0}
    /\ DataLen \in [Objects -> Nat]
    /\ BufferSize \in Nat \ {0}
    /\ MaxMetadata \in Nat
    /\ Datagram \in BOOLEAN
    /\ Periodic \in BOOLEAN
    /\ Redundancy \in Nat
    /\ MaxRetries \in Nat
    /\ MaxJobs \in Nat
    /\ MaxFaults \in Nat

\* ProtocolConfiguration.h warns against both on a TCP link.
ASSUME StreamAssumption == ~Datagram => Redundancy = 0 /\ MaxRetries = 0

VARIABLES
    s,          \* the sending instance: pc, obj, sent (cells), seq
    tries,      \* its run loop's numerr and numSendTimeouts
    toR,        \* channel to the receiver: [sess, seq, cells]
    toS,        \* channel to the sender: [sess, type]
    conn,       \* a TCP connection is "open" or "reset"
    r,          \* the receiving instance, see Fresh
    bf,         \* the Bloom filter of the receiving node
    localBF,    \* and DataManager's counting filter
    events,     \* its kernel's event queue: [type, obj]
    accepted,   \* history: objects it agreed to take
    again,      \* history: objects it agreed to take after receiving them
    got,        \* history: objects reported RECEIVED
    spoilt,     \* history: objects reported RECEIVED with other contents
    outcome,    \* how the latest send ended
    jobs,       \* bound counter: sends requested
    faults      \* bound counter: faults injected

sndVars == <<s, tries, outcome, jobs>>
rcvVars == <<r, bf, events, accepted, again, got, spoilt, localBF>>
vars == <<s, tries, toR, toS, conn, r, bf, events, accepted, again, got, spoilt,
          localBF, outcome, jobs, faults>>

Lesser(a, b) == IF a <= b THEN a ELSE b

Zero == <<NoObject, 0>>                         \* a cell of zero bytes
CellAt(o, i) == <<o, i>>
Cells(o, a, b) == [i \in 1..(b - a + 1) |-> CellAt(o, a + i - 1)]
Header(o) == Cells(o, 1, HeaderLen)
Payload(o) == Cells(o, HeaderLen + 1, HeaderLen + DataLen[o])

\* The receiving state of a new receiveDataObject call; the buffer keeps
\* whatever an earlier call left in it.
Fresh(buf) ==
    [pc |-> "idle", cur |-> 1, header |-> <<>>, id |-> NoObject,
     file |-> <<>>, buf |-> buf, len |-> 0]

Init ==
    /\ s = [pc |-> "idle", obj |-> NoObject, sent |-> 0, seq |-> 1]
    /\ tries = [err |-> 0, tmo |-> 0]
    /\ toR = <<>> /\ toS = <<>> /\ conn = "open"
    /\ r = Fresh([i \in 1..BufferSize |-> Zero])
    /\ bf = {} /\ localBF = {} /\ events = <<>>
    /\ accepted = {} /\ again = {} /\ got = {} /\ spoilt = {}
    /\ outcome = "none"
    /\ jobs = 0 /\ faults = 0

Fault == faults < MaxFaults /\ faults' = faults + 1

-----------------------------------------------------------------------------
(* The sending instance.                                                   *)

Busy == {"header", "awaitReply", "payload", "awaitAck"}

\* One round of run ends with success: the counters are reset and the
\* instance takes the next object.
Success(how) ==
    /\ s' = [s EXCEPT !.pc = "idle", !.obj = NoObject]
    /\ tries' = [err |-> 0, tmo |-> 0]
    /\ outcome' = how

\* Mutant: a failure does not end the instance.
GiveUpKeepsConnection ==
    /\ s' = [s EXCEPT !.pc = "idle", !.obj = NoObject]
    /\ tries' = [err |-> 0, tmo |-> 0]
    /\ outcome' = "failed"

\* One round of run ends with a failure event.  The instance is over; a
\* datagram sender is replaced by a new one on the same channels.
GiveUp ==
    /\ s' = [s EXCEPT !.pc = IF Datagram THEN "idle" ELSE "closed",
                      !.obj = NoObject]
    /\ tries' = [err |-> 0, tmo |-> 0]
    /\ outcome' = "failed"

\* The same object again from its first byte (dObjToRetransmit).
Again == s' = [s EXCEPT !.pc = "header", !.sent = 0, !.seq = 1]

SendError ==
    IF tries.err >= MaxRetries
    THEN GiveUp
    ELSE /\ Again
         /\ tries' = [tries EXCEPT !.err = @ + 1]
         /\ UNCHANGED outcome

SendTimeout ==
    IF tries.tmo >= MaxRetries
    THEN GiveUp
    ELSE /\ Again
         /\ tries' = [tries EXCEPT !.tmo = @ + 1]
         /\ UNCHANGED outcome

\* run takes an object from its queue and calls sendDataObjectNow.
StartSend(o) ==
    /\ s.pc = "idle"
    /\ jobs < MaxJobs
    /\ jobs' = jobs + 1
    /\ s' = [pc |-> "header", obj |-> o, sent |-> 0, seq |-> 1]
    /\ outcome' = "none"
    /\ UNCHANGED <<tries, toR, toS, conn, faults, rcvVars>>

\* The last cell of the part being sent.
PartEnd == IF s.pc = "header" THEN HeaderLen ELSE HeaderLen + DataLen[s.obj]

\* The cells that retrieve puts into the buffer for one sendData.
Chunk == Lesser(BufferSize, PartEnd - s.sent)

\* The next n cells as sendData sends them: one datagram, 1 + redundancy
\* times, or a piece of the stream.
Packets(n) ==
    LET data == Cells(s.obj, s.sent + 1, s.sent + n)
    IN IF Datagram
       THEN [i \in 1..(1 + Redundancy) |->
               [sess |-> s.obj, seq |-> s.seq, cells |-> data]]
       ELSE [i \in 1..n |->
               [sess |-> NoObject, seq |-> 0, cells |-> <<data[i]>>]]

\* retrieve fills the buffer and sendData sends it: all of it in a datagram,
\* or as much of it as the stream takes.
SendChunk ==
    /\ s.pc \in {"header", "payload"}
    /\ conn = "open"
    /\ s.sent < PartEnd
    /\ \E n \in 1..Chunk :
         /\ Datagram => n = Chunk
         /\ toR' = toR \o Packets(n)
         /\ s' = [s EXCEPT !.sent = @ + n, !.seq = @ + 1]
    /\ UNCHANGED <<tries, outcome, jobs, toS, conn, faults, rcvVars>>

\* Mutant: the payload follows the header without waiting for ACCEPT.
PartSentNoWait ==
    /\ s.pc \in {"header", "payload"}
    /\ s.sent = PartEnd
    /\ s' = [s EXCEPT !.pc = IF @ = "header" THEN "payload" ELSE "awaitAck"]
    /\ UNCHANGED <<tries, outcome, jobs, toR, toS, conn, faults, rcvVars>>

\* retrieve returns 0: the header or the payload has been sent.
PartSent ==
    /\ s.pc \in {"header", "payload"}
    /\ s.sent = PartEnd
    /\ s' = [s EXCEPT !.pc = IF @ = "header" THEN "awaitReply" ELSE "awaitAck"]
    /\ UNCHANGED <<tries, outcome, jobs, toR, toS, conn, faults, rcvVars>>

\* Mutant: the session number is not compared.
UnexpectedNever(m) == FALSE

Unexpected(m) == Datagram /\ m.sess # s.obj

\* receiveControlMessage after the header.  An ACK here is neither of the
\* answers tested for; the loop ends with len 0 and nothing more is sent.
GetReply ==
    /\ s.pc = "awaitReply"
    /\ toS # <<>>
    /\ toS' = Tail(toS)
    /\ \/ /\ Unexpected(Head(toS))
          /\ SendError
       \/ /\ ~Unexpected(Head(toS))
          /\ Head(toS).type = "reject"
          /\ Success("rejected")
       \/ /\ ~Unexpected(Head(toS))
          /\ Head(toS).type # "reject"
          /\ s' = [s EXCEPT !.pc = IF Head(toS).type = "accept" THEN "payload"
                                  ELSE "awaitAck"]
          /\ UNCHANGED <<tries, outcome>>
    /\ UNCHANGED <<jobs, toR, conn, faults, rcvVars>>

\* receiveControlMessage after the payload.
GetAck ==
    /\ s.pc = "awaitAck"
    /\ toS # <<>>
    /\ toS' = Tail(toS)
    /\ IF ~Unexpected(Head(toS)) /\ Head(toS).type = "ack"
       THEN Success("acked")
       ELSE SendError
    /\ UNCHANGED <<jobs, toR, conn, faults, rcvVars>>

\* Mutant: no timeout while waiting for the ACK.
ReplyTimeoutNoAck ==
    /\ s.pc = "awaitReply"
    /\ SendTimeout
    /\ UNCHANGED <<jobs, toR, toS, conn, faults, rcvVars>>

\* Waiting for the peer's control message ends in a timeout.
ReplyTimeout ==
    /\ s.pc \in {"awaitReply", "awaitAck"}
    /\ SendTimeout
    /\ UNCHANGED <<jobs, toR, toS, conn, faults, rcvVars>>

\* The object's data cannot be read or the socket cannot be written.
SendFails ==
    /\ s.pc \in {"header", "payload"}
    /\ Fault
    /\ SendError \/ SendTimeout
    /\ UNCHANGED <<jobs, toR, toS, conn, rcvVars>>

\* The connection is gone: a fatal error or the peer's close, never retried.
SenderLosesPeer ==
    /\ ~Datagram
    /\ conn = "reset" \/ (r.pc = "closed" /\ toS = <<>>)
    /\ \/ s.pc \in Busy /\ GiveUp
       \/ /\ s.pc = "idle"
          /\ s' = [s EXCEPT !.pc = "closed"]
          /\ UNCHANGED <<tries, outcome>>
    /\ UNCHANGED <<jobs, toR, toS, conn, faults, rcvVars>>

\* An idle sender has been quiet for waitTimeBeforeDone.
SenderLeaves ==
    /\ ~Datagram
    /\ s.pc = "idle"
    /\ s' = [s EXCEPT !.pc = "closed"]
    /\ UNCHANGED <<tries, outcome, jobs, toR, toS, conn, faults, rcvVars>>

\* An idle sender finds a message: receiveDataObject reads it and, because
\* this is a sender, discards it with an error.
SenderDiscards ==
    /\ s.pc = "idle"
    /\ toS # <<>>
    /\ toS' = Tail(toS)
    /\ IF tries.err >= MaxRetries
       THEN /\ s' = [s EXCEPT !.pc = IF Datagram THEN @ ELSE "closed"]
            /\ tries' = [err |-> 0, tmo |-> 0]
       ELSE /\ tries' = [tries EXCEPT !.err = @ + 1]
            /\ UNCHANGED s
    /\ UNCHANGED <<outcome, jobs, toR, conn, faults, rcvVars>>

-----------------------------------------------------------------------------
(* The receiving instance.                                                 *)

Raise(q, type, o) == Append(q, [type |-> type, obj |-> o])

\* A failed receive call ends the instance; a datagram receiver is replaced
\* when the next packet comes.
Ended(buf) == [Fresh(buf) EXCEPT !.pc = IF Datagram THEN "idle" ELSE "closed"]

\* Mutant: no cleanup after INCOMING, as before the "MOS" change.
ReceiveFailsNoCleanup(rr, evs) ==
    /\ r' = Ended(rr.buf)
    /\ events' = evs
    /\ UNCHANGED <<got, spoilt>>

\* The receive call failed: DELETED follows an INCOMING that was raised.
ReceiveFails(rr, evs) ==
    /\ r' = Ended(rr.buf)
    /\ events' = IF rr.id = NoObject THEN evs ELSE Raise(evs, "DELETED", rr.id)
    /\ UNCHANGED <<got, spoilt>>

\* The buffer after receiveData has put `data` at its start.  A datagram is
\* cut to the room asked for, and that much room is overwritten, with zeros
\* where the datagram is shorter.
Room(rr) == BufferSize - rr.len

Filled(buf, room, data) ==
    [i \in 1..BufferSize |->
        IF i <= Len(data) /\ i <= room THEN data[i]
        ELSE IF Datagram /\ i <= room THEN Zero
        ELSE buf[i]]

\* getData: the buffer's fill level grows by what was read, although the
\* data was put at its start.
GetData(rr, data) ==
    [rr EXCEPT !.buf = Filled(@, Room(rr), data),
               !.len = @ + Lesser(Room(rr), Len(data))]

\* removeData.
RemoveData(rr, n) ==
    IF n >= rr.len
    THEN [rr EXCEPT !.len = 0]
    ELSE [rr EXCEPT !.buf = [i \in 1..BufferSize |->
                                IF i <= rr.len - n THEN @[i + n] ELSE @[i]],
                    !.len = @ - n]

EndsHeader(c) == c[1] # NoObject /\ c[2] = HeaderLen

\* DataObject::putData takes the first n cells of `data` into the header:
\* none once the header is complete, else all up to the closing tag.
TakesHeader(rr, data, n) ==
    IF rr.id # NoObject
    THEN n = 0
    ELSE /\ n > 0
         /\ \A i \in 1..(n - 1) : ~EndsHeader(data[i])
         /\ n = Len(data) \/ EndsHeader(data[n])

\* putData on `data`, the filled part of the buffer, of which n cells belong
\* to the header.  `put` is the number of cells it claims to have taken,
\* which leaves out the header's when payload follows in the same call; -1
\* is an error: the header is too long, does not begin like one, or does
\* not parse.
PutData(rr, data, n) ==
    LET header == IF n = 0 THEN rr.header ELSE rr.header \o SubSeq(data, 1, n)
        complete == n > 0 /\ EndsHeader(data[n])
        o == IF complete THEN data[n][1] ELSE rr.id
        bad == /\ n > 0
               /\ \/ Len(rr.header) + Len(data) >= MaxMetadata
                  \/ header[1][2] # 1
                  \/ complete /\ header # Header(o)
        left == IF o = NoObject THEN 0 ELSE DataLen[o] - Len(rr.file)
        taken == Lesser(left, Len(data) - n)
    IN IF bad
       THEN [put |-> -1, rr |-> rr]
       ELSE [put |-> IF taken = 0 THEN n ELSE taken,
             rr |-> [rr EXCEPT !.header = header, !.id = o,
                               !.file = @ \o SubSeq(data, n + 1, n + taken)]]

Complete(rr) == rr.id # NoObject /\ Len(rr.file) = DataLen[rr.id]

Control(o, type) == [sess |-> o, type |-> type]

\* All of the payload is in: ACK, whose sending is not checked, and the
\* RECEIVED event.  What it sets off is module Reception's and leaves both
\* filters alone, so here the object joins `got` and nothing is queued.
Finish(rr, evs, q) ==
    /\ toS' \in {q, Append(q, Control(rr.id, "ack"))}
    /\ IF toS' = q THEN Fault ELSE UNCHANGED faults
    /\ events' = evs
    /\ got' = got \cup {rr.id}
    /\ spoilt' = IF rr.file = Payload(rr.id) THEN spoilt
                 ELSE spoilt \cup {rr.id}
    /\ r' = Fresh(rr.buf)

\* The header has just been completed.
Answer(rr) ==
    IF rr.id \in bf
    THEN /\ \/ /\ toS' = Append(toS, Control(rr.id, "reject"))
               /\ r' = Fresh(rr.buf)
               /\ UNCHANGED faults
            \/ /\ Fault                           \* REJECT cannot be sent
               /\ r' = Ended(rr.buf)
               /\ UNCHANGED toS
         /\ UNCHANGED <<bf, accepted, again, events, got, spoilt>>
    ELSE /\ bf' = bf \cup {rr.id}
         /\ accepted' = accepted \cup {rr.id}
         /\ again' = IF rr.id \in got THEN again \cup {rr.id} ELSE again
         /\ LET evs == Raise(events, "INCOMING", rr.id)
            IN \/ /\ LET q == Append(toS, Control(rr.id, "accept"))
                     IN IF Complete(rr)
                        THEN Finish(rr, evs, q)
                        ELSE /\ toS' = q
                             /\ events' = evs
                             /\ r' = rr
                             /\ UNCHANGED <<faults, got, spoilt>>
               \/ /\ Fault                        \* ACCEPT cannot be sent
                  /\ ReceiveFails(rr, evs)
                  /\ UNCHANGED toS

\* The rest of an iteration after putData has taken data: `nxt` is the
\* state without it.
AfterPut(rr, nxt) ==
    IF rr.id = NoObject /\ nxt.id # NoObject
    THEN Answer(nxt)
    ELSE /\ UNCHANGED <<bf, accepted, again>>
         /\ IF Complete(nxt)
            THEN Finish(nxt, events, toS)
            ELSE /\ r' = nxt
                 /\ UNCHANGED <<events, got, spoilt, toS, faults>>

\* One iteration of the loop of receiveDataObject on what getData read.
Iterate(rr) ==
    \E data \in {SubSeq(rr.buf, 1, rr.len)} : \E n \in 0..Len(data) :
    \E res \in {PutData(rr, data, n)} :
        /\ TakesHeader(rr, data, n)
        /\ \/ /\ res.put < 0
              /\ ReceiveFails(rr, events)
              /\ UNCHANGED <<bf, accepted, again, toS, faults>>
           \/ /\ res.put >= 0
              /\ \E nxt \in {RemoveData(res.rr, res.put)} : AfterPut(rr, nxt)

\* A datagram with the expected sequence number advances it, one with a
\* lower number is skipped without emptying the buffer, and one with a
\* higher number ends the call.  The session number is never compared,
\* because nothing sets curSessionNoDefined.
Sequenced(rr, seq) ==
    \/ /\ seq = 0
       /\ Iterate(rr)
    \/ /\ seq # 0 /\ seq = rr.cur
       /\ Iterate([rr EXCEPT !.cur = @ + 1])
    \/ /\ seq # 0 /\ seq < rr.cur
       /\ r' = rr
       /\ UNCHANGED <<bf, accepted, again, events, got, spoilt, toS, faults>>
    \/ /\ seq > rr.cur
       /\ ReceiveFails(rr, events)
       /\ UNCHANGED <<bf, accepted, again, toS, faults>>

\* The data of one datagram, or of n cells of the stream.
Arrived(n) ==
    IF Datagram THEN toR[1].cells ELSE [i \in 1..n |-> toR[i].cells[1]]

\* getData with something to read: one datagram, or as much of the stream as
\* has arrived and fits.
Read(rr) ==
    \/ /\ Room(rr) <= 0                         \* "Read buffer is full!"
       /\ ReceiveFails(rr, events)
       /\ UNCHANGED <<toR, bf, accepted, again, toS, faults>>
    \/ /\ Room(rr) > 0
       /\ \E n \in 1..(IF Datagram THEN 1 ELSE Lesser(Room(rr), Len(toR))) :
            /\ toR' = SubSeq(toR, n + 1, Len(toR))
            /\ \E nxt \in {GetData(rr, Arrived(n))} : Sequenced(nxt, toR[1].seq)

\* receiveDataObject starts, or continues, with data to read.
Receive ==
    /\ r.pc \in {"idle", "reading"}
    /\ conn = "open"
    /\ toR # <<>>
    /\ Read([r EXCEPT !.pc = "reading"])
    /\ UNCHANGED <<conn, sndVars, localBF>>

\* getData waits in vain, or the object's file cannot be written.
ReceiveTimeout ==
    /\ r.pc = "reading"
    /\ ReceiveFails(r, events)
    /\ UNCHANGED <<conn, toR, toS, bf, accepted, again, faults, sndVars, localBF>>

\* The connection is gone.
ReceiverLosesPeer ==
    /\ ~Datagram
    /\ r.pc # "closed"
    /\ conn = "reset" \/ (s.pc = "closed" /\ toR = <<>>)
    /\ ReceiveFails(r, events)
    /\ UNCHANGED <<conn, toR, toS, bf, accepted, again, faults, sndVars, localBF>>

-----------------------------------------------------------------------------
(* The receiving node's kernel, the network and the connection.            *)

Take(type) ==
    /\ events # <<>>
    /\ Head(events).type = type
    /\ events' = Tail(events)
    /\ UNCHANGED <<r, accepted, again, got, spoilt, conn, toR, toS, faults, sndVars>>

\* Mutant: only the filter of this node learns of the object.
onIncomingNotCounted ==
    /\ Take("INCOMING")
    /\ bf' = IF Head(events).obj \in localBF THEN bf
             ELSE IF Periodic THEN bf \cup {Head(events).obj}
             ELSE localBF
    /\ UNCHANGED localBF

\* DataManager::onIncomingDataObject: an object that is new to localBF joins
\* it and, with no periodic update to come, this node's filter is replaced.
onIncomingDataObject ==
    /\ Take("INCOMING")
    /\ localBF' = localBF \cup {Head(events).obj}
    /\ bf' = IF Head(events).obj \in localBF THEN bf
             ELSE IF Periodic THEN bf \cup {Head(events).obj}
             ELSE localBF'

\* DataManager::onDeletedDataObject, without the keep flag: the object leaves
\* localBF.  A failed object has no valid signature, so this node's filter is
\* replaced whether localBF had it or not.
onDeletedDataObject ==
    /\ Take("DELETED")
    /\ localBF' = localBF \ {Head(events).obj}
    /\ bf' = localBF'

HandleEvent == onIncomingDataObject \/ onDeletedDataObject

\* DataManager::onPeriodicBloomfilterUpdate
onPeriodicBloomfilterUpdate ==
    /\ Periodic
    /\ bf # localBF
    /\ bf' = localBF
    /\ UNCHANGED <<r, events, accepted, again, got, spoilt, localBF, conn, toR, toS,
                   faults, sndVars>>

Without(q, i) == SubSeq(q, 1, i - 1) \o SubSeq(q, i + 1, Len(q))

\* A datagram is lost, or arrives again after the others.
Lose ==
    /\ Datagram /\ Fault
    /\ \/ \E i \in 1..Len(toR) : toR' = Without(toR, i) /\ UNCHANGED toS
       \/ \E i \in 1..Len(toS) : toS' = Without(toS, i) /\ UNCHANGED toR
    /\ UNCHANGED <<conn, rcvVars, sndVars>>

Duplicate ==
    /\ Datagram /\ Fault
    /\ \/ \E i \in 1..Len(toR) : toR' = Append(toR, toR[i]) /\ UNCHANGED toS
       \/ \E i \in 1..Len(toS) : toS' = Append(toS, toS[i]) /\ UNCHANGED toR
    /\ UNCHANGED <<conn, rcvVars, sndVars>>

Reset ==
    /\ ~Datagram /\ Fault
    /\ conn = "open"
    /\ conn' = "reset"
    /\ toR' = <<>> /\ toS' = <<>>
    /\ UNCHANGED <<rcvVars, sndVars>>

\* Both instances are over and a new connection is made for the next object.
Reconnect ==
    /\ ~Datagram
    /\ s.pc = "closed" /\ r.pc = "closed"
    /\ jobs < MaxJobs
    /\ conn' = "open"
    /\ toR' = <<>> /\ toS' = <<>>
    /\ s' = [s EXCEPT !.pc = "idle"]
    /\ r' = Fresh([i \in 1..BufferSize |-> Zero])
    /\ UNCHANGED <<tries, outcome, jobs, faults, bf, events, accepted, again, got,
                   spoilt, localBF>>

-----------------------------------------------------------------------------
SenderStep ==
    SendChunk \/ PartSent \/ GetReply \/ GetAck \/ ReplyTimeout \/ SenderLosesPeer

ReceiverStep == Receive \/ ReceiveTimeout \/ ReceiverLosesPeer

Next ==
    \/ \E o \in Objects : StartSend(o)
    \/ SendChunk \/ PartSent \/ GetReply \/ GetAck \/ ReplyTimeout
    \/ SendFails \/ SenderLosesPeer \/ SenderLeaves \/ SenderDiscards
    \/ Receive \/ ReceiveTimeout \/ ReceiverLosesPeer
    \/ HandleEvent \/ onPeriodicBloomfilterUpdate
    \/ Lose \/ Duplicate \/ Reset \/ Reconnect

\* Each instance is a thread whose waits all have a timeout; the kernel
\* thread drains its queue.
Fairness ==
    /\ WF_vars(SenderStep)
    /\ WF_vars(ReceiverStep)
    /\ WF_vars(HandleEvent)

Spec == Init /\ [][Next]_vars
FairSpec == Spec /\ Fairness

-----------------------------------------------------------------------------
(* Properties.                                                             *)

Cell == (Objects \X Nat) \cup {Zero}

Packet == [sess : Objects \cup {NoObject}, seq : Nat, cells : Seq(Cell) \ {<<>>}]
Message == [sess : Objects, type : {"accept", "reject", "ack"}]
Receiver == [pc : {"idle", "reading", "closed"}, cur : Nat, header : Seq(Cell),
             id : Objects \cup {NoObject}, file : Seq(Cell),
             buf : [1..BufferSize -> Cell], len : 0..BufferSize]
Sender == [pc : Busy \cup {"idle", "closed"}, obj : Objects \cup {NoObject},
           sent : Nat, seq : Nat]
EventOf(objs) == [type : {"INCOMING", "DELETED"}, obj : objs]

\* Every variable has its type.
TypeOK ==
    /\ s \in Sender
    /\ tries \in [err : 0..MaxRetries, tmo : 0..MaxRetries]
    /\ toR \in Seq(Packet)
    /\ toS \in Seq(Message)
    /\ conn \in {"open", "reset"}
    /\ r \in Receiver
    /\ bf \subseteq Objects /\ localBF \subseteq Objects
    /\ events \in Seq(EventOf(Objects))
    /\ accepted \subseteq Objects /\ again \subseteq Objects
    /\ got \subseteq Objects /\ spoilt \subseteq Objects
    /\ outcome \in {"none", "acked", "rejected", "failed"}
    /\ jobs \in 0..MaxJobs /\ faults \in 0..MaxFaults

Queued(type, o) == [type |-> type, obj |-> o] \in {events[i] : i \in 1..Len(events)}

H == INSTANCE Handoff WITH job <- s.obj

\* The byte-level exchange keeps the promise of module Handoff.
Implements == H!Spec

\* An object stays in the receiving node's Bloom filter, which makes the node
\* refuse it, only if the node has it, is receiving it now, or has a DELETED
\* event queued that will take it out.
FilterAccounted ==
    \A o \in bf :
        \/ o \in got
        \/ r.pc = "reading" /\ r.id = o
        \/ Queued("DELETED", o)

\* A received object is in the filter, which makes the node refuse a second
\* copy, once its INCOMING event has been handled: no copy of localBF and no
\* DELETED of an earlier failed attempt takes it out.  Until then a copy may
\* forget it; one that was accepted a second time may be lost with that attempt.
Remembered ==
    \A o \in got \ again : o \in bf \/ Queued("INCOMING", o)

\* What is reported RECEIVED is what was sent.
Intact == spoilt = {}

\* Every send ends.
SendEnds == s.pc \in Busy ~> s.pc \notin Busy

\* An object the node answered ACCEPT to is received in the end or leaves the
\* filter again, so that another attempt can succeed.
FilterSettles ==
    \A o \in Objects : o \in bf ~> (o \in got \/ o \notin bf)
=============================================================================
