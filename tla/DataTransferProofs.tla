------------------------- MODULE DataTransferProofs -------------------------
(***************************************************************************)
(* Proofs about DataTransfer, for any objects, sizes and bounds: every     *)
(* variable keeps its type; the exchange implements Handoff, over streams  *)
(* that break and over datagrams that are lost, late or repeated; the      *)
(* receiving node's Bloom filter holds an object only for a reason and     *)
(* does not forget one it received once its INCOMING has been handled; and *)
(* over a stream what arrives is what was sent.                            *)
(***************************************************************************)
EXTENDS DataTransfer, SequenceTheorems, TLAPS

\* Messages that tell the truth when the node has agreed to take the objects
\* of `a` and has received those of `g`.
Honest(a, g) ==
    {m \in Message : /\ m.type = "ack" => m.sess \in g
                     /\ m.type = "reject" => m.sess \in a}

\* The receiving side's half of the inductive invariant: what is in the
\* filter, in the event queue or being received was once accepted, and every
\* control message under way is honest.
Legal ==
    /\ r \in Receiver
    /\ r.id # NoObject => r.id \in accepted
    /\ bf \subseteq accepted /\ localBF \subseteq accepted
    /\ accepted \subseteq Objects /\ again \subseteq Objects /\ got \subseteq Objects /\ spoilt \subseteq Objects
    /\ events \in Seq(EventOf(accepted))
    /\ toS \in Seq(Honest(accepted, got))
    /\ faults \in 0..MaxFaults

Tries == [err : 0..MaxRetries, tmo : 0..MaxRetries]

\* The sending side's half.
SenderTyped ==
    /\ s \in Sender
    /\ s.pc \in Busy <=> s.obj # NoObject
    /\ tries \in Tries
    /\ outcome \in {"none", "acked", "rejected", "failed"}

\* The inductive invariant.
IInv ==
    /\ SenderTyped
    /\ toR \in Seq(Packet)
    /\ conn \in {"open", "reset"}
    /\ jobs \in 0..MaxJobs
    /\ Legal

\* What a step of the receiving side means for Handoff.
Promised ==
    \/ UNCHANGED <<accepted, got>>
    \/ \E o \in Objects : /\ accepted' = accepted \cup {o}
                          /\ got' \in {got, got \cup {o}}
    \/ \E o \in Objects : /\ o \in accepted
                          /\ got' = got \cup {o}
                          /\ UNCHANGED accepted

-----------------------------------------------------------------------------
(* Lemmas about the operators.                                             *)

\* An interval of an object's cells is a sequence of cells.
LEMMA CellsType ==
    ASSUME NEW o \in Objects, NEW a \in Nat, NEW b \in Nat, a <= b + 1
    PROVE  /\ Cells(o, a, b) \in Seq(Cell)
           /\ Len(Cells(o, a, b)) = b - a + 1
  <1>1. \A i \in 1..(b - a + 1) : CellAt(o, a + i - 1) \in Cell
    BY DEF CellAt, Cell
  <1>2. b - a + 1 \in Nat
    OBVIOUS
  <1>. QED
    BY <1>1, <1>2 DEF Cells

\* A new receive call starts in a legal state.
LEMMA FreshType ==
    ASSUME NEW buf \in [1..BufferSize -> Cell]
    PROVE  /\ Fresh(buf) \in Receiver /\ Fresh(buf).id = NoObject
           /\ Ended(buf) \in Receiver /\ Ended(buf).id = NoObject
  <1>1. <<>> \in Seq(Cell)
    OBVIOUS
  <1>2. 0 \in 0..BufferSize
    BY ConstantsAssumption
  <1>3. Fresh(buf) \in Receiver
    BY <1>1, <1>2 DEF Fresh, Receiver
  <1>. QED
    BY <1>3 DEF Receiver, Ended, Fresh

\* Reading never overfills the buffer.
LEMMA GetDataType ==
    ASSUME NEW rr \in Receiver, NEW data \in Seq(Cell), Room(rr) > 0
    PROVE  /\ GetData(rr, data) \in Receiver
           /\ GetData(rr, data).id = rr.id
  <1>1. Filled(rr.buf, Room(rr), data) \in [1..BufferSize -> Cell]
    <2>1. \A i \in 1..BufferSize : i <= Len(data) => data[i] \in Cell
      OBVIOUS
    <2>2. \A i \in 1..BufferSize : rr.buf[i] \in Cell
      BY DEF Receiver
    <2>3. Zero \in Cell
      BY DEF Cell
    <2>. QED
      BY <2>1, <2>2, <2>3 DEF Filled
  <1>2. rr.len + Lesser(Room(rr), Len(data)) \in 0..BufferSize
    BY ConstantsAssumption DEF Room, Lesser, Receiver
  <1>. QED
    BY <1>1, <1>2 DEF GetData, Receiver

\* Removing a prefix leaves a legal buffer.
LEMMA RemoveDataType ==
    ASSUME NEW rr \in Receiver, NEW n \in Nat
    PROVE  /\ RemoveData(rr, n) \in Receiver
           /\ RemoveData(rr, n).id = rr.id
  <1>1. CASE n >= rr.len
    <2>1. 0 \in 0..BufferSize
      BY ConstantsAssumption
    <2>2. [rr EXCEPT !.len = 0] \in Receiver
      BY <2>1 DEF Receiver
    <2>. QED
      BY <1>1, <2>2 DEF RemoveData, Receiver
  <1>2. CASE ~(n >= rr.len)
    <2>1. [i \in 1..BufferSize |-> IF i <= rr.len - n THEN rr.buf[i + n] ELSE rr.buf[i]]
            \in [1..BufferSize -> Cell]
      BY <1>2, ConstantsAssumption DEF Receiver
    <2>2. rr.len - n \in 0..BufferSize
      BY <1>2, ConstantsAssumption DEF Receiver
    <2>. QED
      BY <1>2, <2>1, <2>2 DEF RemoveData, Receiver
  <1>. QED
    BY <1>1, <1>2 DEF Receiver

\* The filled part of the buffer is a sequence of cells.
LEMMA FilledPart ==
    ASSUME NEW rr \in Receiver
    PROVE  /\ SubSeq(rr.buf, 1, rr.len) \in Seq(Cell)
           /\ Len(SubSeq(rr.buf, 1, rr.len)) = rr.len
  <1>1. rr.buf \in Seq(Cell) /\ Len(rr.buf) = BufferSize
    BY ConstantsAssumption DEF Receiver
  <1>2. rr.len \in 0..Len(rr.buf)
    BY <1>1 DEF Receiver
  <1>. QED
    BY <1>1, <1>2, SubSeqProperties

\* Only a complete header sets the object, and putData keeps the state legal.
LEMMA PutDataType ==
    ASSUME NEW rr \in Receiver, NEW data \in Seq(Cell), NEW n \in 0..Len(data),
           TakesHeader(rr, data, n)
    PROVE  /\ PutData(rr, data, n).rr \in Receiver
           /\ PutData(rr, data, n).put \in Int
           /\ rr.id # NoObject => PutData(rr, data, n).rr.id = rr.id
  <1> DEFINE header == IF n = 0 THEN rr.header ELSE rr.header \o SubSeq(data, 1, n)
             complete == n > 0 /\ EndsHeader(data[n])
             o == IF complete THEN data[n][1] ELSE rr.id
             left == IF o = NoObject THEN 0 ELSE DataLen[o] - Len(rr.file)
             taken == Lesser(left, Len(data) - n)
  <1>1. header \in Seq(Cell)
    <2>1. n # 0 => SubSeq(data, 1, n) \in Seq(Cell)
      BY SubSeqProperties
    <2>. QED
      BY <2>1, ConcatProperties DEF Receiver
  <1>2. o \in Objects \cup {NoObject}
    <2>1. complete => data[n] \in Cell
      BY ElementOfSeq
    <2>. QED
      BY <2>1 DEF Receiver, Cell, Zero, EndsHeader
  <1>3. left \in Int /\ taken \in Int /\ taken <= Len(data) - n
    BY <1>2, ConstantsAssumption DEF Receiver, Lesser
  <1>4. SubSeq(data, n + 1, n + taken) \in Seq(Cell)
    <2>1. CASE taken >= 0
      BY <2>1, <1>3, SubSeqProperties
    <2>2. CASE taken < 0
      BY <2>2, <1>3 DEF SubSeq
    <2>. QED
      BY <2>1, <2>2, <1>3
  <1>5. rr.file \o SubSeq(data, n + 1, n + taken) \in Seq(Cell)
    BY <1>4, ConcatProperties DEF Receiver
  <1>6. rr.id # NoObject => o = rr.id
    BY DEF TakesHeader
  <1>7. [rr EXCEPT !.header = header, !.id = o,
                   !.file = @ \o SubSeq(data, n + 1, n + taken)] \in Receiver
    BY <1>1, <1>2, <1>5 DEF Receiver
  <1> HIDE DEF header, complete, o, left, taken
  <1>. QED
    BY <1>3, <1>6, <1>7 DEF PutData, header, complete, o, left, taken

\* A sequence over a set is one over every larger set.
LEMMA SeqMonotone ==
    ASSUME NEW S, NEW T, S \subseteq T, NEW q \in Seq(S)
    PROVE  q \in Seq(T)
  OBVIOUS

\* Honest messages stay honest.
LEMMA HonestMonotone ==
    ASSUME NEW a, NEW b, NEW g, NEW h, a \subseteq b, g \subseteq h,
           NEW q \in Seq(Honest(a, g))
    PROVE  q \in Seq(Honest(b, h))
  <1>1. Honest(a, g) \subseteq Honest(b, h)
    BY DEF Honest
  <1>. QED
    BY <1>1, SeqMonotone

\* Events about accepted objects stay so.
LEMMA EventsMonotone ==
    ASSUME NEW a, NEW b, a \subseteq b, NEW q \in Seq(EventOf(a))
    PROVE  q \in Seq(EventOf(b))
  <1>1. EventOf(a) \subseteq EventOf(b)
    BY DEF EventOf
  <1>. QED
    BY <1>1, SeqMonotone

\* Raising an event about an accepted object.
LEMMA RaiseType ==
    ASSUME NEW a, NEW q \in Seq(EventOf(a)), NEW o \in a,
           NEW type \in {"INCOMING", "DELETED"}
    PROVE  Raise(q, type, o) \in Seq(EventOf(a))
  <1>1. [type |-> type, obj |-> o] \in EventOf(a)
    BY DEF EventOf
  <1>. QED
    BY <1>1, AppendProperties DEF Raise

-----------------------------------------------------------------------------
(* The receiving instance.                                                 *)

\* A failed receive call, given what the step has already done to the filter.
LEMMA FailsLegal ==
    ASSUME Legal, NEW rr \in Receiver, NEW evs,
           accepted \subseteq accepted', accepted' \subseteq Objects,
           bf' \subseteq accepted', evs \in Seq(EventOf(accepted')),
           UNCHANGED localBF, again' \subseteq Objects,
           rr.id # NoObject => rr.id \in accepted',
           faults' \in 0..MaxFaults, UNCHANGED toS,
           ReceiveFails(rr, evs)
    PROVE  Legal' /\ UNCHANGED got
  <1>1. r' \in Receiver /\ r'.id = NoObject
    BY FreshType DEF ReceiveFails, Receiver
  <1>2. events' \in Seq(EventOf(accepted'))
    BY RaiseType DEF ReceiveFails
  <1>3. toS' \in Seq(Honest(accepted', got'))
    BY HonestMonotone DEF Legal, ReceiveFails
  <1>4. UNCHANGED <<got, spoilt>>
    BY DEF ReceiveFails
  <1>. QED
    BY <1>1, <1>2, <1>3, <1>4 DEF Legal

\* A completed receive call.
LEMMA FinishLegal ==
    ASSUME Legal, NEW rr \in Receiver, NEW evs, NEW q,
           accepted \subseteq accepted', accepted' \subseteq Objects,
           bf' \subseteq accepted', evs \in Seq(EventOf(accepted')),
           UNCHANGED localBF, again' \subseteq Objects,
           q \in Seq(Honest(accepted', got)), rr.id \in accepted',
           Finish(rr, evs, q)
    PROVE  Legal' /\ got' = got \cup {rr.id}
  <1>1. r' \in Receiver /\ r'.id = NoObject
    BY FreshType DEF Finish, Receiver
  <1>2. events' \in Seq(EventOf(accepted'))
    BY RaiseType DEF Finish
  <1>3. got' = got \cup {rr.id} /\ got' \subseteq Objects /\ spoilt' \subseteq Objects
    BY DEF Finish, Legal
  <1>4. toS' \in Seq(Honest(accepted', got'))
    <2>1. q \in Seq(Honest(accepted', got'))
      BY <1>3, HonestMonotone
    <2>2. Control(rr.id, "ack") \in Honest(accepted', got')
      BY <1>3 DEF Control, Honest, Message
    <2>3. Append(q, Control(rr.id, "ack")) \in Seq(Honest(accepted', got'))
      BY <2>1, <2>2, AppendProperties
    <2>. QED
      BY <2>1, <2>3 DEF Finish
  <1>5. faults' \in 0..MaxFaults
    BY ConstantsAssumption DEF Finish, Fault, Legal
  <1>. QED
    BY <1>1, <1>2, <1>3, <1>4, <1>5 DEF Legal

\* The answer to a complete header.
LEMMA AnswerLegal ==
    ASSUME Legal, NEW rr \in Receiver, rr.id \in Objects, Answer(rr), UNCHANGED localBF
    PROVE  Legal' /\ Promised
  <1>1. CASE rr.id \in bf
    <2>1. rr.id \in accepted /\ UNCHANGED <<bf, accepted, again, events, got, spoilt>>
      BY <1>1 DEF Answer, Legal
    <2>2. r' \in Receiver /\ r'.id = NoObject
      <3>1. r' = Fresh(rr.buf) \/ r' = Ended(rr.buf)
        BY <1>1 DEF Answer
      <3>2. rr.buf \in [1..BufferSize -> Cell]
        BY DEF Receiver
      <3>. QED
        BY <3>1, <3>2, FreshType
    <2>3. toS' \in Seq(Honest(accepted, got))
      <3>1. Control(rr.id, "reject") \in Honest(accepted, got)
        BY <2>1 DEF Control, Honest, Message
      <3>. QED
        BY <1>1, <3>1, AppendProperties DEF Answer, Legal
    <2>4. faults' \in 0..MaxFaults
      BY <1>1, ConstantsAssumption DEF Answer, Fault, Legal
    <2>. QED
      BY <2>1, <2>2, <2>3, <2>4 DEF Legal, Promised
  <1>2. CASE rr.id \notin bf
    <2> DEFINE evs == Raise(events, "INCOMING", rr.id)
               q == Append(toS, Control(rr.id, "accept"))
    <2>1. /\ accepted' = accepted \cup {rr.id}
          /\ bf' = bf \cup {rr.id}
      BY <1>2 DEF Answer
    <2>2. /\ accepted \subseteq accepted' /\ accepted' \subseteq Objects
          /\ bf' \subseteq accepted' /\ rr.id \in accepted' /\ localBF \subseteq accepted'
          /\ again' \subseteq Objects
      BY <1>2, <2>1 DEF Legal, Answer
    <2>3. evs \in Seq(EventOf(accepted'))
      BY <2>2, EventsMonotone, RaiseType DEF Legal
    <2>4. q \in Seq(Honest(accepted', got))
      <3>1. toS \in Seq(Honest(accepted', got))
        BY <2>2, HonestMonotone DEF Legal
      <3>2. Control(rr.id, "accept") \in Honest(accepted', got)
        BY <2>2 DEF Control, Honest, Message
      <3>. QED
        BY <3>1, <3>2, AppendProperties
    <2>5. CASE Finish(rr, evs, q)
      <3>1. Legal' /\ got' = got \cup {rr.id}
        BY <2>2, <2>3, <2>4, <2>5, FinishLegal
      <3>. QED
        BY <3>1, <2>1 DEF Promised
    <2>6. CASE toS' = q /\ events' = evs /\ r' = rr /\ UNCHANGED <<faults, got, spoilt>>
      BY <2>6, <2>1, <2>2, <2>3, <2>4 DEF Legal, Promised
    <2>7. CASE Fault /\ ReceiveFails(rr, evs) /\ UNCHANGED toS
      <3>1. faults' \in 0..MaxFaults
        BY <2>7, ConstantsAssumption DEF Fault, Legal
      <3>2. Legal' /\ UNCHANGED got
        BY <2>7, <2>2, <2>3, <3>1, FailsLegal
      <3>. QED
        BY <3>2, <2>1 DEF Promised
    <2>. QED
      BY <1>2, <2>5, <2>6, <2>7 DEF Answer
  <1>. QED
    BY <1>1, <1>2

\* One iteration of the receive loop.
LEMMA IterateLegal ==
    ASSUME Legal, NEW rr \in Receiver, rr.id # NoObject => rr.id \in accepted,
           Iterate(rr), UNCHANGED localBF
    PROVE  Legal' /\ Promised
  <1>1. PICK n \in 0..Len(SubSeq(rr.buf, 1, rr.len)) :
           LET data == SubSeq(rr.buf, 1, rr.len)
               res == PutData(rr, data, n)
           IN /\ TakesHeader(rr, data, n)
              /\ \/ /\ res.put < 0
                    /\ ReceiveFails(rr, events)
                    /\ UNCHANGED <<bf, accepted, again, toS, faults>>
                 \/ /\ res.put >= 0
                    /\ AfterPut(rr, RemoveData(res.rr, res.put))
    BY DEF Iterate
  <1> DEFINE data == SubSeq(rr.buf, 1, rr.len)
             res == PutData(rr, data, n)
             nxt == RemoveData(res.rr, res.put)
  <1>2. /\ res.rr \in Receiver /\ res.put \in Int
        /\ rr.id # NoObject => res.rr.id = rr.id
    BY <1>1, FilledPart, PutDataType
  <1>3. CASE res.put < 0
    <2>1. ReceiveFails(rr, events) /\ UNCHANGED <<bf, accepted, again, toS, faults>>
      BY <1>1, <1>2, <1>3
    <2>2. Legal' /\ UNCHANGED got
      BY <2>1, FailsLegal DEF Legal
    <2>. QED
      BY <2>1, <2>2 DEF Promised
  <1>4. CASE ~(res.put < 0)
    <2>1. res.put \in Nat
      BY <1>2, <1>4
    <2>2. nxt \in Receiver /\ nxt.id = res.rr.id
      BY <2>1, <1>2, RemoveDataType
    <2>3. AfterPut(rr, nxt)
      BY <1>1, <1>4
    <2>4. rr.id # NoObject => nxt.id = rr.id
      BY <1>2, <2>2
    <2> HIDE DEF nxt, res, data
    <2>5. CASE rr.id = NoObject /\ nxt.id # NoObject
      <3>1. Answer(nxt)
        BY <2>3, <2>5 DEF AfterPut
      <3>2. nxt.id \in Objects
        BY <2>2, <2>5 DEF Receiver
      <3>. QED
        BY <2>2, <3>1, <3>2, AnswerLegal
    <2>6. CASE ~(rr.id = NoObject /\ nxt.id # NoObject)
      <3>1. /\ UNCHANGED <<bf, accepted, again>>
            /\ IF Complete(nxt)
               THEN Finish(nxt, events, toS)
               ELSE /\ r' = nxt
                    /\ UNCHANGED <<events, got, spoilt, toS, faults>>
        BY <2>3, <2>6 DEF AfterPut
      <3>2. nxt.id # NoObject => nxt.id \in accepted
        BY <2>4, <2>6
      <3>3. CASE Complete(nxt)
        <4>1. Finish(nxt, events, toS) /\ nxt.id \in accepted
          BY <3>1, <3>2, <3>3 DEF Complete
        <4>2. Legal' /\ got' = got \cup {nxt.id}
          BY <2>2, <3>1, <4>1, FinishLegal DEF Legal
        <4>3. nxt.id \in Objects
          BY <4>1 DEF Legal
        <4>. QED
          BY <3>1, <4>1, <4>2, <4>3 DEF Promised
      <3>4. CASE ~Complete(nxt)
        BY <2>2, <3>1, <3>2, <3>4 DEF Legal, Promised
      <3>. QED
        BY <3>3, <3>4
    <2>. QED
      BY <2>5, <2>6
  <1>. QED
    BY <1>3, <1>4

\* The sequence number test.
LEMMA SequencedLegal ==
    ASSUME Legal, NEW rr \in Receiver, rr.id # NoObject => rr.id \in accepted,
           NEW seq \in Nat, Sequenced(rr, seq), UNCHANGED localBF
    PROVE  Legal' /\ Promised
  <1>0. rr.cur \in Nat
    BY DEF Receiver
  <1>1. CASE seq = 0
    BY <1>0, <1>1, IterateLegal DEF Sequenced
  <1>2. CASE seq # 0 /\ seq = rr.cur
    <2>0. rr.cur + 1 \in Nat
      BY <1>0
    <2>1. [rr EXCEPT !.cur = @ + 1] \in Receiver
      BY <2>0 DEF Receiver
    <2>2. [rr EXCEPT !.cur = @ + 1].id = rr.id
      BY DEF Receiver
    <2>3. Iterate([rr EXCEPT !.cur = @ + 1])
      BY <1>0, <1>2 DEF Sequenced
    <2>. QED
      BY <2>1, <2>2, <2>3, IterateLegal
  <1>3. CASE seq # 0 /\ seq < rr.cur
    <2>1. r' = rr /\ UNCHANGED <<bf, accepted, again, events, got, spoilt, toS, faults>>
      BY <1>0, <1>3 DEF Sequenced
    <2>. QED
      BY <2>1 DEF Legal, Promised
  <1>4. CASE seq > rr.cur
    <2>1. ReceiveFails(rr, events) /\ UNCHANGED <<bf, accepted, again, toS, faults>>
      BY <1>0, <1>4 DEF Sequenced
    <2>2. Legal' /\ UNCHANGED got
      BY <2>1, FailsLegal DEF Legal
    <2>. QED
      BY <2>1, <2>2 DEF Promised
  <1>. QED
    BY <1>0, <1>1, <1>2, <1>3, <1>4

\* What arrives is a sequence of cells.
LEMMA ArrivedType ==
    ASSUME toR \in Seq(Packet), NEW n \in Nat, n >= 1, n <= Len(toR)
    PROVE  Arrived(n) \in Seq(Cell)
  <1>1. toR[1] \in Packet
    BY ElementOfSeq
  <1>2. toR[1].cells \in Seq(Cell)
    BY <1>1 DEF Packet
  <1>3. ASSUME NEW i \in 1..n PROVE toR[i].cells[1] \in Cell
    <2>1. toR[i] \in Packet
      BY ElementOfSeq
    <2>2. toR[i].cells \in Seq(Cell) /\ toR[i].cells # <<>>
      BY <2>1 DEF Packet
    <2>3. Len(toR[i].cells) \in Nat /\ Len(toR[i].cells) >= 1
      BY <2>2, EmptySeq
    <2>. QED
      BY <2>2, <2>3, ElementOfSeq
  <1>. QED
    BY <1>2, <1>3 DEF Arrived

\* Reading from the channel.
LEMMA ReadLegal ==
    ASSUME Legal, NEW rr \in Receiver, rr.id # NoObject => rr.id \in accepted,
           toR \in Seq(Packet), toR # <<>>, Read(rr), UNCHANGED localBF
    PROVE  Legal' /\ toR' \in Seq(Packet) /\ Promised
  <1>3. Len(toR) \in Nat /\ Len(toR) > 0
    BY EmptySeq
  <1>0. Room(rr) \in Int
    BY ConstantsAssumption DEF Room, Receiver
  <1>4. CASE Room(rr) <= 0
    <2>1. ReceiveFails(rr, events) /\ UNCHANGED <<toR, bf, accepted, again, toS, faults>>
      BY <1>0, <1>4 DEF Read
    <2>2. Legal' /\ UNCHANGED got
      BY <2>1, FailsLegal DEF Legal
    <2>. QED
      BY <2>1, <2>2 DEF Promised
  <1>5. CASE Room(rr) > 0
    <2> DEFINE last == IF Datagram THEN 1 ELSE Lesser(Room(rr), Len(toR))
    <2>1. PICK n \in 1..last :
             /\ toR' = SubSeq(toR, n + 1, Len(toR))
             /\ Sequenced(GetData(rr, Arrived(n)), toR[1].seq)
      BY <1>0, <1>5 DEF Read
    <2>2. n \in Nat /\ n >= 1 /\ n <= Len(toR)
      BY <1>0, <1>3, <1>5 DEF Lesser
    <2>3. toR' \in Seq(Packet)
      BY <2>1, <2>2, <1>3, SubSeqProperties
    <2>4. toR[1] \in Packet
      BY <1>3, ElementOfSeq
    <2>5. toR[1].seq \in Nat
      BY <2>4 DEF Packet
    <2>6. Arrived(n) \in Seq(Cell)
      BY <1>3, <2>2, ArrivedType
    <2>7. GetData(rr, Arrived(n)) \in Receiver /\ GetData(rr, Arrived(n)).id = rr.id
      BY <1>5, <2>6, GetDataType
    <2>8. Legal' /\ Promised
      BY <2>1, <2>5, <2>7, SequencedLegal
    <2>. QED
      BY <2>3, <2>8
  <1>. QED
    BY <1>0, <1>4, <1>5

-----------------------------------------------------------------------------
(* The sending instance.                                                   *)

\* A sender step leaves the receiving side alone, but for a message it reads.
LEMMA SenderKeepsLegal ==
    ASSUME Legal, UNCHANGED rcvVars, toS' \in Seq(Honest(accepted, got)),
           faults' \in 0..MaxFaults
    PROVE  Legal'
  BY DEF Legal, rcvVars

\* The oldest message and the rest of a non-empty channel.
LEMMA TakeMessage ==
    ASSUME Legal, toS # <<>>
    PROVE  Head(toS) \in Honest(accepted, got) /\ Tail(toS) \in Seq(Honest(accepted, got))
  BY HeadTailProperties DEF Legal

\* A send that ends with an answer leaves the sender typed and without a job.
LEMMA SuccessTyped ==
    ASSUME SenderTyped, NEW how \in {"acked", "rejected"}, Success(how)
    PROVE  SenderTyped' /\ s'.obj = NoObject /\ outcome' = how
  <1>1. tries' \in Tries
    <2>1. 0 \in 0..MaxRetries
      BY ConstantsAssumption
    <2>. QED
      BY <2>1 DEF Success, Tries
  <1>2. s' \in Sender /\ s'.pc \in {"idle", "closed"} /\ s'.obj = NoObject
    BY DEF SenderTyped, Success, Sender
  <1>. QED
    BY <1>1, <1>2 DEF SenderTyped, Success, Busy

\* So does one that is given up.
LEMMA GiveUpTyped ==
    ASSUME SenderTyped, GiveUp
    PROVE  SenderTyped' /\ s'.obj = NoObject /\ outcome' = "failed"
  <1>1. tries' \in Tries
    <2>1. 0 \in 0..MaxRetries
      BY ConstantsAssumption
    <2>. QED
      BY <2>1 DEF GiveUp, Tries
  <1>2. s' \in Sender /\ s'.pc \in {"idle", "closed"} /\ s'.obj = NoObject
    BY DEF SenderTyped, GiveUp, Sender
  <1>. QED
    BY <1>1, <1>2 DEF SenderTyped, GiveUp, Busy

\* A send that starts again keeps its job.
LEMMA AgainTyped ==
    ASSUME SenderTyped, s.pc \in Busy, Again, tries' \in Tries, UNCHANGED outcome
    PROVE  SenderTyped' /\ UNCHANGED <<s.obj, outcome>>
  BY DEF SenderTyped, Again, Sender, Busy

\* An error or a timeout ends the send or starts it again.
Ends == s'.obj = NoObject /\ outcome' = "failed"

\* The sender stays typed after an error or a timeout.
LEMMA ErrorTyped ==
    ASSUME SenderTyped, s.pc \in Busy, SendError \/ SendTimeout
    PROVE  SenderTyped' /\ (Ends \/ UNCHANGED <<s.obj, outcome>>)
  <1>1. CASE GiveUp
    BY <1>1, GiveUpTyped DEF Ends
  <1>2. CASE /\ SendError
             /\ ~(tries.err >= MaxRetries)
    <2>1. tries' \in Tries
      BY <1>2, ConstantsAssumption DEF SendError, SenderTyped, Tries
    <2>. QED
      BY <1>2, <2>1, AgainTyped DEF SendError
  <1>3. CASE /\ SendTimeout
             /\ ~(tries.tmo >= MaxRetries)
    <2>1. tries' \in Tries
      BY <1>3, ConstantsAssumption DEF SendTimeout, SenderTyped, Tries
    <2>. QED
      BY <1>3, <2>1, AgainTyped DEF SendTimeout
  <1>. QED
    BY <1>1, <1>2, <1>3 DEF SendError, SendTimeout

\* What a step means for Handoff: nothing, or one of its actions.
Simulated == [H!Next]_H!vars

\* A failed or repeated send.
LEMMA ErrorSimulated ==
    ASSUME SenderTyped, s.pc \in Busy, SendError \/ SendTimeout, UNCHANGED <<accepted, got>>
    PROVE  SenderTyped' /\ Simulated
  <1>1. SenderTyped' /\ (Ends \/ UNCHANGED <<s.obj, outcome>>)
    BY ErrorTyped
  <1>2. s.obj # NoObject
    BY DEF SenderTyped
  <1>3. CASE Ends
    <2>1. H!Finish("failed")
      BY <1>2, <1>3 DEF Ends, H!Finish
    <2>. QED
      BY <1>1, <2>1 DEF Simulated, H!Next
  <1>4. CASE UNCHANGED <<s.obj, outcome>>
    BY <1>1, <1>4 DEF Simulated, H!vars
  <1>. QED
    BY <1>1, <1>3, <1>4

\* A receiver step.
LEMMA PromisedSimulated ==
    ASSUME Promised, UNCHANGED <<s, outcome>>
    PROVE  Simulated
  <1>1. CASE UNCHANGED <<accepted, got>>
    BY <1>1 DEF Simulated, H!vars
  <1>2. CASE \E o \in Objects : /\ accepted' = accepted \cup {o}
                                /\ got' \in {got, got \cup {o}}
    <2>1. \E o \in Objects : H!Accept(o)
      BY <1>2 DEF H!Accept
    <2>. QED
      BY <2>1 DEF Simulated, H!Next
  <1>3. CASE \E o \in Objects : /\ o \in accepted
                                /\ got' = got \cup {o}
                                /\ UNCHANGED accepted
    <2>1. \E o \in Objects : H!Deliver(o)
      BY <1>3 DEF H!Deliver
    <2>. QED
      BY <2>1 DEF Simulated, H!Next
  <1>. QED
    BY <1>1, <1>2, <1>3 DEF Promised

-----------------------------------------------------------------------------
(* Every step.                                                             *)

\* Removing one element of a channel.
LEMMA WithoutType ==
    ASSUME NEW T, NEW q \in Seq(T), NEW i \in 1..Len(q)
    PROVE  Without(q, i) \in Seq(T)
  <1>1. SubSeq(q, 1, i - 1) \in Seq(T)
    BY SubSeqProperties
  <1>2. SubSeq(q, i + 1, Len(q)) \in Seq(T)
    BY SubSeqProperties
  <1>. QED
    BY <1>1, <1>2, ConcatProperties DEF Without

\* What a chunk puts into the channel.
LEMMA ChunkType ==
    ASSUME IInv, SendChunk
    PROVE  toR' \in Seq(Packet) /\ SenderTyped' /\ UNCHANGED <<s.obj, outcome>>
  <1>1. /\ s \in Sender /\ s.sent \in Nat /\ s.seq \in Nat
        /\ toR \in Seq(Packet)
    BY DEF IInv, SenderTyped, Legal, Sender
  <1>o. s.obj \in Objects
    <2>1. s.pc \in Busy
      BY DEF SendChunk, Busy
    <2>. QED
      BY <2>1 DEF IInv, SenderTyped, Sender
  <1>2. PartEnd \in Nat
    BY <1>o, ConstantsAssumption DEF PartEnd
  <1> DEFINE data(n) == Cells(s.obj, s.sent + 1, s.sent + n)
  <1>3. Chunk \in Nat
    BY <1>1, <1>2, ConstantsAssumption DEF Lesser, SendChunk, Chunk
  <1>4. PICK n \in 1..Chunk :
           /\ toR' = toR \o Packets(n)
           /\ s' = [s EXCEPT !.sent = @ + n, !.seq = @ + 1]
    BY DEF SendChunk
  <1>5. n \in Nat /\ n >= 1
    BY <1>3
  <1>6. data(n) \in Seq(Cell) /\ Len(data(n)) = n
    <2>1. s.sent + 1 \in Nat /\ s.sent + n \in Nat
      BY <1>1, <1>5
    <2>2. (s.sent + n) - (s.sent + 1) + 1 = n /\ s.sent + 1 <= (s.sent + n) + 1
      BY <1>1, <1>5
    <2>3. /\ Cells(s.obj, s.sent + 1, s.sent + n) \in Seq(Cell)
          /\ Len(Cells(s.obj, s.sent + 1, s.sent + n)) = (s.sent + n) - (s.sent + 1) + 1
      BY <1>o, <2>1, <2>2, CellsType
    <2>. QED
      BY <2>2, <2>3
  <1>7. Packets(n) \in Seq(Packet)
    <2>1. CASE Datagram
      <3>1. data(n) # <<>>
        BY <1>5, <1>6
      <3> HIDE DEF data
      <3>2. [sess |-> s.obj, seq |-> s.seq, cells |-> data(n)] \in Packet
        BY <1>1, <1>o, <1>6, <3>1 DEF Packet
      <3>3. 1 + Redundancy \in Nat
        BY ConstantsAssumption
      <3>. QED
        BY <2>1, <3>2, <3>3 DEF Packets, data
    <2>2. CASE ~Datagram
      <3> HIDE DEF data
      <3>1. ASSUME NEW i \in 1..n
            PROVE  [sess |-> NoObject, seq |-> 0, cells |-> <<data(n)[i]>>] \in Packet
        <4>1. data(n)[i] \in Cell
          BY <1>6, ElementOfSeq
        <4>2. <<data(n)[i]>> \in Seq(Cell) /\ <<data(n)[i]>> # <<>>
          BY <4>1
        <4>. QED
          BY <4>2 DEF Packet
      <3>. QED
        BY <2>2, <1>5, <3>1 DEF Packets, data
    <2>. QED
      BY <2>1, <2>2
  <1>8. toR' \in Seq(Packet)
    BY <1>1, <1>4, <1>7, ConcatProperties
  <1>9. s' \in Sender /\ s'.pc = s.pc /\ s'.obj = s.obj
    <2>1. s.sent + n \in Nat /\ s.seq + 1 \in Nat
      BY <1>1, <1>5
    <2>. QED
      BY <1>1, <1>4, <2>1 DEF Sender
  <1>. QED
    BY <1>8, <1>9 DEF IInv, SenderTyped, SendChunk

\* The messages a waiting sender finds are about its object, or it compares the session.
Addressed ==
    Datagram \/ (s.pc \in Busy => \A i \in 1..Len(toS) : toS[i].sess = s.obj)

\* A message the sender acts on is about its object.
LEMMA ForSender ==
    ASSUME Addressed, Legal, s.pc \in Busy, toS # <<>>, ~Unexpected(Head(toS))
    PROVE  Head(toS).sess = s.obj
  <1>1. CASE Datagram
    BY <1>1 DEF Unexpected
  <1>2. CASE ~Datagram
    <2>1. Head(toS) = toS[1] /\ Len(toS) \in Nat /\ Len(toS) >= 1
      BY EmptySeq DEF Legal
    <2>2. 1 \in 1..Len(toS)
      BY <2>1
    <2>. QED
      BY <1>2, <2>1, <2>2 DEF Addressed
  <1>. QED
    BY <1>1, <1>2

\* The data manager keeps the filters and touches nothing else.
LEMMA KernelFrame ==
    ASSUME HandleEvent \/ onPeriodicBloomfilterUpdate
    PROVE  UNCHANGED <<r, accepted, again, got, spoilt, conn, toR, toS, faults, s, tries, outcome, jobs>>
  BY DEF HandleEvent, onIncomingDataObject, onDeletedDataObject, Take,
     onPeriodicBloomfilterUpdate, sndVars

\* The invariant is inductive, and every step is one of Handoff's or leaves its state
\* alone, as long as no answer to an earlier object is taken for one to this.
LEMMA Step ==
    ASSUME IInv, [Next]_vars
    PROVE  IInv' /\ (Addressed => Simulated)
  <1> USE DEF IInv
  <1>a. toS \in Seq(Honest(accepted, got)) /\ faults \in 0..MaxFaults
    BY DEF Legal
  <1>b. ASSUME UNCHANGED <<toS, faults, rcvVars>>
        PROVE  Legal' /\ UNCHANGED <<accepted, got>>
    BY <1>a, <1>b, SenderKeepsLegal DEF rcvVars
  <1>c. ASSUME UNCHANGED <<s, outcome, accepted, got>>
        PROVE  Simulated
    BY <1>c DEF Simulated, H!vars
  <1>d. ASSUME Fault PROVE faults' \in 0..MaxFaults
    BY <1>a, <1>d, ConstantsAssumption DEF Fault
  <1>1. ASSUME NEW o \in Objects, StartSend(o)
        PROVE  IInv' /\ Simulated
    <2>1. Legal' /\ UNCHANGED <<accepted, got>>
      BY <1>1, <1>b DEF StartSend
    <2>2. s.obj = NoObject
      BY <1>1 DEF StartSend, SenderTyped, Busy
    <2>3. SenderTyped' /\ s'.obj = o
      BY <1>1, ConstantsAssumption DEF StartSend, SenderTyped, Sender, Busy
    <2>4. H!Offer(o)
      BY <1>1, <2>1, <2>2, <2>3 DEF H!Offer, StartSend
    <2>5. jobs' \in 0..MaxJobs
      BY <1>1, ConstantsAssumption DEF StartSend
    <2>. QED
      BY <1>1, <2>1, <2>3, <2>4, <2>5 DEF StartSend, Simulated, H!Next
  <1>2. CASE SendChunk
    <2>1. Legal' /\ UNCHANGED <<accepted, got>>
      BY <1>2, <1>b DEF SendChunk
    <2>2. toR' \in Seq(Packet) /\ SenderTyped' /\ UNCHANGED <<s.obj, outcome>>
      BY <1>2, ChunkType
    <2>3. Simulated
      BY <2>1, <2>2 DEF Simulated, H!vars
    <2>. QED
      BY <1>2, <2>1, <2>2, <2>3 DEF SendChunk
  <1>3. CASE PartSent
    <2>1. Legal' /\ UNCHANGED <<accepted, got>>
      BY <1>3, <1>b DEF PartSent
    <2>2. SenderTyped' /\ UNCHANGED <<s.obj, outcome>>
      BY <1>3 DEF PartSent, SenderTyped, Sender, Busy
    <2>3. Simulated
      BY <2>1, <2>2 DEF Simulated, H!vars
    <2>. QED
      BY <1>3, <2>1, <2>2, <2>3 DEF PartSent
  <1>4. CASE GetReply
    <2>1. Legal' /\ UNCHANGED <<accepted, got>>
      BY <1>4, <1>a, TakeMessage, SenderKeepsLegal DEF GetReply, rcvVars
    <2>2. s.pc \in Busy /\ s.obj # NoObject
      BY <1>4 DEF GetReply, Busy, SenderTyped
    <2>3. CASE SendError
      BY <1>4, <2>1, <2>2, <2>3, ErrorSimulated DEF GetReply
    <2>4. CASE /\ ~Unexpected(Head(toS)) /\ Head(toS).type = "reject"
               /\ Success("rejected")
      <3>1. SenderTyped' /\ s'.obj = NoObject /\ outcome' = "rejected"
        BY <2>4, SuccessTyped
      <3>4. Addressed => Head(toS).sess = s.obj
        BY <1>4, <2>2, <2>4, ForSender DEF GetReply
      <3>2. Addressed => s.obj \in accepted
        BY <1>4, <2>4, <3>4, TakeMessage DEF Honest, GetReply
      <3>3. Addressed => H!Finish("rejected")
        BY <2>1, <2>2, <3>1, <3>2 DEF H!Finish
      <3>. QED
        BY <1>4, <2>1, <3>1, <3>3 DEF GetReply, Simulated, H!Next
    <2>5. CASE /\ s' = [s EXCEPT !.pc = IF Head(toS).type = "accept" THEN "payload"
                                       ELSE "awaitAck"]
               /\ UNCHANGED <<tries, outcome>>
      <3>1. SenderTyped' /\ UNCHANGED <<s.obj, outcome>>
        BY <2>2, <2>5 DEF SenderTyped, Sender, Busy
      <3>2. Simulated
        BY <2>1, <3>1 DEF Simulated, H!vars
      <3>. QED
        BY <1>4, <2>1, <3>1, <3>2 DEF GetReply
    <2>. QED
      BY <1>4, <2>3, <2>4, <2>5 DEF GetReply
  <1>5. CASE GetAck
    <2>1. Legal' /\ UNCHANGED <<accepted, got>>
      BY <1>5, <1>a, TakeMessage, SenderKeepsLegal DEF GetAck, rcvVars
    <2>2. s.pc \in Busy /\ s.obj # NoObject
      BY <1>5 DEF GetAck, Busy, SenderTyped
    <2>3. CASE SendError
      BY <1>5, <2>1, <2>2, <2>3, ErrorSimulated DEF GetAck
    <2>4. CASE /\ ~Unexpected(Head(toS)) /\ Head(toS).type = "ack"
               /\ Success("acked")
      <3>1. SenderTyped' /\ s'.obj = NoObject /\ outcome' = "acked"
        BY <2>4, SuccessTyped
      <3>4. Addressed => Head(toS).sess = s.obj
        BY <1>5, <2>2, <2>4, ForSender DEF GetAck
      <3>2. Addressed => s.obj \in got
        BY <1>5, <2>4, <3>4, TakeMessage DEF Honest, GetAck
      <3>3. Addressed => H!Finish("acked")
        BY <2>1, <2>2, <3>1, <3>2 DEF H!Finish
      <3>. QED
        BY <1>5, <2>1, <3>1, <3>3 DEF GetAck, Simulated, H!Next
    <2>. QED
      BY <1>5, <2>3, <2>4 DEF GetAck
  <1>6. CASE ReplyTimeout
    <2>1. Legal' /\ UNCHANGED <<accepted, got>>
      BY <1>6, <1>b DEF ReplyTimeout
    <2>2. s.pc \in Busy
      BY <1>6 DEF ReplyTimeout, Busy
    <2>3. SenderTyped' /\ Simulated
      BY <1>6, <2>1, <2>2, ErrorSimulated DEF ReplyTimeout
    <2>. QED
      BY <1>6, <2>1, <2>3 DEF ReplyTimeout
  <1>7. CASE SendFails
    <2>1. Legal' /\ UNCHANGED <<accepted, got>>
      BY <1>7, <1>a, <1>d, SenderKeepsLegal DEF SendFails, rcvVars
    <2>2. s.pc \in Busy
      BY <1>7 DEF SendFails, Busy
    <2>3. SenderTyped' /\ Simulated
      BY <1>7, <2>1, <2>2, ErrorSimulated DEF SendFails
    <2>. QED
      BY <1>7, <2>1, <2>3 DEF SendFails
  <1>8. CASE SenderLosesPeer
    <2>1. Legal' /\ UNCHANGED <<accepted, got>>
      BY <1>8, <1>b DEF SenderLosesPeer
    <2>2. CASE s.pc \in Busy /\ GiveUp
      <3>1. SenderTyped' /\ Ends /\ s.obj # NoObject
        BY <2>2, GiveUpTyped DEF Ends, SenderTyped
      <3>2. H!Finish("failed")
        BY <2>1, <3>1 DEF Ends, H!Finish
      <3>. QED
        BY <1>8, <2>1, <3>1, <3>2 DEF SenderLosesPeer, Simulated, H!Next
    <2>3. CASE s.pc = "idle" /\ s' = [s EXCEPT !.pc = "closed"] /\ UNCHANGED <<tries, outcome>>
      <3>1. SenderTyped' /\ UNCHANGED s.obj
        BY <2>3 DEF SenderTyped, Sender, Busy
      <3>2. Simulated
        BY <2>1, <2>3, <3>1 DEF Simulated, H!vars
      <3>. QED
        BY <1>8, <2>1, <3>1, <3>2 DEF SenderLosesPeer
    <2>. QED
      BY <1>8, <2>2, <2>3 DEF SenderLosesPeer
  <1>9. CASE SenderLeaves
    <2>1. Legal' /\ UNCHANGED <<accepted, got>>
      BY <1>9, <1>b DEF SenderLeaves
    <2>2. SenderTyped' /\ UNCHANGED <<s.obj, outcome>>
      BY <1>9 DEF SenderLeaves, SenderTyped, Sender, Busy
    <2>3. Simulated
      BY <2>1, <2>2 DEF Simulated, H!vars
    <2>. QED
      BY <1>9, <2>1, <2>2, <2>3 DEF SenderLeaves
  <1>10. CASE SenderDiscards
    <2>1. Legal' /\ UNCHANGED <<accepted, got>>
      BY <1>10, <1>a, TakeMessage, SenderKeepsLegal DEF SenderDiscards, rcvVars
    <2>2. tries' \in Tries
      <3>1. /\ tries.err \in Nat /\ tries.err <= MaxRetries /\ tries.tmo \in 0..MaxRetries
            /\ MaxRetries \in Nat
        BY ConstantsAssumption DEF SenderTyped, Tries
      <3>2. CASE tries.err >= MaxRetries
        BY <1>10, <3>1, <3>2 DEF SenderDiscards, Tries
      <3>3. CASE ~(tries.err >= MaxRetries)
        <4>1. tries.err + 1 \in 0..MaxRetries /\ tries' = [tries EXCEPT !.err = @ + 1]
          BY <1>10, <3>1, <3>3 DEF SenderDiscards
        <4>. QED
          BY <3>1, <4>1 DEF SenderTyped, Tries
      <3>. QED
        BY <3>2, <3>3
    <2>3. s' \in Sender /\ s'.obj = s.obj /\ s'.pc \in {"idle", "closed"}
      BY <1>10 DEF SenderDiscards, SenderTyped, Sender
    <2>4. s.obj = NoObject
      BY <1>10 DEF SenderDiscards, SenderTyped, Busy
    <2>5. SenderTyped' /\ UNCHANGED <<s.obj, outcome>>
      BY <1>10, <2>2, <2>3, <2>4 DEF SenderDiscards, SenderTyped, Busy
    <2>6. Simulated
      BY <2>1, <2>5 DEF Simulated, H!vars
    <2>. QED
      BY <1>10, <2>1, <2>5, <2>6 DEF SenderDiscards
  <1>11. CASE Receive
    <2> DEFINE rr == [r EXCEPT !.pc = "reading"]
    <2>1. rr \in Receiver /\ rr.id = r.id
      BY DEF Legal, Receiver
    <2>2. Read(rr) /\ toR # <<>> /\ UNCHANGED localBF
      BY <1>11 DEF Receive
    <2> HIDE DEF rr
    <2>3. Legal' /\ toR' \in Seq(Packet) /\ Promised
      BY <2>1, <2>2, ReadLegal DEF Legal
    <2>4. UNCHANGED <<conn, s, tries, outcome, jobs>>
      BY <1>11 DEF Receive, sndVars
    <2>5. SenderTyped' /\ Simulated
      BY <2>3, <2>4, PromisedSimulated DEF SenderTyped
    <2>. QED
      BY <2>3, <2>4, <2>5
  <1>12. CASE ReceiveTimeout \/ ReceiverLosesPeer
    <2>1. /\ ReceiveFails(r, events)
          /\ UNCHANGED <<conn, toR, toS, bf, localBF, accepted, again, faults, s, tries, outcome, jobs>>
      BY <1>12 DEF ReceiveTimeout, ReceiverLosesPeer, sndVars
    <2>2. Legal' /\ UNCHANGED got
      BY <2>1, FailsLegal DEF Legal
    <2>3. SenderTyped' /\ Simulated
      BY <2>1, <2>2, <1>c DEF SenderTyped
    <2>. QED
      BY <2>1, <2>2, <2>3
  <1>13. CASE HandleEvent \/ onPeriodicBloomfilterUpdate
    <2>1. UNCHANGED <<r, accepted, again, got, spoilt, conn, toR, toS, faults, s, tries, outcome, jobs>>
      BY <1>13, KernelFrame
    <2>2. /\ localBF' \subseteq accepted /\ bf' \subseteq accepted
          /\ events' \in Seq(EventOf(accepted))
      <3>1. CASE HandleEvent
        <4>1. /\ Head(events) \in EventOf(accepted) /\ Tail(events) \in Seq(EventOf(accepted))
              /\ events' = Tail(events)
          BY <3>1, HeadTailProperties DEF HandleEvent, onIncomingDataObject, onDeletedDataObject, Take, Legal
        <4>2. Head(events).obj \in accepted
          BY <4>1 DEF EventOf
        <4>. QED
          BY <3>1, <4>1, <4>2 DEF HandleEvent, onIncomingDataObject, onDeletedDataObject, Legal
      <3>2. CASE onPeriodicBloomfilterUpdate
        BY <3>2 DEF onPeriodicBloomfilterUpdate, Legal
      <3>. QED
        BY <1>13, <3>1, <3>2
    <2>3. Legal'
      BY <2>1, <2>2 DEF Legal
    <2>4. SenderTyped' /\ Simulated
      BY <2>1, <1>c DEF SenderTyped
    <2>. QED
      BY <2>1, <2>3, <2>4
  <1>14. CASE Lose \/ Duplicate \/ Reset
    <2>1. UNCHANGED <<rcvVars, s, tries, outcome, jobs>> /\ Fault
      BY <1>14 DEF Lose, Duplicate, Reset, sndVars
    <2>2. toR' \in Seq(Packet) /\ toS' \in Seq(Honest(accepted, got)) /\ conn' \in {"open", "reset"}
      <3>1. CASE Lose
        BY <3>1, <1>a, WithoutType DEF Lose
      <3>2. CASE Duplicate
        <4>1. CASE \E i \in 1..Len(toR) : toR' = Append(toR, toR[i]) /\ UNCHANGED toS
          <5>1. PICK i \in 1..Len(toR) : toR' = Append(toR, toR[i]) /\ UNCHANGED toS
            BY <4>1
          <5>2. toR[i] \in Packet
            BY <1>a, ElementOfSeq
          <5>. QED
            BY <3>2, <5>1, <5>2, <1>a, AppendProperties DEF Duplicate
        <4>2. CASE \E i \in 1..Len(toS) : toS' = Append(toS, toS[i]) /\ UNCHANGED toR
          <5>1. PICK i \in 1..Len(toS) : toS' = Append(toS, toS[i]) /\ UNCHANGED toR
            BY <4>2
          <5>2. toS[i] \in Honest(accepted, got)
            BY <1>a, ElementOfSeq
          <5>. QED
            BY <3>2, <5>1, <5>2, <1>a, AppendProperties DEF Duplicate
        <4>. QED
          BY <3>2, <4>1, <4>2 DEF Duplicate
      <3>3. CASE Reset
        BY <3>3 DEF Reset
      <3>. QED
        BY <1>14, <3>1, <3>2, <3>3
    <2>3. Legal' /\ UNCHANGED <<accepted, got>>
      BY <2>1, <2>2, <1>d, SenderKeepsLegal DEF rcvVars
    <2>4. SenderTyped' /\ Simulated
      BY <2>1, <2>3, <1>c DEF SenderTyped
    <2>. QED
      BY <2>1, <2>2, <2>3, <2>4
  <1>15. CASE Reconnect
    <2>1. r' \in Receiver /\ r'.id = NoObject
      BY <1>15, FreshType DEF Reconnect, Cell
    <2>2. Legal'
      BY <1>15, <2>1 DEF Reconnect, Legal
    <2>3. SenderTyped' /\ UNCHANGED <<s.obj, outcome, accepted, got>>
      BY <1>15 DEF Reconnect, SenderTyped, Sender, Busy
    <2>4. Simulated
      BY <2>3 DEF Simulated, H!vars
    <2>. QED
      BY <1>15, <2>2, <2>3, <2>4 DEF Reconnect
  <1>16. CASE UNCHANGED vars
    <2>1. UNCHANGED <<s, tries, toR, toS, conn, r, bf, localBF, events, accepted, again, got, spoilt,
                      outcome, jobs, faults>>
      BY <1>16 DEF vars
    <2>2. Legal' /\ SenderTyped' /\ Simulated
      BY <2>1, <1>c DEF Legal, SenderTyped
    <2>. QED
      BY <2>1, <2>2
  <1>. QED
    BY <1>1, <1>2, <1>3, <1>4, <1>5, <1>6, <1>7, <1>8, <1>9, <1>10, <1>11, <1>12,
       <1>13, <1>14, <1>15, <1>16 DEF Next

\* The inductive invariant holds at the start.
LEMMA InitIInv ==
    ASSUME Init
    PROVE  IInv /\ H!Init
  <1>1. r \in Receiver /\ r.id = NoObject
    BY FreshType DEF Init, Cell
  <1>2. Legal
    BY <1>1, ConstantsAssumption DEF Init, Legal
  <1>3. SenderTyped
    BY ConstantsAssumption DEF Init, SenderTyped, Sender, Busy, Tries
  <1>. QED
    BY <1>2, <1>3, ConstantsAssumption DEF Init, IInv, H!Init

\* It implies the type invariant.
LEMMA IInvTypes ==
    ASSUME IInv
    PROVE  TypeOK
  <1>1. Honest(accepted, got) \subseteq Message
    BY DEF Honest
  <1>2. toS \in Seq(Message)
    BY <1>1, SeqMonotone DEF IInv, Legal
  <1>3. events \in Seq(EventOf(Objects))
    BY EventsMonotone DEF IInv, Legal
  <1>. QED
    BY <1>2, <1>3 DEF IInv, Legal, SenderTyped, Tries, TypeOK

-----------------------------------------------------------------------------
\* Every variable keeps its type, over either kind of link and for all
\* objects, sizes and bounds: in particular putData and removeData never
\* leave the buffer, whatever order the datagrams arrive in.
THEOREM TypeCorrect == Spec => []TypeOK
  <1>1. Init => IInv
    BY InitIInv
  <1>2. IInv /\ [Next]_vars => IInv'
    BY Step
  <1>3. IInv => TypeOK
    BY IInvTypes
  <1>. QED
    BY <1>1, <1>2, <1>3, PTL DEF Spec

-----------------------------------------------------------------------------
(* The filters of the receiving node.                                      *)

Event(type, o) == [type |-> type, obj |-> o]

\* A DELETED event for the object is queued.
Dropped(q, o) == \E i \in 1..Len(q) : q[i] = Event("DELETED", o)

\* A DELETED event for the object is queued behind position i.
DroppedAfter(q, i, o) == \E j \in 1..Len(q) : i < j /\ q[j] = Event("DELETED", o)

\* An INCOMING event for the object is queued, with no DELETED behind it.
Pending(q, o) ==
    \E i \in 1..Len(q) : q[i] = Event("INCOMING", o) /\ ~DroppedAfter(q, i, o)

\* When object `id` is being received, `b` is in this node's filter, `l` in localBF, `q`
\* in the event queue, `g` has been received and `a` accepted again after that:
\* an object in the filter, or about to enter localBF, was received, is being received or
\* is about to be taken out; one that is being received or was received once will be in
\* localBF, and stay there, when the queue has been handled.
Tracked(id, b, l, q, g, a) ==
    /\ l \subseteq b
    /\ id \in g => id \in a
    /\ \A o \in b : o \in g \/ id = o \/ Dropped(q, o)
    /\ \A i \in 1..Len(q) : q[i].type = "INCOMING" =>
         q[i].obj \in g \/ id = q[i].obj \/ DroppedAfter(q, i, q[i].obj)
    /\ \A o \in Objects : (o \in g \ a) \/ id = o =>
         Pending(q, o) \/ (o \in l /\ ~Dropped(q, o))

FilterInv ==
    /\ Tracked(r.id, bf, localBF, events, got, again)
    /\ r.id # NoObject => r.pc = "reading"

\* What raising an event does to the queue.
LEMMA RaiseAdds ==
    ASSUME NEW q \in Seq(EventOf(Objects)), NEW type \in {"INCOMING", "DELETED"},
           NEW o \in Objects, NEW q2, q2 = Raise(q, type, o)
    PROVE  /\ q2 \in Seq(EventOf(Objects)) /\ Len(q2) = Len(q) + 1 /\ Len(q) \in Nat
           /\ \A i \in 1..Len(q) : q2[i] = q[i]
           /\ q2[Len(q) + 1] = Event(type, o)
  <1>1. q2 \in Seq(EventOf(Objects))
    BY RaiseType
  <1>. QED
    BY <1>1, AppendProperties DEF Raise, Event

\* What is about to be taken out, and what is about to enter localBF for good, once an
\* event is raised.
LEMMA RaiseDrops ==
    ASSUME NEW q \in Seq(EventOf(Objects)), NEW type \in {"INCOMING", "DELETED"},
           NEW o \in Objects, NEW q2, q2 = Raise(q, type, o)
    PROVE  /\ \A p : Dropped(q2, p) <=> Dropped(q, p) \/ (type = "DELETED" /\ p = o)
           /\ \A i \in 1..Len(q) : \A p : DroppedAfter(q, i, p) => DroppedAfter(q2, i, p)
           /\ type = "DELETED" => \A i \in 1..Len(q) : DroppedAfter(q2, i, o)
           /\ \A p : Pending(q, p) /\ (type = "INCOMING" \/ p # o) => Pending(q2, p)
           /\ type = "INCOMING" => Pending(q2, o)
  <1>1. /\ Len(q2) = Len(q) + 1 /\ Len(q) \in Nat
        /\ \A i \in 1..Len(q) : q2[i] = q[i]
        /\ q2[Len(q) + 1] = Event(type, o)
    BY RaiseAdds
  <1>2. \A i \in 1..Len(q2) : i \in 1..Len(q) \/ i = Len(q) + 1
    BY <1>1
  <1>3. 1..Len(q) \subseteq 1..Len(q2) /\ Len(q) + 1 \in 1..Len(q2)
    BY <1>1
  <1>a. \A i \in 1..Len(q) : i < Len(q) + 1
    BY <1>1
  <1>b. \A i \in 1..Len(q2) : ~(Len(q) + 1 < i)
    BY <1>1
  <1>c. \A t, p : Event(t, p) = Event(type, o) <=> t = type /\ p = o
    BY DEF Event
  <1>4. \A p : Dropped(q2, p) <=> Dropped(q, p) \/ (type = "DELETED" /\ p = o)
    BY <1>1, <1>2, <1>3, <1>c DEF Dropped
  <1>5. \A i \in 1..Len(q) : \A p : DroppedAfter(q, i, p) => DroppedAfter(q2, i, p)
    BY <1>1, <1>3 DEF DroppedAfter
  <1>6. type = "DELETED" => \A i \in 1..Len(q) : DroppedAfter(q2, i, o)
    BY <1>1, <1>3, <1>a DEF DroppedAfter
  <1>7. ASSUME NEW p, Pending(q, p), type = "INCOMING" \/ p # o PROVE Pending(q2, p)
    <2>1. PICK i \in 1..Len(q) : q[i] = Event("INCOMING", p) /\ ~DroppedAfter(q, i, p)
      BY <1>7 DEF Pending
    <2>2. Event("DELETED", p) # Event(type, o)
      BY <1>7, <1>c
    <2>3. ~DroppedAfter(q2, i, p)
      BY <1>1, <1>2, <2>1, <2>2 DEF DroppedAfter
    <2>. QED
      BY <1>1, <1>3, <2>1, <2>3 DEF Pending
  <1>8. type = "INCOMING" => Pending(q2, o)
    <2>1. ~DroppedAfter(q2, Len(q) + 1, o)
      BY <1>b DEF DroppedAfter
    <2>. QED
      BY <1>1, <1>3, <2>1 DEF Pending
  <1>. QED
    BY <1>4, <1>5, <1>6, <1>7, <1>8

\* What is about to happen once the first event h of queue q is handled and q2 is left.
Handled(q, h, q2) ==
    /\ \A p : Dropped(q2, p) <=> DroppedAfter(q, 1, p)
    /\ \A p : Dropped(q, p) <=> Dropped(q2, p) \/ h = Event("DELETED", p)
    /\ \A i \in 1..Len(q2) : \A p : DroppedAfter(q, i + 1, p) <=> DroppedAfter(q2, i, p)
    /\ \A i \in 1..Len(q2) : i + 1 \in 1..Len(q) /\ q2[i] = q[i + 1]
    /\ \A p : Pending(q, p) => Pending(q2, p) \/ (h = Event("INCOMING", p) /\ ~Dropped(q2, p))
    /\ h \in EventOf(Objects) /\ q[1] = h /\ 1 \in 1..Len(q)

LEMMA TailDrops ==
    ASSUME NEW q \in Seq(EventOf(Objects)), q # <<>>, NEW h, h = Head(q), NEW q2, q2 = Tail(q)
    PROVE  Handled(q, h, q2)
  <1>1. /\ Len(q2) = Len(q) - 1 /\ Len(q) \in Nat /\ Len(q) >= 1 /\ q[1] = h /\ 1 \in 1..Len(q)
        /\ h \in EventOf(Objects)
    OBVIOUS
  <1>2. \A i \in 1..Len(q2) : i + 1 \in 1..Len(q) /\ q2[i] = q[i + 1] /\ 1 < i + 1
    BY <1>1
  <1>3. ASSUME NEW i \in 1..Len(q), i # 1 PROVE i - 1 \in 1..Len(q2) /\ q2[i - 1] = q[i] /\ 1 < i
    <2>1. i - 1 \in 1..Len(q2) /\ (i - 1) + 1 = i /\ 1 < i
      BY <1>1, <1>3
    <2>. QED
      BY <1>2, <2>1
  <1>4. ASSUME NEW p PROVE Dropped(q2, p) <=> DroppedAfter(q, 1, p)
    <2>1. Dropped(q2, p) => DroppedAfter(q, 1, p)
      BY <1>2 DEF Dropped, DroppedAfter
    <2>2. DroppedAfter(q, 1, p) => Dropped(q2, p)
      BY <1>1, <1>3 DEF Dropped, DroppedAfter
    <2>. QED
      BY <2>1, <2>2
  <1>5. ASSUME NEW p PROVE Dropped(q, p) <=> Dropped(q2, p) \/ h = Event("DELETED", p)
    <2>1. Dropped(q, p) => Dropped(q2, p) \/ h = Event("DELETED", p)
      BY <1>1, <1>3 DEF Dropped
    <2>2. Dropped(q2, p) \/ h = Event("DELETED", p) => Dropped(q, p)
      BY <1>1, <1>2 DEF Dropped
    <2>. QED
      BY <2>1, <2>2
  <1>6. ASSUME NEW i \in 1..Len(q2), NEW p
        PROVE  DroppedAfter(q, i + 1, p) <=> DroppedAfter(q2, i, p)
    <2>1. ASSUME DroppedAfter(q, i + 1, p) PROVE DroppedAfter(q2, i, p)
      <3>1. PICK j \in 1..Len(q) : i + 1 < j /\ q[j] = Event("DELETED", p)
        BY <2>1 DEF DroppedAfter
      <3>2. j # 1 /\ i < j - 1
        BY <1>1, <3>1
      <3>. QED
        BY <1>3, <3>1, <3>2 DEF DroppedAfter
    <2>2. ASSUME DroppedAfter(q2, i, p) PROVE DroppedAfter(q, i + 1, p)
      <3>1. PICK j \in 1..Len(q2) : i < j /\ q2[j] = Event("DELETED", p)
        BY <2>2 DEF DroppedAfter
      <3>2. i + 1 < j + 1
        BY <1>1, <3>1
      <3>. QED
        BY <1>2, <3>1, <3>2 DEF DroppedAfter
    <2>. QED
      BY <2>1, <2>2
  <1>7. ASSUME NEW p, Pending(q, p)
        PROVE  Pending(q2, p) \/ (h = Event("INCOMING", p) /\ ~Dropped(q2, p))
    <2>1. PICK i \in 1..Len(q) : q[i] = Event("INCOMING", p) /\ ~DroppedAfter(q, i, p)
      BY <1>7 DEF Pending
    <2>2. CASE i = 1
      BY <1>1, <1>4, <2>1, <2>2
    <2>3. CASE i # 1
      <3>1. PICK k \in 1..Len(q2) : k + 1 = i
        BY <1>1, <1>3, <2>3
      <3>2. q2[k] = q[i] /\ ~DroppedAfter(q2, k, p)
        BY <1>2, <1>6, <2>1, <3>1
      <3>. QED
        BY <2>1, <3>2 DEF Pending
    <2>. QED
      BY <2>2, <2>3
  <1>. QED
    BY <1>1, <1>2, <1>4, <1>5, <1>6, <1>7 DEF Handled

\* An object is accepted.
LEMMA TrackAccept ==
    ASSUME NEW b, NEW l, NEW q \in Seq(EventOf(Objects)), NEW g, NEW a, b \subseteq Objects,
           Tracked(NoObject, b, l, q, g, a), NEW o \in Objects,
           NEW q2, q2 = Raise(q, "INCOMING", o), NEW a2, a2 = IF o \in g THEN a \cup {o} ELSE a
    PROVE  Tracked(o, b \cup {o}, l, q2, g, a2)
  <1>1. /\ Len(q2) = Len(q) + 1 /\ Len(q) \in Nat
        /\ \A i \in 1..Len(q) : q2[i] = q[i]
        /\ q2[Len(q) + 1] = Event("INCOMING", o)
    BY RaiseAdds
  <1>2. \A i \in 1..Len(q2) : i \in 1..Len(q) \/ i = Len(q) + 1
    BY <1>1
  <1>3. /\ \A p : Dropped(q2, p) <=> Dropped(q, p)
        /\ \A i \in 1..Len(q) : \A p : DroppedAfter(q, i, p) => DroppedAfter(q2, i, p)
        /\ \A p : Pending(q, p) => Pending(q2, p)
        /\ Pending(q2, o)
    BY RaiseDrops
  <1>4. ASSUME NEW i \in 1..Len(q2), q2[i].type = "INCOMING"
        PROVE  q2[i].obj \in g \/ o = q2[i].obj \/ DroppedAfter(q2, i, q2[i].obj)
    <2>1. CASE i \in 1..Len(q)
      <3>1. q[i] \in EventOf(Objects) /\ q2[i] = q[i]
        BY <1>1, <2>1, ElementOfSeq
      <3>2. q[i].obj # NoObject
        BY <3>1, ConstantsAssumption DEF EventOf
      <3>. QED
        BY <1>3, <1>4, <2>1, <3>1, <3>2 DEF Tracked
    <2>2. CASE i = Len(q) + 1
      BY <1>1, <2>2 DEF Event
    <2>. QED
      BY <1>2, <2>1, <2>2
  <1>5. \A p \in b \cup {o} : p \in g \/ o = p \/ Dropped(q2, p)
    BY <1>3, ConstantsAssumption DEF Tracked
  <1>6. ASSUME NEW p \in Objects, p \in g \ a2 \/ o = p
        PROVE  Pending(q2, p) \/ (p \in l /\ ~Dropped(q2, p))
    BY <1>3, <1>6 DEF Tracked
  <1>. QED
    BY <1>4, <1>5, <1>6 DEF Tracked

\* The object is complete.
LEMMA TrackFinish ==
    ASSUME NEW b, NEW l, NEW q, NEW g, NEW a, NEW o \in Objects, g \subseteq Objects,
           Tracked(o, b, l, q, g, a)
    PROVE  Tracked(NoObject, b, l, q, g \cup {o}, a)
  BY ConstantsAssumption DEF Tracked

\* Its transfer has failed.
LEMMA TrackFail ==
    ASSUME NEW b, NEW l, NEW q \in Seq(EventOf(Objects)), NEW g, NEW a, g \subseteq Objects,
           NEW o \in Objects, Tracked(o, b, l, q, g, a), NEW q2, q2 = Raise(q, "DELETED", o)
    PROVE  Tracked(NoObject, b, l, q2, g, a)
  <1>1. /\ Len(q2) = Len(q) + 1 /\ Len(q) \in Nat
        /\ \A i \in 1..Len(q) : q2[i] = q[i]
        /\ q2[Len(q) + 1] = Event("DELETED", o)
    BY RaiseAdds
  <1>2. \A i \in 1..Len(q2) : i \in 1..Len(q) \/ i = Len(q) + 1
    BY <1>1
  <1>3. /\ \A p : Dropped(q2, p) <=> Dropped(q, p) \/ p = o
        /\ \A i \in 1..Len(q) : \A p : DroppedAfter(q, i, p) => DroppedAfter(q2, i, p)
        /\ \A i \in 1..Len(q) : DroppedAfter(q2, i, o)
        /\ \A p : Pending(q, p) /\ p # o => Pending(q2, p)
    BY RaiseDrops
  <1>4. ASSUME NEW i \in 1..Len(q2), q2[i].type = "INCOMING"
        PROVE  q2[i].obj \in g \/ DroppedAfter(q2, i, q2[i].obj)
    <2>1. i \in 1..Len(q) /\ q2[i] = q[i]
      BY <1>1, <1>2, <1>4 DEF Event
    <2>. QED
      BY <1>3, <1>4, <2>1 DEF Tracked
  <1>5. \A p \in b : p \in g \/ Dropped(q2, p)
    BY <1>3 DEF Tracked
  <1>6. ASSUME NEW p \in Objects, p \in g \ a
        PROVE  Pending(q2, p) \/ (p \in l /\ ~Dropped(q2, p))
    <2>1. p # o
      BY <1>6 DEF Tracked
    <2>. QED
      BY <1>3, <1>6, <2>1 DEF Tracked
  <1>7. NoObject \notin g
    BY ConstantsAssumption
  <1>. QED
    BY <1>4, <1>5, <1>6, <1>7, ConstantsAssumption DEF Tracked

\* DataManager handles INCOMING.
LEMMA TrackIncoming ==
    ASSUME NEW id, NEW b, NEW l, NEW q \in Seq(EventOf(Objects)), q # <<>>, NEW g, NEW a,
           Tracked(id, b, l, q, g, a), Head(q).type = "INCOMING", NEW b2,
           \/ b2 = b \cup {Head(q).obj} \/ b2 = l \cup {Head(q).obj}
           \/ Head(q).obj \in l /\ b2 = b
    PROVE  Tracked(id, b2, l \cup {Head(q).obj}, Tail(q), g, a)
  <1>a. PICK h, q2, l2 : h = Head(q) /\ q2 = Tail(q) /\ l2 = l \cup {h.obj}
    OBVIOUS
  <1>b. h.type = "INCOMING" /\ (b2 = b \cup {h.obj} \/ b2 = l2 \/ (h.obj \in l /\ b2 = b))
    BY <1>a
  <1>0. Handled(q, h, q2)
    BY <1>a, TailDrops
  <1>1. /\ \A p : Dropped(q2, p) <=> DroppedAfter(q, 1, p)
        /\ \A p : Dropped(q, p) <=> Dropped(q2, p) \/ h = Event("DELETED", p)
        /\ \A i \in 1..Len(q2) : \A p : DroppedAfter(q, i + 1, p) <=> DroppedAfter(q2, i, p)
        /\ \A i \in 1..Len(q2) : i + 1 \in 1..Len(q) /\ q2[i] = q[i + 1]
        /\ \A p : Pending(q, p) => Pending(q2, p) \/ (h = Event("INCOMING", p) /\ ~Dropped(q2, p))
        /\ h \in EventOf(Objects) /\ q[1] = h /\ 1 \in 1..Len(q)
    BY <1>0 DEF Handled
  <1>2. \A p : Dropped(q, p) <=> Dropped(q2, p)
    BY <1>1, <1>b DEF Event
  <1>3. h.obj \in g \/ id = h.obj \/ Dropped(q2, h.obj)
    BY <1>1, <1>b DEF Tracked
  <1>4. l2 \subseteq b2 /\ b2 \subseteq b \cup {h.obj}
    BY <1>a, <1>b DEF Tracked
  <1>5. \A o \in b2 : o \in g \/ id = o \/ Dropped(q2, o)
    BY <1>2, <1>3, <1>4 DEF Tracked
  <1>6. \A i \in 1..Len(q2) : q2[i].type = "INCOMING" =>
          q2[i].obj \in g \/ id = q2[i].obj \/ DroppedAfter(q2, i, q2[i].obj)
    BY <1>1 DEF Tracked
  <1>7. ASSUME NEW o \in Objects, o \in g \ a \/ id = o
        PROVE  Pending(q2, o) \/ (o \in l2 /\ ~Dropped(q2, o))
    <2>1. Pending(q, o) \/ (o \in l /\ ~Dropped(q, o))
      BY <1>7 DEF Tracked
    <2>2. h = Event("INCOMING", o) => o \in l2
      BY <1>a DEF Event
    <2>. QED
      BY <1>1, <1>2, <1>a, <2>1, <2>2
  <1>. QED
    BY <1>4, <1>5, <1>6, <1>7, <1>a DEF Tracked

\* DataManager handles DELETED.
LEMMA TrackDeleted ==
    ASSUME NEW id, NEW b, NEW l, NEW q \in Seq(EventOf(Objects)), q # <<>>, NEW g, NEW a,
           Tracked(id, b, l, q, g, a), Head(q).type = "DELETED"
    PROVE  Tracked(id, l \ {Head(q).obj}, l \ {Head(q).obj}, Tail(q), g, a)
  <1>a. PICK h, q2, l2 : h = Head(q) /\ q2 = Tail(q) /\ l2 = l \ {h.obj}
    OBVIOUS
  <1>b. h.type = "DELETED"
    BY <1>a
  <1>0. Handled(q, h, q2)
    BY <1>a, TailDrops
  <1>1. /\ \A p : Dropped(q, p) <=> Dropped(q2, p) \/ h = Event("DELETED", p)
        /\ \A i \in 1..Len(q2) : \A p : DroppedAfter(q, i + 1, p) <=> DroppedAfter(q2, i, p)
        /\ \A i \in 1..Len(q2) : i + 1 \in 1..Len(q) /\ q2[i] = q[i + 1]
        /\ \A p : Pending(q, p) => Pending(q2, p) \/ h = Event("INCOMING", p)
        /\ h \in EventOf(Objects)
    BY <1>0 DEF Handled
  <1>2. /\ \A p : h # Event("INCOMING", p)
        /\ \A p : h = Event("DELETED", p) <=> p = h.obj
    BY <1>1, <1>b DEF Event, EventOf
  <1>3. \A o \in l2 : o \in g \/ id = o \/ Dropped(q2, o)
    BY <1>1, <1>2, <1>a DEF Tracked
  <1>4. \A i \in 1..Len(q2) : q2[i].type = "INCOMING" =>
          q2[i].obj \in g \/ id = q2[i].obj \/ DroppedAfter(q2, i, q2[i].obj)
    BY <1>1 DEF Tracked
  <1>5. ASSUME NEW o \in Objects, o \in g \ a \/ id = o
        PROVE  Pending(q2, o) \/ (o \in l2 /\ ~Dropped(q2, o))
    <2>1. Pending(q, o) \/ (o \in l /\ ~Dropped(q, o))
      BY <1>5 DEF Tracked
    <2>. QED
      BY <1>1, <1>2, <1>a, <2>1
  <1>. QED
    BY <1>3, <1>4, <1>5, <1>a DEF Tracked

\* This node's filter is replaced by a copy of localBF.
LEMMA TrackCopy ==
    ASSUME NEW id, NEW b, NEW l, NEW q, NEW g, NEW a, Tracked(id, b, l, q, g, a)
    PROVE  Tracked(id, l, l, q, g, a)
  BY DEF Tracked

\* A receive call fails.
LEMMA FailsTracked ==
    ASSUME Legal, NEW rr \in Receiver, NEW evs \in Seq(EventOf(Objects)), UNCHANGED localBF,
           Tracked(rr.id, bf', localBF, evs, got, again'), ReceiveFails(rr, evs)
    PROVE  FilterInv'
  <1>1. r'.id = NoObject /\ UNCHANGED got
    BY DEF ReceiveFails, Ended, Fresh
  <1>2. CASE rr.id = NoObject
    BY <1>1, <1>2 DEF ReceiveFails, FilterInv
  <1>3. CASE rr.id # NoObject
    <2>1. events' = Raise(evs, "DELETED", rr.id) /\ rr.id \in Objects
      BY <1>3 DEF ReceiveFails, Receiver
    <2>2. got \subseteq Objects
      BY DEF Legal
    <2>3. Tracked(NoObject, bf', localBF', events', got', again')
      BY <1>1, <2>1, <2>2, TrackFail
    <2>. QED
      BY <1>1, <2>3 DEF FilterInv
  <1>. QED
    BY <1>2, <1>3

\* A receive call is complete.
LEMMA FinishTracked ==
    ASSUME Legal, NEW rr \in Receiver, rr.id # NoObject, NEW evs \in Seq(EventOf(Objects)), NEW q,
           UNCHANGED localBF, Tracked(rr.id, bf', localBF, evs, got, again'), Finish(rr, evs, q)
    PROVE  FilterInv'
  <1>1. r'.id = NoObject /\ got' = got \cup {rr.id} /\ events' = evs
    BY DEF Finish, Fresh
  <1>2. rr.id \in Objects /\ got \subseteq Objects
    BY DEF Receiver, Legal
  <1>3. Tracked(NoObject, bf', localBF', events', got', again')
    BY <1>1, <1>2, TrackFinish
  <1>. QED
    BY <1>1, <1>3 DEF FilterInv

\* The answer to a complete header.
LEMMA AnswerTracked ==
    ASSUME Legal, NEW rr \in Receiver, rr.id # NoObject, rr.pc = "reading", UNCHANGED localBF,
           Tracked(NoObject, bf, localBF, events, got, again), Answer(rr)
    PROVE  FilterInv'
  <1>0. rr.id \in Objects /\ bf \subseteq Objects /\ events \in Seq(EventOf(Objects))
    BY EventsMonotone DEF Legal, Receiver
  <1>1. CASE rr.id \in bf
    <2>1. UNCHANGED <<bf, events, got, again>> /\ (r' = Fresh(rr.buf) \/ r' = Ended(rr.buf))
      BY <1>1 DEF Answer
    <2>2. r'.id = NoObject
      BY <2>1 DEF Fresh, Ended
    <2>. QED
      BY <2>1, <2>2 DEF FilterInv
  <1>2. CASE rr.id \notin bf
    <2>1. PICK evs : evs = Raise(events, "INCOMING", rr.id)
      OBVIOUS
    <2>2. bf' = bf \cup {rr.id} /\ again' = IF rr.id \in got THEN again \cup {rr.id} ELSE again
      BY <1>2 DEF Answer
    <2>3. evs \in Seq(EventOf(Objects))
      BY <1>0, <2>1, RaiseType
    <2>4. Tracked(rr.id, bf', localBF, evs, got, again')
      BY <1>0, <2>1, <2>2, TrackAccept
    <2>5. \/ \E q : Finish(rr, evs, q)
          \/ events' = evs /\ r' = rr /\ UNCHANGED got
          \/ ReceiveFails(rr, evs)
      BY <1>2, <2>1 DEF Answer
    <2>6. CASE \E q : Finish(rr, evs, q)
      BY <2>3, <2>4, <2>6, FinishTracked
    <2>7. CASE events' = evs /\ r' = rr /\ UNCHANGED got
      BY <2>4, <2>7 DEF FilterInv
    <2>8. CASE ReceiveFails(rr, evs)
      BY <2>3, <2>4, <2>8, FailsTracked
    <2>. QED
      BY <2>5, <2>6, <2>7, <2>8
  <1>. QED
    BY <1>1, <1>2

\* The state a receive call works on while it reads.
Underway(rr) ==
    rr \in Receiver /\ rr.pc = "reading" /\ Tracked(rr.id, bf, localBF, events, got, again)

\* putData and removeData leave the call reading.
LEMMA PutKeepsPc ==
    ASSUME NEW rr \in Receiver, NEW data \in Seq(Cell), NEW n \in 0..Len(data),
           TakesHeader(rr, data, n), NEW res, res = PutData(rr, data, n), NEW k \in Nat
    PROVE  RemoveData(res.rr, k).pc = rr.pc
  <1>1. res.rr \in Receiver
    BY PutDataType
  <1>2. res.rr.pc = rr.pc
    BY DEF PutData, Receiver
  <1>. QED
    BY <1>1, <1>2 DEF RemoveData, Receiver

\* One iteration of the receive loop.
LEMMA IterateTracked ==
    ASSUME Legal, NEW rr, Underway(rr), Iterate(rr), UNCHANGED localBF
    PROVE  FilterInv'
  <1>0. rr \in Receiver /\ rr.pc = "reading" /\ Tracked(rr.id, bf, localBF, events, got, again)
    BY DEF Underway
  <1>a. events \in Seq(EventOf(Objects))
    BY EventsMonotone DEF Legal
  <1>1. PICK data, n, res : /\ data = SubSeq(rr.buf, 1, rr.len) /\ n \in 0..Len(data)
                            /\ res = PutData(rr, data, n)
                            /\ TakesHeader(rr, data, n)
                            /\ \/ ReceiveFails(rr, events) /\ UNCHANGED <<bf, again>>
                               \/ res.put >= 0 /\ AfterPut(rr, RemoveData(res.rr, res.put))
    BY DEF Iterate
  <1>2. data \in Seq(Cell)
    BY <1>0, <1>1, FilledPart
  <1>3. CASE ReceiveFails(rr, events) /\ UNCHANGED <<bf, again>>
    BY <1>0, <1>a, <1>3, FailsTracked
  <1>4. CASE res.put >= 0 /\ AfterPut(rr, RemoveData(res.rr, res.put))
    <2>1. PICK nxt : nxt = RemoveData(res.rr, res.put)
      OBVIOUS
    <2>a. n \in 0..Len(data) /\ TakesHeader(rr, data, n) /\ res = PutData(rr, data, n)
      BY <1>1
    <2>b. /\ PutData(rr, data, n).rr \in Receiver /\ PutData(rr, data, n).put \in Int
          /\ rr.id # NoObject => PutData(rr, data, n).rr.id = rr.id
      BY <1>0, <1>2, <2>a, PutDataType
    <2>2. /\ res.rr \in Receiver /\ res.put \in Nat
          /\ rr.id # NoObject => res.rr.id = rr.id
      BY <1>4, <2>a, <2>b
    <2>c. RemoveData(res.rr, res.put).pc = rr.pc
      BY <1>0, <1>2, <2>a, <2>2, PutKeepsPc
    <2>d. RemoveData(res.rr, res.put) \in Receiver /\ RemoveData(res.rr, res.put).id = res.rr.id
      BY <2>2, RemoveDataType
    <2>3. nxt \in Receiver /\ nxt.id = res.rr.id /\ nxt.pc = "reading"
      BY <1>0, <2>1, <2>c, <2>d
    <2>4. CASE rr.id = NoObject /\ nxt.id # NoObject
      <3>1. Answer(nxt)
        BY <1>4, <2>1, <2>4 DEF AfterPut
      <3>. QED
        BY <1>0, <2>3, <2>4, <3>1, AnswerTracked
    <2>5. CASE ~(rr.id = NoObject /\ nxt.id # NoObject)
      <3>1. nxt.id = rr.id
        BY <2>2, <2>3, <2>5
      <3>2. /\ UNCHANGED <<bf, again>>
            /\ IF Complete(nxt) THEN Finish(nxt, events, toS)
               ELSE r' = nxt /\ UNCHANGED <<events, got>>
        BY <1>4, <2>1, <2>5 DEF AfterPut
      <3>3. CASE Complete(nxt)
        <4>1. nxt.id # NoObject
          BY <3>3 DEF Complete
        <4>. QED
          BY <1>0, <1>a, <2>3, <3>1, <3>2, <3>3, <4>1, FinishTracked
      <3>4. CASE ~Complete(nxt)
        BY <1>0, <2>3, <3>1, <3>2, <3>4 DEF FilterInv
      <3>. QED
        BY <3>3, <3>4
    <2>. QED
      BY <2>4, <2>5
  <1>. QED
    BY <1>1, <1>3, <1>4

\* The sequence number test.
LEMMA SequencedTracked ==
    ASSUME Legal, NEW rr, Underway(rr), NEW seq \in Nat, Sequenced(rr, seq), UNCHANGED localBF
    PROVE  FilterInv'
  <1>0. rr \in Receiver /\ rr.pc = "reading" /\ Tracked(rr.id, bf, localBF, events, got, again)
    BY DEF Underway
  <1>a. events \in Seq(EventOf(Objects))
    BY EventsMonotone DEF Legal
  <1>1. PICK next : next = [rr EXCEPT !.cur = @ + 1]
    OBVIOUS
  <1>2. Underway(next)
    BY <1>0, <1>1 DEF Underway, Receiver
  <1>3. \/ Iterate(rr) \/ Iterate(next)
        \/ r' = rr /\ UNCHANGED <<bf, events, got, again>>
        \/ ReceiveFails(rr, events) /\ UNCHANGED <<bf, again>>
    BY <1>1 DEF Sequenced
  <1>4. CASE r' = rr /\ UNCHANGED <<bf, events, got, again>>
    BY <1>0, <1>4 DEF FilterInv
  <1>5. CASE ReceiveFails(rr, events) /\ UNCHANGED <<bf, again>>
    BY <1>0, <1>a, <1>5, FailsTracked
  <1>. QED
    BY <1>2, <1>3, <1>4, <1>5, IterateTracked

\* A receive call reads.
LEMMA ReceiveTracked ==
    ASSUME IInv, FilterInv, Receive
    PROVE  FilterInv'
  <1>0. Legal /\ r \in Receiver /\ toR \in Seq(Packet) /\ toR # <<>>
    BY DEF IInv, Legal, Receive
  <1>a. events \in Seq(EventOf(Objects))
    BY EventsMonotone DEF IInv, Legal
  <1>1. PICK rr : rr = [r EXCEPT !.pc = "reading"]
    OBVIOUS
  <1>2. Underway(rr)
    BY <1>0, <1>1 DEF FilterInv, Underway, Receiver
  <1>3. Read(rr) /\ UNCHANGED localBF
    BY <1>1 DEF Receive
  <1>4. CASE Room(rr) <= 0 /\ ReceiveFails(rr, events) /\ UNCHANGED <<bf, again>>
    BY <1>0, <1>2, <1>3, <1>a, <1>4, FailsTracked DEF Underway
  <1>5. ASSUME Room(rr) > 0, NEW n \in 1..(IF Datagram THEN 1 ELSE Lesser(Room(rr), Len(toR))),
               Sequenced(GetData(rr, Arrived(n)), toR[1].seq)
        PROVE  FilterInv'
    <2>0. Room(rr) \in Int /\ Len(toR) \in Nat /\ Len(toR) > 0
      BY <1>0, <1>2, ConstantsAssumption DEF Room, Receiver, Underway
    <2>1. n \in Nat /\ n >= 1 /\ n <= Len(toR)
      BY <1>5, <2>0 DEF Lesser
    <2>2. Arrived(n) \in Seq(Cell)
      BY <1>0, <2>1, ArrivedType
    <2>3. PICK nxt : nxt = GetData(rr, Arrived(n))
      OBVIOUS
    <2>4. nxt \in Receiver /\ nxt.id = rr.id
      BY <1>2, <1>5, <2>2, <2>3, GetDataType DEF Underway
    <2>5. nxt.pc = rr.pc
      BY <1>2, <2>3 DEF GetData, Underway, Receiver
    <2>6. Underway(nxt)
      BY <1>2, <2>4, <2>5 DEF Underway
    <2>7. toR[1].seq \in Nat
      <3>1. toR[1] \in Packet
        BY <1>0, <2>0, ElementOfSeq
      <3>. QED
        BY <3>1 DEF Packet
    <2>. QED
      BY <1>0, <1>3, <1>5, <2>3, <2>6, <2>7, SequencedTracked
  <1>. QED
    BY <1>3, <1>4, <1>5 DEF Read

\* Every step keeps the filter accounted for.
LEMMA FilterStep ==
    ASSUME IInv, FilterInv, [Next]_vars
    PROVE  FilterInv'
  <1>1. CASE Receive
    BY <1>1, ReceiveTracked
  <1>2. CASE ReceiveTimeout \/ ReceiverLosesPeer
    <2>1. ReceiveFails(r, events) /\ UNCHANGED <<bf, again, localBF>>
      BY <1>2 DEF ReceiveTimeout, ReceiverLosesPeer
    <2>2. Legal /\ r \in Receiver /\ events \in Seq(EventOf(Objects))
      BY EventsMonotone DEF IInv, Legal
    <2>. QED
      BY <2>1, <2>2, FailsTracked DEF FilterInv
  <1>3. CASE HandleEvent
    <2>1. events \in Seq(EventOf(Objects)) /\ events # <<>>
      BY <1>3, EventsMonotone DEF IInv, Legal, HandleEvent, onIncomingDataObject,
         onDeletedDataObject, Take
    <2>2. Tracked(r.id, bf, localBF, events, got, again)
      BY DEF FilterInv
    <2>3. UNCHANGED <<r, got, again>> /\ events' = Tail(events)
      BY <1>3, KernelFrame DEF HandleEvent, onIncomingDataObject, onDeletedDataObject, Take
    <2>4. CASE onIncomingDataObject
      <3>1. /\ Head(events).type = "INCOMING" /\ localBF' = localBF \cup {Head(events).obj}
            /\ \/ bf' = bf \cup {Head(events).obj} \/ bf' = localBF \cup {Head(events).obj}
               \/ Head(events).obj \in localBF /\ bf' = bf
        BY <2>4 DEF onIncomingDataObject, Take
      <3>2. Tracked(r.id, bf', localBF \cup {Head(events).obj}, Tail(events), got, again)
        BY <2>1, <2>2, <3>1, TrackIncoming
      <3>. QED
        BY <2>3, <3>1, <3>2 DEF FilterInv
    <2>5. CASE onDeletedDataObject
      <3>1. /\ Head(events).type = "DELETED" /\ localBF' = localBF \ {Head(events).obj}
            /\ bf' = localBF \ {Head(events).obj}
        BY <2>5 DEF onDeletedDataObject, Take
      <3>2. Tracked(r.id, localBF \ {Head(events).obj}, localBF \ {Head(events).obj},
                    Tail(events), got, again)
        BY <2>1, <2>2, <3>1, TrackDeleted
      <3>. QED
        BY <2>3, <3>1, <3>2 DEF FilterInv
    <2>. QED
      BY <1>3, <2>4, <2>5 DEF HandleEvent
  <1>6. CASE onPeriodicBloomfilterUpdate
    <2>1. bf' = localBF /\ UNCHANGED <<localBF, r, events, got, again>>
      BY <1>6 DEF onPeriodicBloomfilterUpdate
    <2>2. Tracked(r.id, localBF, localBF, events, got, again)
      BY TrackCopy DEF FilterInv
    <2>. QED
      BY <2>1, <2>2 DEF FilterInv
  <1>4. CASE Reconnect
    <2>1. r.id = NoObject
      BY <1>4 DEF FilterInv, Reconnect
    <2>2. r'.id = NoObject /\ UNCHANGED <<bf, localBF, events, got, again>>
      BY <1>4 DEF Reconnect, Fresh
    <2>. QED
      BY <2>1, <2>2 DEF FilterInv
  <1>5. CASE \/ \E o \in Objects : StartSend(o)
             \/ SendChunk \/ PartSent \/ GetReply \/ GetAck \/ ReplyTimeout
             \/ SendFails \/ SenderLosesPeer \/ SenderLeaves \/ SenderDiscards
             \/ Lose \/ Duplicate \/ Reset \/ UNCHANGED vars
    <2>1. UNCHANGED <<r, bf, localBF, events, got, again>>
      BY <1>5 DEF StartSend, SendChunk, PartSent, GetReply, GetAck, ReplyTimeout, SendFails,
         SenderLosesPeer, SenderLeaves, SenderDiscards, Lose, Duplicate, Reset, rcvVars, vars
    <2>. QED
      BY <2>1 DEF FilterInv
  <1>. QED
    BY <1>1, <1>2, <1>3, <1>4, <1>5, <1>6 DEF Next

\* The invariant and the filter's part of it hold in every reachable state.
THEOREM FilterInductive == Spec => [](IInv /\ FilterInv)
  <1>1. Init => IInv /\ FilterInv
    <2>1. Tracked(NoObject, {}, {}, <<>>, {}, {})
      BY ConstantsAssumption DEF Tracked
    <2>2. Init => FilterInv
      BY <2>1 DEF Init, FilterInv, Fresh
    <2>. QED
      BY <2>2, InitIInv
  <1>2. IInv /\ FilterInv /\ [Next]_vars => (IInv /\ FilterInv)'
    BY Step, FilterStep
  <1>. QED
    BY <1>1, <1>2, PTL DEF Spec

\* An object is in the filter of the receiving node only if the node has it, is
\* receiving it, or will take it out again: receiveDataObject's cleanup covers every
\* way in which a transfer can end.
THEOREM FilterKept == Spec => []FilterAccounted
  <1>1. IInv /\ FilterInv => FilterAccounted
    <2> SUFFICES ASSUME IInv, FilterInv, NEW o \in bf
                 PROVE  \/ o \in got
                        \/ r.pc = "reading" /\ r.id = o
                        \/ Queued("DELETED", o)
      BY DEF FilterAccounted
    <2>1. o # NoObject
      BY ConstantsAssumption DEF IInv, Legal
    <2>2. Dropped(events, o) => Queued("DELETED", o)
      BY DEF Dropped, Queued, Event
    <2>. QED
      BY <2>1, <2>2 DEF FilterInv, Tracked
  <1>. QED
    BY <1>1, FilterInductive, PTL

\* A received object that was not accepted a second time is in the filter as soon as its
\* INCOMING event has been handled: localBF then holds it, so no copy forgets it, and no
\* DELETED of an earlier, failed transfer is queued behind that event.
THEOREM ReceivedRemembered == Spec => []Remembered
  <1>1. IInv /\ FilterInv => Remembered
    <2> SUFFICES ASSUME IInv, FilterInv, NEW o \in got \ again
                 PROVE  o \in bf \/ Queued("INCOMING", o)
      BY DEF Remembered
    <2>1. o \in Objects
      BY DEF IInv, Legal
    <2>2. Pending(events, o) => Queued("INCOMING", o)
      BY DEF Pending, Queued, Event
    <2>. QED
      BY <2>1, <2>2 DEF FilterInv, Tracked
  <1>. QED
    BY <1>1, FilterInductive, PTL

-----------------------------------------------------------------------------
(* Over a stream: what arrives is what was sent.                           *)

\* The queue carries the cells a + 1 to b of object o, one by one.
Carries(q, o, a, b) ==
    /\ Len(q) = b - a
    /\ \A i \in 1..Len(q) : q[i].seq = 0 /\ q[i].cells = <<CellAt(o, a + i)>>

\* The cells of f are those of o that follow the first a.
Holds(f, o, a) == \A i \in 1..Len(f) : f[i] = CellAt(o, a + i)

\* The first k cells of o have been sent: the receiver has some of them, the others are
\* on their way, and it is reading the header, or the payload.
InHeader(o, k) ==
    /\ r.id = NoObject /\ k <= HeaderLen /\ Len(r.header) < HeaderLen
    /\ Holds(r.header, o, 0) /\ Carries(toR, o, Len(r.header), k)

InPayload(o, k) ==
    /\ r.id = o /\ k <= HeaderLen + DataLen[o] /\ Len(r.file) < DataLen[o]
    /\ Holds(r.file, o, HeaderLen) /\ Carries(toR, o, HeaderLen + Len(r.file), k)

\* It is between two objects.
Ready == r.id = NoObject /\ r.header = <<>> /\ toR = <<>>

\* Nothing stays behind in the buffer between two reads.
Tidy == r.len = 0 /\ (r.id = NoObject => r.file = <<>>)

Live == conn = "open" /\ r.pc # "closed"

\* More of an object is sent.
LEMMA CarriesMore ==
    ASSUME NEW q \in Seq(Packet), NEW p \in Seq(Packet), NEW o, NEW a \in Nat, NEW b \in Nat, NEW c \in Nat,
           Carries(q, o, a, b), Carries(p, o, b, c)
    PROVE  Carries(q \o p, o, a, c)
  <1>1. PICK u : u = q \o p
    OBVIOUS
  <1>5. Len(q) = b - a /\ Len(p) = c - b /\ Len(q) \in Nat /\ Len(p) \in Nat
    BY LenProperties DEF Carries
  <1>6. /\ Len(u) = Len(q) + Len(p)
        /\ \A i \in 1..(Len(q) + Len(p)) : u[i] = IF i <= Len(q) THEN q[i] ELSE p[i - Len(q)]
    BY <1>1, ConcatProperties
  <1>2. /\ Len(u) = Len(q) + Len(p) /\ Len(q) = b - a /\ Len(p) = c - b /\ Len(q) \in Nat /\ Len(p) \in Nat
        /\ \A i \in 1..Len(u) : u[i] = IF i <= Len(q) THEN q[i] ELSE p[i - Len(q)]
    BY <1>5, <1>6
  <1>3. ASSUME NEW i \in 1..Len(u) PROVE u[i].seq = 0 /\ u[i].cells = <<CellAt(o, a + i)>>
    <2>1. CASE i <= Len(q)
      <3>1. i \in 1..Len(q) /\ u[i] = q[i]
        BY <1>2, <2>1
      <3>. QED
        BY <3>1 DEF Carries
    <2>2. CASE ~(i <= Len(q))
      <3>1. PICK j, x, y : j = i - Len(q) /\ x = Len(q) /\ y = Len(p)
        OBVIOUS
      <3>2. x \in Nat /\ y \in Nat /\ x = b - a /\ i \in 1..(x + y) /\ ~(i <= x) /\ j = i - x
        BY <1>2, <2>2, <3>1
      <3>3. j \in 1..y /\ b + j = a + i
        BY <3>2
      <3>4. u[i] = p[j]
        BY <1>2, <2>2, <3>1
      <3>5. p[j].seq = 0 /\ p[j].cells = <<CellAt(o, b + j)>>
        BY <3>1, <3>3 DEF Carries
      <3>. QED
        BY <3>3, <3>4, <3>5
    <2>. QED
      BY <2>1, <2>2
  <1>4. Len(u) = c - a
    BY <1>2
  <1>. QED
    BY <1>1, <1>3, <1>4 DEF Carries

\* Some of it is read.
LEMMA CarriesRest ==
    ASSUME NEW q \in Seq(Packet), NEW o, NEW a \in Nat, NEW b \in Nat, Carries(q, o, a, b),
           NEW n \in Nat, n <= Len(q), NEW u, u = SubSeq(q, n + 1, Len(q))
    PROVE  Carries(u, o, a + n, b)
  <1>1. /\ Len(q) = b - a /\ Len(q) \in Nat /\ Len(u) = Len(q) - n
        /\ \A i \in 1..Len(u) : u[i] = q[n + i] /\ n + i \in 1..Len(q)
    <2>1. Len(q) = b - a /\ Len(q) \in Nat
      BY DEF Carries
    <2>2. \A i \in (n + 1)..Len(q) : q[i] \in Packet
      BY <2>1, ElementOfSeq
    <2>3. /\ Len(u) = IF n + 1 <= Len(q) THEN Len(q) - (n + 1) + 1 ELSE 0
          /\ \A i \in 1..(Len(q) - (n + 1) + 1) : u[i] = q[(n + 1) + i - 1]
      BY <2>1, <2>2, SubSeqProperties
    <2>4. Len(u) = Len(q) - n
      BY <2>1, <2>3
    <2>5. \A i \in 1..Len(u) : (n + 1) + i - 1 = n + i /\ n + i \in 1..Len(q)
                               /\ i \in 1..(Len(q) - (n + 1) + 1)
      BY <2>1, <2>4
    <2>. QED
      BY <2>1, <2>3, <2>4, <2>5
  <1>2. \A i \in 1..Len(u) : a + (n + i) = (a + n) + i
    BY <1>1
  <1>3. \A i \in 1..Len(u) : u[i].seq = 0 /\ u[i].cells = <<CellAt(o, (a + n) + i)>>
    BY <1>1, <1>2 DEF Carries
  <1>. QED
    BY <1>1, <1>3 DEF Carries

\* What was read is put behind what was there.
LEMMA HoldsMore ==
    ASSUME NEW f \in Seq(Cell), NEW d \in Seq(Cell), NEW o, NEW a \in Nat, Holds(f, o, a),
           Holds(d, o, a + Len(f))
    PROVE  /\ f \o d \in Seq(Cell) /\ Len(f \o d) = Len(f) + Len(d) /\ Len(f) \in Nat /\ Len(d) \in Nat
           /\ Holds(f \o d, o, a)
  <1>1. PICK u : u = f \o d
    OBVIOUS
  <1>2. /\ u \in Seq(Cell) /\ Len(u) = Len(f) + Len(d) /\ Len(f) \in Nat /\ Len(d) \in Nat
        /\ \A i \in 1..Len(u) : u[i] = IF i <= Len(f) THEN f[i] ELSE d[i - Len(f)]
    BY <1>1, ConcatProperties
  <1>3. ASSUME NEW i \in 1..Len(u) PROVE u[i] = CellAt(o, a + i)
    <2>1. CASE i <= Len(f)
      BY <1>2, <2>1 DEF Holds
    <2>2. CASE ~(i <= Len(f))
      <3>1. i - Len(f) \in 1..Len(d) /\ u[i] = d[i - Len(f)] /\ (a + Len(f)) + (i - Len(f)) = a + i
        BY <1>2, <2>2
      <3>. QED
        BY <3>1 DEF Holds
    <2>. QED
      BY <2>1, <2>2
  <1>. QED
    BY <1>1, <1>2, <1>3 DEF Holds

\* All of the payload is the payload.
LEMMA HoldsAll ==
    ASSUME NEW o \in Objects, NEW f \in Seq(Cell), Holds(f, o, HeaderLen), Len(f) = DataLen[o]
    PROVE  f = Payload(o)
  <1>1. PICK u, a, b : /\ a = HeaderLen + 1 /\ b = HeaderLen + DataLen[o]
                       /\ u = Cells(o, a, b)
    OBVIOUS
  <1>2. a \in Nat /\ b \in Nat /\ a <= b + 1 /\ b - a + 1 = DataLen[o] /\ DataLen[o] \in Nat
    BY <1>1, ConstantsAssumption
  <1>3. u \in Seq(Cell) /\ Len(u) = DataLen[o]
    BY <1>1, <1>2, CellsType
  <1>4. ASSUME NEW i \in 1..Len(u) PROVE u[i] = f[i]
    <2>1. i \in 1..(b - a + 1) /\ a + i - 1 = HeaderLen + i
      BY <1>1, <1>2, <1>3, ConstantsAssumption
    <2>2. u[i] = CellAt(o, a + i - 1)
      BY <1>1, <2>1 DEF Cells
    <2>3. f[i] = CellAt(o, HeaderLen + i)
      BY <1>3 DEF Holds
    <2>. QED
      BY <2>1, <2>2, <2>3
  <1>5. f = u
    BY <1>3, <1>4, SeqEqual
  <1>. QED
    BY <1>1, <1>5 DEF Payload

\* getData on a stream: n cells of the object are in the buffer, and nothing else.
LEMMA StreamRead ==
    ASSUME ~Datagram, IInv, r.len = 0, Receive, NEW o \in Objects, NEW a \in Nat, NEW k \in Nat,
           Carries(toR, o, a, k)
    PROVE  \E n \in Nat, rr \in Receiver, data \in Seq(Cell) :
             /\ n >= 1 /\ a + n <= k /\ Carries(toR', o, a + n, k)
             /\ rr.len = n /\ rr.pc = "reading" /\ rr.id = r.id /\ rr.header = r.header /\ rr.file = r.file
             /\ data = SubSeq(rr.buf, 1, rr.len) /\ Len(data) = n /\ Holds(data, o, a)
             /\ Iterate(rr)
  <1>0. r \in Receiver /\ toR \in Seq(Packet) /\ toR # <<>> /\ BufferSize \in Nat /\ BufferSize >= 1
    BY ConstantsAssumption DEF IInv, Legal, Receive
  <1>1. PICK r0 : r0 = [r EXCEPT !.pc = "reading"]
    OBVIOUS
  <1>2. /\ r0 \in Receiver /\ r0.len = 0 /\ r0.pc = "reading" /\ r0.id = r.id /\ r0.header = r.header
        /\ r0.file = r.file
    BY <1>0, <1>1 DEF Receiver
  <1>3. Room(r0) = BufferSize
    BY <1>0, <1>2 DEF Room
  <1>4. Len(toR) \in Nat /\ Len(toR) >= 1 /\ Len(toR) = k - a
    BY <1>0, EmptySeq DEF Carries
  <1>5. PICK n \in 1..Lesser(Room(r0), Len(toR)) :
          /\ toR' = SubSeq(toR, n + 1, Len(toR))
          /\ Sequenced(GetData(r0, Arrived(n)), toR[1].seq)
    <2>1. Read(r0)
      BY <1>1 DEF Receive
    <2>2. Room(r0) > 0 /\ ~(Room(r0) <= 0)
      BY <1>0, <1>3
    <2>. QED
      BY <2>1, <2>2 DEF Read
  <1>6. n \in Nat /\ n >= 1 /\ n <= Len(toR) /\ n <= BufferSize
    BY <1>0, <1>3, <1>4, <1>5 DEF Lesser
  <1>7. Carries(toR', o, a + n, k)
    BY <1>0, <1>5, <1>6, CarriesRest
  <1>8. PICK arr, rr : arr = Arrived(n) /\ rr = GetData(r0, arr)
    OBVIOUS
  <1>9. arr \in Seq(Cell) /\ Len(arr) = n /\ \A i \in 1..n : arr[i] = CellAt(o, a + i)
    <2>1. arr \in Seq(Cell)
      BY <1>0, <1>6, <1>8, ArrivedType
    <2>2. arr = [i \in 1..n |-> toR[i].cells[1]]
      BY <1>8 DEF Arrived
    <2>3. \A i \in 1..n : toR[i].cells = <<CellAt(o, a + i)>>
      BY <1>4, <1>6 DEF Carries
    <2>4. Len(arr) = n
      BY <1>6, <2>1, <2>2
    <2>5. \A i \in 1..n : arr[i] = toR[i].cells[1]
      BY <2>2
    <2>6. \A i \in 1..n : arr[i] = CellAt(o, a + i)
      BY <2>3, <2>5
    <2>. QED
      BY <2>1, <2>4, <2>6
  <1>10. rr \in Receiver
    BY <1>0, <1>2, <1>3, <1>8, <1>9, GetDataType
  <1>11. /\ rr.len = n /\ rr.pc = "reading" /\ rr.id = r.id /\ rr.header = r.header /\ rr.file = r.file
         /\ rr.buf = Filled(r0.buf, Room(r0), arr)
    BY <1>0, <1>2, <1>3, <1>6, <1>8, <1>9 DEF GetData, Receiver, Lesser
  <1>12. \A i \in 1..n : rr.buf[i] = CellAt(o, a + i)
    BY <1>0, <1>3, <1>6, <1>9, <1>11 DEF Filled
  <1>13. PICK data : data = SubSeq(rr.buf, 1, rr.len)
    OBVIOUS
  <1>14. data \in Seq(Cell) /\ Len(data) = n
    BY <1>10, <1>11, <1>13, FilledPart
  <1>15. Holds(data, o, a)
    <2>1. rr.buf \in Seq(Cell) /\ Len(rr.buf) = BufferSize
      BY <1>0, <1>10 DEF Receiver
    <2>2. \A i \in 1..n : data[i] = rr.buf[i]
      BY <1>6, <1>11, <1>13, <2>1
    <2>. QED
      BY <1>12, <1>14, <2>2 DEF Holds
  <1>16. Iterate(rr)
    <2>1. toR[1].seq = 0
      BY <1>4 DEF Carries
    <2>2. rr.cur \in Nat
      BY <1>10 DEF Receiver
    <2>. QED
      BY <1>5, <1>8, <2>1, <2>2 DEF Sequenced
  <1>17. a + n <= k
    BY <1>4, <1>6
  <1>. QED
    BY <1>6, <1>7, <1>10, <1>11, <1>13, <1>14, <1>15, <1>16, <1>17

\* The whole of a sequence.
LEMMA SubSeqAll ==
    ASSUME NEW S, NEW q \in Seq(S)
    PROVE  SubSeq(q, 1, Len(q)) = q
  <1>1. PICK u : u = SubSeq(q, 1, Len(q))
    OBVIOUS
  <1>2. u \in Seq(S) /\ Len(u) = Len(q) /\ \A i \in 1..Len(u) : u[i] = q[i]
    BY <1>1
  <1>3. u = q
    BY <1>2, SeqEqual
  <1>. QED
    BY <1>1, <1>3

\* putData is called with n cells in the buffer, and m of them are for the header.
Put(rr, data, n, m, res) ==
    /\ rr \in Receiver /\ data \in Seq(Cell) /\ n \in Nat /\ n >= 1
    /\ Len(data) = n /\ rr.len = n /\ m \in 0..Len(data)
    /\ TakesHeader(rr, data, m) /\ res = PutData(rr, data, m)

\* All of it was taken: nxt is rr with it in the header or in the file.
Took(nxt, rr, header, id, file) ==
    nxt = [rr EXCEPT !.header = header, !.id = id, !.file = file, !.len = 0]

\* putData while the payload arrives: everything goes into the file.
LEMMA PayloadPut ==
    ASSUME NEW rr, NEW data, NEW n, NEW m, NEW res, Put(rr, data, n, m, res), NEW o \in Objects, rr.id = o,
           Len(rr.file) + n <= DataLen[o]
    PROVE  /\ res.put = n
           /\ Took(RemoveData(res.rr, res.put), rr, rr.header, o, rr.file \o data)
  <1>0. /\ rr \in Receiver /\ data \in Seq(Cell) /\ n \in Nat /\ n >= 1
        /\ Len(data) = n /\ rr.len = n /\ m \in 0..Len(data)
        /\ TakesHeader(rr, data, m) /\ res = PutData(rr, data, m)
    BY DEF Put
  <1> USE <1>0
  <1>1. m = 0 /\ o # NoObject /\ DataLen[o] \in Nat /\ Len(rr.file) \in Nat
    BY ConstantsAssumption DEF TakesHeader, Receiver
  <1>2. PICK left, taken : left = DataLen[o] - Len(rr.file) /\ taken = Lesser(left, Len(data) - m)
    OBVIOUS
  <1>3. taken = n /\ n # 0
    BY <1>1, <1>2 DEF Lesser
  <1>4. PICK rest : rest = SubSeq(data, m + 1, m + taken)
    OBVIOUS
  <1>5. rest = data
    <2>1. m + 1 = 1 /\ m + taken = Len(data)
      BY <1>1, <1>3
    <2>. QED
      BY <1>4, <2>1, SubSeqAll
  <1>6. res = [put |-> taken, rr |-> [rr EXCEPT !.header = rr.header, !.id = o, !.file = @ \o rest]]
    <2>1. ~(m > 0)
      BY <1>1
    <2>. QED
      BY <1>1, <1>2, <1>3, <1>4, <2>1 DEF PutData
  <1>7. res.put = n /\ res.rr = [rr EXCEPT !.file = rr.file \o data] /\ res.rr.len = n
    <2>1. PICK f : f = rr.file \o data
      OBVIOUS
    <2>2. res.put = n /\ res.rr = [rr EXCEPT !.header = rr.header, !.id = o, !.file = f]
      BY <1>3, <1>5, <1>6, <2>1 DEF Receiver
    <2>3. res.rr = [rr EXCEPT !.file = f]
      BY <2>2 DEF Receiver
    <2>4. res.rr.len = n
      BY <2>3 DEF Receiver
    <2>. QED
      BY <2>1, <2>2, <2>3, <2>4
  <1>8. PICK f : f = rr.file \o data
    OBVIOUS
  <1>9. RemoveData(res.rr, res.put) = [rr EXCEPT !.file = f, !.len = 0]
    BY <1>7, <1>8 DEF RemoveData, Receiver
  <1>10. [rr EXCEPT !.file = f, !.len = 0] = [rr EXCEPT !.header = rr.header, !.id = o, !.file = f, !.len = 0]
    BY DEF Receiver
  <1>. QED
    BY <1>7, <1>8, <1>9, <1>10 DEF Took

\* putData while the header arrives: everything goes into the header, which its last
\* cell, and no other, ends.
LEMMA HeaderPut ==
    ASSUME NEW rr, NEW data, NEW n, NEW m, NEW res, Put(rr, data, n, m, res), NEW o \in Objects,
           rr.id = NoObject, rr.file = <<>>, NEW a \in Nat, a = Len(rr.header),
           a + n <= HeaderLen, Holds(data, o, a), NEW who, who = IF a + n = HeaderLen THEN o ELSE NoObject
    PROVE  \/ res.put < 0
           \/ /\ res.put = n
              /\ Took(RemoveData(res.rr, res.put), rr, rr.header \o data, who, <<>>)
  <1>0. /\ rr \in Receiver /\ data \in Seq(Cell) /\ n \in Nat /\ n >= 1
        /\ Len(data) = n /\ rr.len = n /\ m \in 0..Len(data)
        /\ TakesHeader(rr, data, m) /\ res = PutData(rr, data, m)
    BY DEF Put
  <1> USE <1>0
  <1>1. \A i \in 1..n : data[i] = CellAt(o, a + i)
    BY DEF Holds
  <1>2. \A i \in 1..n : EndsHeader(data[i]) <=> a + i = HeaderLen
    BY <1>1, ConstantsAssumption DEF EndsHeader, CellAt
  <1>3. m = n
    <2>1. m \in Nat /\ m > 0 /\ m <= n /\ (m = n \/ EndsHeader(data[m]))
      BY DEF TakesHeader
    <2>2. EndsHeader(data[m]) => a + m = HeaderLen
      BY <1>2, <2>1
    <2>. QED
      BY <2>1, <2>2, ConstantsAssumption
  <1>4. PICK header, complete, id :
          /\ header = rr.header \o SubSeq(data, 1, m)
          /\ complete = (m > 0 /\ EndsHeader(data[m]))
          /\ id = IF complete THEN data[m][1] ELSE rr.id
    OBVIOUS
  <1>5. complete <=> a + n = HeaderLen
    <2>1. m > 0 /\ m \in 1..n
      BY <1>3
    <2>2. complete <=> EndsHeader(data[m])
      BY <1>4, <2>1, Zenon
    <2>3. EndsHeader(data[m]) <=> a + m = HeaderLen
      BY <1>2, <2>1
    <2>. QED
      BY <1>3, <2>2, <2>3
  <1>6. id = IF a + n = HeaderLen THEN o ELSE NoObject
    <2>1. data[m][1] = o
      BY <1>1, <1>3 DEF CellAt
    <2>. QED
      BY <1>4, <1>5, <2>1
  <1>7. header = rr.header \o data
    BY <1>3, <1>4, SubSeqAll
  <1>8. PICK left, taken : /\ left = IF id = NoObject THEN 0 ELSE DataLen[id] - Len(rr.file)
                           /\ taken = Lesser(left, Len(data) - m)
    OBVIOUS
  <1>9. taken = 0
    <2>1. left \in Nat
      BY <1>6, <1>8, ConstantsAssumption
    <2>2. Len(data) - m = 0
      BY <1>3
    <2>3. taken = Lesser(left, 0)
      BY <1>8, <2>2
    <2>. QED
      BY <2>1, <2>3 DEF Lesser
  <1>10. PICK rest : rest = rr.file \o SubSeq(data, m + 1, m + taken)
    OBVIOUS
  <1>11. rest = <<>>
    <2>1. SubSeq(data, m + 1, m + taken) = <<>>
      BY <1>3, <1>9
    <2>. QED
      BY <1>10, <2>1
  <1>12. PICK bad : bad = (/\ m > 0
                           /\ \/ Len(rr.header) + Len(data) >= MaxMetadata
                              \/ header[1][2] # 1
                              \/ complete /\ header # Header(id))
    OBVIOUS
  <1>13. res = IF bad
               THEN [put |-> -1, rr |-> rr]
               ELSE [put |-> IF taken = 0 THEN m ELSE taken,
                     rr |-> [rr EXCEPT !.header = header, !.id = id, !.file = rest]]
    <2>1. m # 0 /\ m > 0
      BY <1>3
    <2>. QED
      BY <1>4, <1>8, <1>10, <1>12, <2>1 DEF PutData
  <1>14. CASE bad
    BY <1>13, <1>14
  <1>15. CASE ~bad
    <2>1. res = [put |-> n, rr |-> [rr EXCEPT !.header = header, !.id = id, !.file = rest]]
      BY <1>3, <1>9, <1>13, <1>15
    <2>2. rest = rr.file
      BY <1>11
    <2>3. res.put = n /\ res.rr = [rr EXCEPT !.header = header, !.id = id]
      <3>1. [rr EXCEPT !.header = header, !.id = id, !.file = rr.file] = [rr EXCEPT !.header = header, !.id = id]
        BY DEF Receiver
      <3>2. res.put = n /\ res.rr = [rr EXCEPT !.header = header, !.id = id, !.file = rr.file]
        BY <2>1, <2>2
      <3>. QED
        BY <3>1, <3>2
    <2>4. res.rr.len = n
      BY <2>3 DEF Receiver
    <2>5. RemoveData(res.rr, res.put) = [rr EXCEPT !.header = header, !.id = id, !.len = 0]
      <3>1. PICK r2 : r2 = res.rr
        OBVIOUS
      <3>2. RemoveData(r2, res.put) = [r2 EXCEPT !.len = 0]
        BY <2>3, <2>4, <3>1 DEF RemoveData
      <3>3. [r2 EXCEPT !.len = 0] = [rr EXCEPT !.header = header, !.id = id, !.len = 0]
        BY <2>3, <3>1 DEF Receiver
      <3>. QED
        BY <3>1, <3>2, <3>3
    <2>6. [rr EXCEPT !.header = header, !.id = id, !.len = 0] =
            [rr EXCEPT !.header = header, !.id = id, !.file = <<>>, !.len = 0]
      BY DEF Receiver
    <2>7. Took(RemoveData(res.rr, res.put), rr, header, id, <<>>)
      BY <2>5, <2>6 DEF Took
    <2>. QED
      BY <1>6, <1>7, <2>3, <2>7
  <1>. QED
    BY <1>14, <1>15

\* One iteration on the stream: putData takes some of the data, then either refuses it
\* or the loop goes on without it.
LEMMA IterateOn ==
    ASSUME NEW rr, NEW data, data = SubSeq(rr.buf, 1, rr.len), Iterate(rr)
    PROVE  \E m, res :
             /\ m \in 0..Len(data)
             /\ TakesHeader(rr, data, m) /\ res = PutData(rr, data, m)
             /\ \/ res.put < 0 /\ ReceiveFails(rr, events) /\ UNCHANGED <<bf, accepted, again, toS, faults>>
                \/ res.put >= 0 /\ AfterPut(rr, RemoveData(res.rr, res.put))
  BY DEF Iterate

\* Nothing is left of an object that has been read to its end.
LEMMA CarriesNothing ==
    ASSUME NEW q \in Seq(Packet), NEW o, NEW a \in Nat, Carries(q, o, a, a)
    PROVE  q = <<>>
  <1>1. Len(q) = 0
    BY DEF Carries
  <1>. QED
    BY <1>1, EmptySeq

\* A completed receive call leaves the receiver between two objects, and the object is
\* what was sent.
LEMMA FinishClean ==
    ASSUME NEW o \in Objects, NEW nxt \in Receiver, nxt.id = o, Holds(nxt.file, o, HeaderLen),
           Len(nxt.file) = DataLen[o], NEW evs, NEW q, Finish(nxt, evs, q), toR' = <<>>
    PROVE  /\ Tidy' /\ Ready' /\ UNCHANGED spoilt
           /\ toS' \in {q, Append(q, Control(o, "ack"))}
  <1>1. nxt.file = Payload(o)
    BY HoldsAll DEF Receiver
  <1>2. UNCHANGED spoilt /\ toS' \in {q, Append(q, Control(o, "ack"))} /\ r' = Fresh(nxt.buf)
    BY <1>1 DEF Finish
  <1>. QED
    BY <1>2 DEF Fresh, Tidy, Ready

\* A read while the payload arrives.
LEMMA PayloadRead ==
    ASSUME ~Datagram, IInv, Tidy, Receive, toR' \in Seq(Packet),
           NEW o \in Objects, NEW k \in Nat, InPayload(o, k)
    PROVE  /\ Tidy' /\ UNCHANGED spoilt
           /\ \/ InPayload(o, k)' /\ UNCHANGED toS
              \/ /\ k = HeaderLen + DataLen[o] /\ Ready'
                 /\ toS' \in {toS, Append(toS, Control(o, "ack"))}
  <1>0. /\ r \in Receiver /\ r.file \in Seq(Cell) /\ Len(r.file) \in Nat /\ HeaderLen \in Nat
        /\ DataLen[o] \in Nat /\ o # NoObject
    <2>1. r \in Receiver
      BY DEF IInv, Legal
    <2>2. r.file \in Seq(Cell)
      BY <2>1 DEF Receiver
    <2>3. HeaderLen \in Nat /\ DataLen[o] \in Nat /\ o # NoObject
      BY ConstantsAssumption
    <2>. QED
      BY <2>1, <2>2, <2>3
  <1>1. PICK a : a = HeaderLen + Len(r.file)
    OBVIOUS
  <1>2. /\ a \in Nat /\ Carries(toR, o, a, k) /\ Holds(r.file, o, HeaderLen)
        /\ r.id = o /\ k <= HeaderLen + DataLen[o] /\ r.len = 0
    BY <1>0, <1>1 DEF InPayload, Tidy
  <1>3. PICK n \in Nat, rr \in Receiver, data \in Seq(Cell) :
             /\ n >= 1 /\ a + n <= k /\ Carries(toR', o, a + n, k)
             /\ rr.len = n /\ rr.pc = "reading" /\ rr.id = r.id /\ rr.header = r.header /\ rr.file = r.file
             /\ data = SubSeq(rr.buf, 1, rr.len) /\ Len(data) = n /\ Holds(data, o, a)
             /\ Iterate(rr)
    BY <1>2, StreamRead
  <1>4. PICK m, res :
             /\ m \in 0..Len(data)
             /\ TakesHeader(rr, data, m) /\ res = PutData(rr, data, m)
             /\ \/ res.put < 0 /\ ReceiveFails(rr, events) /\ UNCHANGED <<bf, accepted, again, toS, faults>>
                \/ res.put >= 0 /\ AfterPut(rr, RemoveData(res.rr, res.put))
    <2>1. data = SubSeq(rr.buf, 1, rr.len) /\ Iterate(rr) BY <1>3
    <2>2. QED BY <2>1, IterateOn
  <1>5. PICK f, nxt : /\ f = r.file \o data
                     /\ nxt = [rr EXCEPT !.header = rr.header, !.id = o, !.file = f, !.len = 0]
    OBVIOUS
  <1>6. f \in Seq(Cell) /\ Len(f) = Len(r.file) + n /\ Holds(f, o, HeaderLen)
    <2>1. PICK g : g = r.file
      OBVIOUS
    <2>2. g \in Seq(Cell) /\ HeaderLen \in Nat /\ Holds(g, o, HeaderLen) /\ Holds(data, o, HeaderLen + Len(g))
      BY <1>0, <1>1, <1>2, <1>3, <2>1
    <2>3. g \o data \in Seq(Cell) /\ Len(g \o data) = Len(g) + Len(data) /\ Holds(g \o data, o, HeaderLen)
      BY <1>3, <2>2, HoldsMore
    <2>4. f = g \o data /\ Len(data) = n
      BY <1>3, <1>5, <2>1
    <2>5. QED
      BY <2>1, <2>3, <2>4
  <1>7. Len(f) \in Nat /\ Len(f) <= DataLen[o] /\ a + n = HeaderLen + Len(f)
    <2>1. PICK x, y, d : x = Len(r.file) /\ y = Len(f) /\ d = DataLen[o]
      OBVIOUS
    <2>2. /\ x \in Nat /\ d \in Nat /\ HeaderLen \in Nat /\ n \in Nat /\ y = x + n
          /\ a = HeaderLen + x /\ a + n <= k /\ k <= HeaderLen + d
      BY <1>0, <1>1, <1>2, <1>3, <1>6, <2>1
    <2>3. y \in Nat /\ y <= d /\ a + n = HeaderLen + y
      BY <2>2
    <2>. QED
      BY <2>1, <2>3
  <1>8. res.put = n /\ RemoveData(res.rr, res.put) = nxt
    <2>3. Len(r.file) + n <= DataLen[o]
      BY <1>6, <1>7
    <2>1. rr.id = o /\ Len(rr.file) + n <= DataLen[o]
      BY <1>2, <1>3, <2>3
    <2>2. res.put = n /\ Took(RemoveData(res.rr, res.put), rr, rr.header, o, rr.file \o data)
      <3>1. Put(rr, data, n, m, res)
        BY <1>3, <1>4 DEF Put
      <3>. QED
        BY <2>1, <3>1, PayloadPut
    <2>. QED
      BY <1>3, <1>5, <2>2 DEF Took
  <1>9. AfterPut(rr, nxt)
    BY <1>3, <1>4, <1>8
  <1>10. nxt \in Receiver /\ nxt.id = o /\ nxt.file = f /\ nxt.len = 0
    <2>1. 0 \in 0..BufferSize
      BY ConstantsAssumption
    <2>. QED
      BY <1>2, <1>3, <1>5, <1>6, <2>1 DEF Receiver
  <1>11. IF Complete(nxt)
         THEN Finish(nxt, events, toS)
         ELSE r' = nxt /\ UNCHANGED <<events, got, spoilt, toS, faults>>
    BY <1>0, <1>2, <1>3, <1>9 DEF AfterPut
  <1>12. CASE Len(f) = DataLen[o]
    <2>1. Finish(nxt, events, toS)
      BY <1>0, <1>10, <1>11, <1>12 DEF Complete
    <2>2. k = HeaderLen + DataLen[o] /\ a + n = k
      <3>1. a + n = HeaderLen + DataLen[o] /\ a + n <= k /\ k <= HeaderLen + DataLen[o]
        BY <1>2, <1>3, <1>7, <1>12
      <3>2. HeaderLen + DataLen[o] \in Nat /\ a + n \in Nat
        BY <1>0, <1>2, <1>3
      <3>. QED
        BY <3>1, <3>2
    <2>3. toR' = <<>>
      BY <1>3, <2>2, CarriesNothing
    <2>. QED
      BY <1>6, <1>10, <1>12, <2>1, <2>2, <2>3, FinishClean
  <1>13. CASE Len(f) # DataLen[o]
    <2>1. r' = nxt /\ UNCHANGED <<spoilt, toS>>
      BY <1>10, <1>11, <1>13 DEF Complete
    <2>2. Len(f) < DataLen[o]
      BY <1>0, <1>7, <1>13
    <2>3. Carries(toR', o, HeaderLen + Len(f), k)
      BY <1>3, <1>7
    <2>4. InPayload(o, k)'
      BY <1>2, <1>6, <1>10, <2>1, <2>2, <2>3 DEF InPayload
    <2>5. Tidy'
      BY <1>0, <1>10, <2>1 DEF Tidy
    <2>. QED
      BY <2>1, <2>4, <2>5
  <1>. QED
    BY <1>12, <1>13

\* What a read can lead to while the header of o arrives.
Answered(o, k) ==
    \/ r'.pc = "closed" /\ UNCHANGED toS
    \/ InHeader(o, k)' /\ UNCHANGED toS
    \/ k = HeaderLen /\ Ready' /\ toS' = Append(toS, Control(o, "reject"))
    \/ k = HeaderLen /\ InPayload(o, k)' /\ toS' = Append(toS, Control(o, "accept"))
    \/ /\ k = HeaderLen /\ Ready' /\ DataLen[o] = 0
       /\ toS' \in {Append(toS, Control(o, "accept")),
                    Append(Append(toS, Control(o, "accept")), Control(o, "ack"))}

\* A failed call closes a stream's receiver.
LEMMA FailsClosed ==
    ASSUME ~Datagram, NEW rr, NEW evs, ReceiveFails(rr, evs)
    PROVE  Tidy' /\ r'.pc = "closed" /\ r'.id = NoObject /\ UNCHANGED spoilt
  BY DEF ReceiveFails, Ended, Fresh, Tidy

\* The answer to a header that has just been completed.
LEMMA AnswerOn ==
    ASSUME ~Datagram, NEW o \in Objects, NEW nxt \in Receiver, nxt.id = o, nxt.file = <<>>, nxt.len = 0,
           Answer(nxt), toR' = <<>>
    PROVE  Tidy' /\ UNCHANGED spoilt /\ Answered(o, HeaderLen)
  <1>0. HeaderLen \in Nat /\ DataLen[o] \in Nat /\ o # NoObject /\ Len(<<>>) = 0
    BY ConstantsAssumption
  <1>1. CASE nxt.id \in bf
    <2>1. /\ UNCHANGED spoilt
          /\ \/ toS' = Append(toS, Control(o, "reject")) /\ r' = Fresh(nxt.buf)
             \/ r' = Ended(nxt.buf) /\ UNCHANGED toS
      BY <1>1 DEF Answer
    <2>2. CASE toS' = Append(toS, Control(o, "reject")) /\ r' = Fresh(nxt.buf)
      <3>1. Tidy' /\ Ready'
        BY <2>2 DEF Fresh, Tidy, Ready
      <3>. QED
        BY <2>1, <2>2, <3>1 DEF Answered
    <2>3. CASE r' = Ended(nxt.buf) /\ UNCHANGED toS
      <3>1. Tidy' /\ r'.pc = "closed"
        BY <2>3 DEF Ended, Fresh, Tidy
      <3>. QED
        BY <2>1, <2>3, <3>1 DEF Answered
    <2>. QED
      BY <2>1, <2>2, <2>3
  <1>2. CASE nxt.id \notin bf
    <2>1. PICK evs, q : evs = Raise(events, "INCOMING", nxt.id) /\ q = Append(toS, Control(nxt.id, "accept"))
      OBVIOUS
    <2>2. \/ IF Complete(nxt) THEN Finish(nxt, evs, q)
             ELSE toS' = q /\ r' = nxt /\ UNCHANGED spoilt
          \/ ReceiveFails(nxt, evs) /\ UNCHANGED toS
      BY <1>2, <2>1 DEF Answer
    <2>3. q = Append(toS, Control(o, "accept"))
      BY <2>1
    <2>4. CASE ReceiveFails(nxt, evs) /\ UNCHANGED toS
      BY <2>4, FailsClosed DEF Answered
    <2>5. CASE Complete(nxt) /\ Finish(nxt, evs, q)
      <3>1. DataLen[o] = 0 /\ Len(nxt.file) = DataLen[o]
        BY <1>0, <2>5 DEF Complete
      <3>2. Holds(nxt.file, o, HeaderLen)
        BY <1>0 DEF Holds
      <3>3. Finish(nxt, evs, q)
        BY <2>5
      <3>4. Tidy' /\ Ready' /\ UNCHANGED spoilt /\ toS' \in {q, Append(q, Control(o, "ack"))}
        BY <3>1, <3>2, <3>3, FinishClean
      <3>. QED
        BY <2>3, <3>1, <3>4 DEF Answered
    <2>6. CASE ~Complete(nxt) /\ toS' = q /\ r' = nxt /\ UNCHANGED spoilt
      <3>1. DataLen[o] # 0
        BY <1>0, <2>6 DEF Complete
      <3>2. 0 < DataLen[o] /\ HeaderLen <= HeaderLen + DataLen[o] /\ HeaderLen + 0 = HeaderLen
        BY <1>0, <3>1
      <3>3. Holds(nxt.file, o, HeaderLen)
        BY <1>0 DEF Holds
      <3>4. Carries(toR', o, HeaderLen, HeaderLen)
        BY <1>0 DEF Carries
      <3>5. InPayload(o, HeaderLen)'
        BY <1>0, <2>6, <3>2, <3>3, <3>4 DEF InPayload
      <3>6. Tidy'
        BY <1>0, <2>6 DEF Tidy
      <3>. QED
        BY <2>3, <2>6, <3>5, <3>6 DEF Answered
    <2>. QED
      BY <2>2, <2>4, <2>5, <2>6
  <1>. QED
    BY <1>1, <1>2

\* A read while the header arrives.
LEMMA HeaderRead ==
    ASSUME ~Datagram, IInv, Tidy, Receive, toR' \in Seq(Packet),
           NEW o \in Objects, NEW k \in Nat, InHeader(o, k)
    PROVE  Tidy' /\ UNCHANGED spoilt /\ Answered(o, k)
  <1>0. r \in Receiver /\ r.header \in Seq(Cell) /\ Len(r.header) \in Nat /\ HeaderLen \in Nat /\ o # NoObject
    BY ConstantsAssumption DEF IInv, Legal, Receiver
  <1>1. PICK a : a = Len(r.header)
    OBVIOUS
  <1>2. /\ a \in Nat /\ Carries(toR, o, a, k) /\ Holds(r.header, o, 0) /\ a < HeaderLen
        /\ r.id = NoObject /\ k <= HeaderLen /\ r.len = 0 /\ r.file = <<>>
    BY <1>0, <1>1 DEF InHeader, Tidy
  <1>3. PICK n \in Nat, rr \in Receiver, data \in Seq(Cell) :
             /\ n >= 1 /\ a + n <= k /\ Carries(toR', o, a + n, k)
             /\ rr.len = n /\ rr.pc = "reading" /\ rr.id = r.id /\ rr.header = r.header /\ rr.file = r.file
             /\ data = SubSeq(rr.buf, 1, rr.len) /\ Len(data) = n /\ Holds(data, o, a)
             /\ Iterate(rr)
    BY <1>2, StreamRead
  <1>4. PICK m, res :
             /\ m \in 0..Len(data)
             /\ TakesHeader(rr, data, m) /\ res = PutData(rr, data, m)
             /\ \/ res.put < 0 /\ ReceiveFails(rr, events) /\ UNCHANGED <<bf, accepted, again, toS, faults>>
                \/ res.put >= 0 /\ AfterPut(rr, RemoveData(res.rr, res.put))
    <2>1. data = SubSeq(rr.buf, 1, rr.len) /\ Iterate(rr) BY <1>3
    <2>2. QED BY <2>1, IterateOn
  <1>5. PICK h, id, nxt : /\ h = r.header \o data /\ id = IF a + n = HeaderLen THEN o ELSE NoObject
                          /\ nxt = [rr EXCEPT !.header = h, !.id = id, !.file = <<>>, !.len = 0]
    OBVIOUS
  <1>6. h \in Seq(Cell) /\ Len(h) = a + n /\ Holds(h, o, 0)
    <2>1. PICK g : g = r.header
      OBVIOUS
    <2>2. g \in Seq(Cell) /\ 0 \in Nat /\ Holds(g, o, 0) /\ Holds(data, o, 0 + Len(g))
      BY <1>0, <1>1, <1>2, <1>3, <2>1
    <2>3. g \o data \in Seq(Cell) /\ Len(g \o data) = Len(g) + Len(data) /\ Holds(g \o data, o, 0)
      BY <1>3, <2>2, HoldsMore
    <2>4. h = g \o data /\ Len(data) = n /\ Len(g) = a
      BY <1>1, <1>3, <1>5, <2>1
    <2>. QED
      BY <2>3, <2>4
  <1>7. a + n \in Nat /\ a + n <= HeaderLen
    BY <1>0, <1>2, <1>3
  <1>8. \/ ReceiveFails(rr, events) /\ UNCHANGED toS
        \/ AfterPut(rr, nxt)
    <2>1. Put(rr, data, n, m, res)
      BY <1>3, <1>4 DEF Put
    <2>2. rr.id = NoObject /\ rr.file = <<>> /\ a = Len(rr.header) /\ a + n <= HeaderLen /\ Holds(data, o, a)
      BY <1>1, <1>2, <1>3, <1>7
    <2>3. \/ res.put < 0
          \/ /\ res.put = n
             /\ Took(RemoveData(res.rr, res.put), rr, rr.header \o data, id, <<>>)
      BY <1>2, <1>5, <2>1, <2>2, HeaderPut
    <2>4. CASE res.put < 0
      <3>1. res.put \in Int => ~(res.put >= 0)
        BY <2>4
      <3>2. res.put \in Int
        BY <1>3, <1>4, PutDataType
      <3>. QED
        BY <1>4, <3>1, <3>2
    <2>5. CASE ~(res.put < 0)
      <3>1. AfterPut(rr, RemoveData(res.rr, res.put))
        BY <1>4, <2>5
      <3>2. Took(RemoveData(res.rr, res.put), rr, h, id, <<>>)
        BY <1>3, <1>5, <2>3, <2>5
      <3>. QED
        BY <1>5, <3>1, <3>2 DEF Took
    <2>. QED
      BY <2>4, <2>5
  <1>9. CASE ReceiveFails(rr, events) /\ UNCHANGED toS
    BY <1>9, FailsClosed DEF Answered
  <1>10. CASE AfterPut(rr, nxt)
    <2>1. /\ nxt \in Receiver /\ nxt.id = id /\ nxt.file = <<>> /\ nxt.len = 0 /\ nxt.header = h
      <3>1. 0 \in 0..BufferSize /\ <<>> \in Seq(Cell)
        BY ConstantsAssumption
      <3>. QED
        BY <1>3, <1>5, <1>6, <3>1 DEF Receiver
    <2>2. CASE a + n = HeaderLen
      <3>1. id = o /\ k = HeaderLen /\ a + n = k
        BY <1>0, <1>2, <1>3, <1>5, <2>2
      <3>2. toR' = <<>>
        BY <1>3, <3>1, CarriesNothing
      <3>3. Answer(nxt)
        BY <1>0, <1>2, <1>3, <1>10, <2>1, <3>1 DEF AfterPut
      <3>4. Tidy' /\ UNCHANGED spoilt /\ Answered(o, HeaderLen)
        BY <2>1, <3>1, <3>2, <3>3, AnswerOn
      <3>. QED
        BY <3>1, <3>4
    <2>3. CASE a + n # HeaderLen
      <3>1. id = NoObject /\ a + n < HeaderLen
        BY <1>0, <1>5, <1>7, <2>3
      <3>2. r' = nxt /\ UNCHANGED <<spoilt, toS>>
        BY <1>10, <2>1, <3>1 DEF AfterPut, Complete
      <3>3. InHeader(o, k)'
        BY <1>2, <1>3, <1>6, <2>1, <3>1, <3>2 DEF InHeader
      <3>4. Tidy'
        BY <2>1, <3>2 DEF Tidy
      <3>. QED
        BY <3>2, <3>3, <3>4 DEF Answered
    <2>. QED
      BY <2>2, <2>3
  <1>. QED
    BY <1>8, <1>9, <1>10

\* Where an offered object can be when the sender has sent k cells of it, and what it
\* has been answered.
Offered(o, k) ==
    \/ InHeader(o, k) /\ toS = <<>>
    \/ k = HeaderLen /\ InPayload(o, k) /\ toS = <<Control(o, "accept")>>
    \/ k = HeaderLen /\ Ready /\ toS = <<Control(o, "reject")>>
    \/ /\ k = HeaderLen /\ Ready /\ DataLen[o] = 0
       /\ toS \in {<<Control(o, "accept")>>, <<Control(o, "accept"), Control(o, "ack")>>}

\* The same for an accepted one.
Delivering(o, k) ==
    \/ InPayload(o, k) /\ toS = <<>>
    \/ k = HeaderLen + DataLen[o] /\ Ready /\ toS \in {<<>>, <<Control(o, "ack")>>}

\* The two ends of a stream agree on what is under way between them.
OnTrack ==
    /\ s.pc = "idle" => Ready
    /\ s.pc \in {"header", "awaitReply"} => Offered(s.obj, s.sent)
    /\ s.pc \in {"payload", "awaitAck"} => Delivering(s.obj, s.sent)
    /\ s.pc = "closed" => Ready \/ \E o \in Objects, k \in Nat : InHeader(o, k) \/ InPayload(o, k)

\* The messages in q are about o, and only an ACCEPT is followed by another one.
About(q, o) ==
    \A i \in 1..Len(q) : q[i].sess = o /\ (q[i].type # "accept" => i = Len(q))

Replies ==
    /\ s.pc = "idle" => toS = <<>>
    /\ s.pc \in Busy => About(toS, s.obj)

\* The inductive invariant of a stream.
StreamInv == Tidy /\ spoilt = {} /\ (Live => OnTrack) /\ Replies

\* A piece of the stream carries the cells that follow those already sent.
LEMMA PacketsCarry ==
    ASSUME ~Datagram, NEW o, o = s.obj, NEW k \in Nat, k = s.sent, NEW n \in Nat, n >= 1
    PROVE  Carries(Packets(n), o, k, k + n)
  <1>1. PICK data : data = Cells(o, k + 1, k + n)
    OBVIOUS
  <1>2. (k + n) - (k + 1) + 1 = n /\ \A i \in 1..n : (k + 1) + i - 1 = k + i
    OBVIOUS
  <1>3. \A i \in 1..n : data[i] = CellAt(o, k + i)
    BY <1>1, <1>2 DEF Cells
  <1>4. PICK p : p = [i \in 1..n |-> [sess |-> NoObject, seq |-> 0, cells |-> <<data[i]>>]]
    OBVIOUS
  <1>5. Packets(n) = p
    BY <1>1, <1>4 DEF Packets
  <1>6. Len(p) = n /\ \A i \in 1..n : p[i].seq = 0 /\ p[i].cells = <<data[i]>>
    BY <1>4
  <1>7. n = (k + n) - k
    OBVIOUS
  <1>8. Carries(p, o, k, k + n)
    BY <1>3, <1>6, <1>7 DEF Carries
  <1>. QED
    BY <1>5, <1>8

\* On the track, every message is about the object under way.
LEMMA OnTrackReplies ==
    ASSUME NEW q, NEW o, q \in {<<>>, <<Control(o, "accept")>>, <<Control(o, "reject")>>, <<Control(o, "ack")>>,
                                 <<Control(o, "accept"), Control(o, "ack")>>}
    PROVE  About(q, o)
  <1>1. /\ Control(o, "accept").sess = o /\ Control(o, "accept").type = "accept"
        /\ Control(o, "reject").sess = o /\ Control(o, "ack").sess = o
    BY DEF Control
  <1>2. CASE q = <<>>
    BY <1>2 DEF About
  <1>3. CASE q = <<Control(o, "accept")>> \/ q = <<Control(o, "reject")>> \/ q = <<Control(o, "ack")>>
    <2>1. Len(q) = 1 /\ q[1] \in {Control(o, "accept"), Control(o, "reject"), Control(o, "ack")}
      BY <1>3
    <2>2. 1..Len(q) = {1}
      BY <2>1
    <2>. QED
      BY <1>1, <2>1, <2>2 DEF About
  <1>4. CASE q = <<Control(o, "accept"), Control(o, "ack")>>
    <2>1. Len(q) = 2 /\ q[1] = Control(o, "accept") /\ q[2] = Control(o, "ack")
      BY <1>4
    <2>2. 1..Len(q) = {1, 2}
      BY <2>1
    <2>. QED
      BY <1>1, <2>1, <2>2 DEF About
  <1>. QED
    BY <1>2, <1>3, <1>4

\* Nothing of the payload can be under way before the sender has read the ACCEPT.
LEMMA NothingYet ==
    ASSUME IInv, NEW o \in Objects, InPayload(o, HeaderLen)
    PROVE  toR = <<>>
  <1>1. /\ toR \in Seq(Packet) /\ Len(toR) \in Nat /\ r.file \in Seq(Cell) /\ Len(r.file) \in Nat
        /\ HeaderLen \in Nat
    BY ConstantsAssumption DEF IInv, Legal, Receiver
  <1>2. PICK x, y : x = Len(toR) /\ y = Len(r.file)
    OBVIOUS
  <1>3. x \in Nat /\ y \in Nat /\ x = HeaderLen - (HeaderLen + y)
    BY <1>1, <1>2 DEF InPayload, Carries
  <1>4. x = 0
    BY <1>1, <1>3
  <1>. QED
    BY <1>1, <1>2, <1>4, EmptySeq

\* The first messages in an empty channel.
LEMMA AppendOne ==
    ASSUME NEW x, NEW y
    PROVE  Append(<<>>, x) = <<x>> /\ Append(Append(<<>>, x), y) = <<x, y>>
  <1>1. PICK u : u = <<x>>
    OBVIOUS
  <1>2. Append(<<>>, x) = u /\ u \in Seq({x, y}) /\ Len(u) = 1 /\ u[1] = x
    BY <1>1
  <1>3. PICK v, w : v = Append(u, y) /\ w = <<x, y>>
    OBVIOUS
  <1>4. v \in Seq({x, y}) /\ Len(v) = 2 /\ v[1] = x /\ v[2] = y
    BY <1>2, <1>3, AppendProperties
  <1>5. w \in Seq({x, y}) /\ Len(w) = 2 /\ w[1] = x /\ w[2] = y
    BY <1>3
  <1>6. 1..2 = {1, 2}
    OBVIOUS
  <1>7. v = w
    BY <1>4, <1>5, <1>6, SeqEqual
  <1>. QED
    BY <1>1, <1>2, <1>3, <1>7

\* The sender's part of the state and where it is.
LEMMA WhileBusy ==
    ASSUME IInv, s.pc \in Busy
    PROVE  s.obj \in Objects /\ s.sent \in Nat
  BY DEF IInv, SenderTyped, Sender

\* A read keeps the two ends in agreement.
LEMMA StreamReceive ==
    ASSUME ~Datagram, IInv, StreamInv, Receive, toR' \in Seq(Packet)
    PROVE  StreamInv'
  <1>1. /\ toR # <<>> /\ Live /\ OnTrack /\ Tidy /\ spoilt = {} /\ Replies
        /\ UNCHANGED <<conn, s>> /\ ~Ready
    BY DEF Receive, Live, StreamInv, sndVars, Ready
  <1>2. /\ s.pc \in Busy \cup {"idle", "closed"}
        /\ Busy = {"header", "awaitReply", "payload", "awaitAck"}
    BY DEF IInv, SenderTyped, Sender, Busy
  <1>3. ASSUME Tidy', UNCHANGED spoilt, r'.pc = "closed", UNCHANGED toS
        PROVE  StreamInv'
    <2>1. ~Live'
      BY <1>3 DEF Live
    <2>2. Replies'
      BY <1>1, <1>3 DEF Replies
    <2>. QED
      BY <1>1, <1>3, <2>1, <2>2 DEF StreamInv
  <1>4. CASE s.pc \in {"header", "awaitReply"}
    <2>1. PICK o, k : o = s.obj /\ k = s.sent
      OBVIOUS
    <2>2. o \in Objects /\ k \in Nat
      BY <1>2, <1>4, <2>1, WhileBusy
    <2>3. Offered(o, k)
      BY <1>1, <1>4, <2>1 DEF OnTrack
    <2>4. InHeader(o, k) /\ toS = <<>>
      BY <1>1, <2>2, <2>3, NothingYet DEF Offered
    <2>5. Tidy' /\ UNCHANGED spoilt /\ Answered(o, k)
      BY <1>1, <2>2, <2>4, HeaderRead
    <2>6. CASE r'.pc = "closed" /\ UNCHANGED toS
      BY <1>3, <2>5, <2>6
    <2>7. CASE Offered(o, k)'
      <3>2. OnTrack'
        BY <1>1, <1>4, <2>1, <2>7 DEF OnTrack
      <3>5. toS' \in {<<>>, <<Control(o, "accept")>>, <<Control(o, "reject")>>, <<Control(o, "ack")>>,
                      <<Control(o, "accept"), Control(o, "ack")>>}
        BY <2>7 DEF Offered
      <3>3. About(toS', o)
        BY <3>5, OnTrackReplies
      <3>4. Replies'
        BY <1>1, <1>4, <2>1, <3>3 DEF Replies
      <3>. QED
        BY <1>1, <2>5, <3>2, <3>4 DEF StreamInv
    <2>8. Answered(o, k) => Offered(o, k)' \/ (r'.pc = "closed" /\ UNCHANGED toS)
      <3>1. PICK acc, rej, ack : acc = Control(o, "accept") /\ rej = Control(o, "reject") /\ ack = Control(o, "ack")
        OBVIOUS
      <3>2. Append(toS, acc) = <<acc>> /\ Append(toS, rej) = <<rej>> /\ Append(Append(toS, acc), ack) = <<acc, ack>>
        BY <2>4, AppendOne
      <3>3. CASE InHeader(o, k)' /\ UNCHANGED toS
        BY <2>4, <3>3 DEF Offered
      <3>4. CASE k = HeaderLen /\ Ready' /\ toS' = Append(toS, rej)
        BY <3>1, <3>2, <3>4 DEF Offered
      <3>5. CASE k = HeaderLen /\ InPayload(o, k)' /\ toS' = Append(toS, acc)
        BY <3>1, <3>2, <3>5 DEF Offered
      <3>6. CASE /\ k = HeaderLen /\ Ready' /\ DataLen[o] = 0
                 /\ toS' \in {Append(toS, acc), Append(Append(toS, acc), ack)}
        BY <3>1, <3>2, <3>6 DEF Offered
      <3>. QED
        BY <3>1, <3>3, <3>4, <3>5, <3>6 DEF Answered
    <2>. QED
      BY <2>5, <2>6, <2>7, <2>8
  <1>5. CASE s.pc \in {"payload", "awaitAck"}
    <2>1. PICK o, k : o = s.obj /\ k = s.sent
      OBVIOUS
    <2>2. o \in Objects /\ k \in Nat
      BY <1>2, <1>5, <2>1, WhileBusy
    <2>3. Delivering(o, k)
      BY <1>1, <1>5, <2>1 DEF OnTrack
    <2>4. InPayload(o, k) /\ toS = <<>>
      BY <1>1, <2>3 DEF Delivering
    <2>5. /\ Tidy' /\ UNCHANGED spoilt
          /\ \/ InPayload(o, k)' /\ UNCHANGED toS
             \/ /\ k = HeaderLen + DataLen[o] /\ Ready'
                /\ toS' \in {toS, Append(toS, Control(o, "ack"))}
      BY <1>1, <2>2, <2>4, PayloadRead
    <2>6. Delivering(o, k)'
      <3>1. PICK ack : ack = Control(o, "ack")
        OBVIOUS
      <3>2. Append(toS, ack) = <<ack>>
        BY <2>4
      <3>. QED
        BY <2>4, <2>5, <3>1, <3>2 DEF Delivering
    <2>7. OnTrack'
      BY <1>1, <1>5, <2>1, <2>6 DEF OnTrack
    <2>10. toS' \in {<<>>, <<Control(o, "accept")>>, <<Control(o, "reject")>>, <<Control(o, "ack")>>,
                     <<Control(o, "accept"), Control(o, "ack")>>}
      BY <2>6 DEF Delivering
    <2>8. About(toS', o)
      BY <2>10, OnTrackReplies
    <2>9. Replies'
      BY <1>1, <1>5, <2>1, <2>8 DEF Replies
    <2>. QED
      BY <1>1, <2>5, <2>7, <2>9 DEF StreamInv
  <1>6. CASE s.pc = "closed"
    <2>1. PICK o \in Objects, k \in Nat : InHeader(o, k) \/ InPayload(o, k)
      BY <1>1, <1>6 DEF OnTrack
    <2>2. Replies'
      BY <1>1, <1>2, <1>6 DEF Replies
    <2>3. CASE InHeader(o, k)
      <3>1. Tidy' /\ UNCHANGED spoilt /\ Answered(o, k)
        BY <1>1, <2>3, HeaderRead
      <3>2. Live' => Ready' \/ InHeader(o, k)' \/ InPayload(o, k)'
        BY <3>1 DEF Answered, Live
      <3>3. Live' => OnTrack'
        BY <1>1, <1>6, <3>2 DEF OnTrack
      <3>. QED
        BY <1>1, <2>2, <3>1, <3>3 DEF StreamInv
    <2>4. CASE InPayload(o, k)
      <3>1. Tidy' /\ UNCHANGED spoilt /\ (Ready' \/ InPayload(o, k)')
        BY <1>1, <2>4, PayloadRead
      <3>3. OnTrack'
        BY <1>1, <1>6, <3>1 DEF OnTrack
      <3>. QED
        BY <1>1, <2>2, <3>1, <3>3 DEF StreamInv
    <2>. QED
      BY <2>1, <2>3, <2>4
  <1>7. CASE s.pc = "idle"
    BY <1>1, <1>7 DEF OnTrack
  <1>. QED
    BY <1>2, <1>4, <1>5, <1>6, <1>7

\* The sender ends: whatever is under way stays readable.
LEMMA SenderCloses ==
    ASSUME IInv, StreamInv, s'.pc = "closed", UNCHANGED <<r, conn, spoilt, toR>>
    PROVE  StreamInv'
  <1>1. Busy = {"header", "awaitReply", "payload", "awaitAck"} /\ s.pc \in Busy \cup {"idle", "closed"}
    BY DEF Busy, IInv, SenderTyped, Sender
  <1>2. ASSUME Live
        PROVE  Ready \/ \E o \in Objects, k \in Nat : InHeader(o, k) \/ InPayload(o, k)
    <2>1. OnTrack
      BY <1>2 DEF StreamInv
    <2>2. CASE s.pc \in {"idle", "closed"}
      BY <2>1, <2>2 DEF OnTrack
    <2>3. CASE s.pc \in Busy
      <3>1. PICK o \in Objects, k \in Nat : o = s.obj /\ k = s.sent
        BY <2>3, WhileBusy
      <3>2. Offered(o, k) \/ Delivering(o, k)
        BY <1>1, <2>1, <2>3, <3>1 DEF OnTrack
      <3>. QED
        BY <3>2 DEF Offered, Delivering
    <2>. QED
      BY <1>1, <2>2, <2>3
  <1>3. /\ Live' <=> Live
        /\ Ready' <=> Ready
        /\ Tidy'
        /\ \A o, k : (InHeader(o, k) => InHeader(o, k)') /\ (InPayload(o, k) => InPayload(o, k)')
    BY DEF Live, Ready, Tidy, InHeader, InPayload, StreamInv
  <1>4. Live' => OnTrack'
    BY <1>2, <1>3 DEF OnTrack
  <1>5. Replies'
    BY <1>1 DEF Replies
  <1>. QED
    BY <1>3, <1>4, <1>5 DEF StreamInv

\* A stream's sender does not try again.
LEMMA NoRetry ==
    ASSUME ~Datagram, IInv, SendError \/ SendTimeout
    PROVE  s'.pc = "closed"
  <1>1. MaxRetries = 0
    BY StreamAssumption
  <1>2. tries.err \in 0..0 /\ tries.tmo \in 0..0
    BY <1>1 DEF IInv, SenderTyped, Tries
  <1>3. tries.err >= MaxRetries /\ tries.tmo >= MaxRetries
    BY <1>1, <1>2
  <1>4. GiveUp
    BY <1>3 DEF SendError, SendTimeout
  <1>. QED
    BY <1>4 DEF GiveUp, IInv, SenderTyped, Sender

\* An object is offered between two objects.
LEMMA StartOn ==
    ASSUME ~Datagram, IInv, StreamInv, NEW o \in Objects, StartSend(o)
    PROVE  StreamInv'
  <1>1. /\ s'.pc = "header" /\ s'.obj = o /\ s'.sent = 0 /\ toS = <<>> /\ s.pc = "idle"
        /\ UNCHANGED <<r, toR, toS, conn, spoilt>> /\ Tidy /\ spoilt = {}
    BY DEF StartSend, StreamInv, Replies, rcvVars
  <1>2. ASSUME Live PROVE OnTrack'
    <2>1. Ready
      BY <1>1, <1>2 DEF StreamInv, OnTrack
    <2>2. Len(<<>>) = 0 /\ 0 < HeaderLen /\ 0 <= HeaderLen
      BY ConstantsAssumption
    <2>3. Holds(<<>>, o, 0) /\ Carries(<<>>, o, 0, 0)
      BY DEF Holds, Carries
    <2>4. InHeader(o, 0)'
      BY <1>1, <2>1, <2>2, <2>3 DEF InHeader, Ready
    <2>5. Offered(o, 0)'
      BY <1>1, <2>4 DEF Offered
    <2>. QED
      BY <1>1, <2>5 DEF OnTrack
  <1>3. Replies'
    BY <1>1 DEF Replies, About
  <1>4. Tidy' /\ (Live' <=> Live)
    BY <1>1 DEF Tidy, Live
  <1>. QED
    BY <1>1, <1>2, <1>3, <1>4 DEF StreamInv

\* A piece of the object is sent.
LEMMA ChunkOn ==
    ASSUME ~Datagram, IInv, StreamInv, SendChunk
    PROVE  StreamInv'
  <1>1. PICK o \in Objects, k \in Nat : o = s.obj /\ k = s.sent
    BY WhileBusy DEF SendChunk, Busy
  <1>2. PICK n \in 1..Chunk : toR' = toR \o Packets(n) /\ s' = [s EXCEPT !.sent = @ + n, !.seq = @ + 1]
    BY DEF SendChunk
  <1>3. /\ s.pc \in {"header", "payload"} /\ k < PartEnd /\ UNCHANGED <<toS, r, conn, spoilt>>
        /\ Tidy /\ spoilt = {} /\ Replies
    BY <1>1 DEF SendChunk, rcvVars, StreamInv
  <1>4. PartEnd \in Nat /\ PartEnd = IF s.pc = "header" THEN HeaderLen ELSE HeaderLen + DataLen[o]
    BY <1>1, ConstantsAssumption DEF PartEnd
  <1>5. n \in Nat /\ n >= 1 /\ k + n <= PartEnd
    <2>1. Chunk = Lesser(BufferSize, PartEnd - k)
      BY <1>1 DEF Chunk
    <2>2. Chunk \in Nat /\ Chunk <= PartEnd - k
      BY <1>3, <1>4, <2>1, ConstantsAssumption DEF Lesser
    <2>. QED
      BY <1>4, <2>2
  <1>6. /\ s'.pc = s.pc /\ s'.obj = o /\ s'.sent = k + n
    BY <1>1, <1>2 DEF IInv, SenderTyped, Sender
  <1>7. Carries(Packets(n), o, k, k + n)
    BY <1>1, <1>5, PacketsCarry
  <1>8. ASSUME NEW a \in Nat, Carries(toR, o, a, k) PROVE Carries(toR', o, a, k + n)
    <2>1. toR \in Seq(Packet) /\ Packets(n) \in Seq(Packet) /\ k + n \in Nat
      <3>1. PICK data : data = Cells(o, k + 1, k + n)
        OBVIOUS
      <3>2. k + 1 \in Nat /\ k + n \in Nat /\ k + 1 <= (k + n) + 1 /\ (k + n) - (k + 1) + 1 = n
        BY <1>5
      <3>3. data \in Seq(Cell) /\ Len(data) = n
        BY <3>1, <3>2, CellsType
      <3>4. ASSUME NEW i \in 1..n
            PROVE  [sess |-> NoObject, seq |-> 0, cells |-> <<data[i]>>] \in Packet
        <4>1. data[i] \in Cell
          BY <3>3, ElementOfSeq
        <4>2. <<data[i]>> \in Seq(Cell) /\ <<data[i]>> # <<>>
          BY <4>1
        <4>. QED
          BY <4>2 DEF Packet
      <3>5. Packets(n) = [i \in 1..n |-> [sess |-> NoObject, seq |-> 0, cells |-> <<data[i]>>]]
        BY <1>1, <3>1 DEF Packets
      <3>6. Packets(n) \in Seq(Packet)
        BY <1>5, <3>4, <3>5
      <3>. QED
        BY <3>2, <3>6 DEF IInv
    <2>. QED
      BY <1>2, <1>7, <1>8, <2>1, CarriesMore
  <1>9. ASSUME Live PROVE OnTrack'
    <2>0. OnTrack /\ r \in Receiver
      BY <1>9 DEF StreamInv, IInv, Legal
    <2>1. CASE s.pc = "header"
      <3>1. InHeader(o, k) /\ toS = <<>>
        BY <1>1, <1>3, <1>4, <2>0, <2>1, ConstantsAssumption DEF OnTrack, Offered
      <3>2. Len(r.header) \in Nat
        BY <2>0 DEF Receiver
      <3>3. Carries(toR', o, Len(r.header), k + n)
        BY <1>8, <3>1, <3>2 DEF InHeader
      <3>4. InHeader(o, k + n)'
        BY <1>3, <1>4, <1>5, <2>1, <3>1, <3>3 DEF InHeader
      <3>5. Offered(o, k + n)'
        BY <1>3, <3>1, <3>4 DEF Offered
      <3>. QED
        BY <1>6, <2>1, <3>5 DEF OnTrack
    <2>2. CASE s.pc = "payload"
      <3>1. InPayload(o, k) /\ toS = <<>>
        BY <1>1, <1>3, <1>4, <2>0, <2>2, ConstantsAssumption DEF OnTrack, Delivering
      <3>2. HeaderLen + Len(r.file) \in Nat
        BY <2>0, ConstantsAssumption DEF Receiver
      <3>3. Carries(toR', o, HeaderLen + Len(r.file), k + n)
        BY <1>8, <3>1, <3>2 DEF InPayload
      <3>4. InPayload(o, k + n)'
        BY <1>3, <1>4, <1>5, <2>2, <3>1, <3>3 DEF InPayload
      <3>5. Delivering(o, k + n)'
        BY <1>3, <3>1, <3>4 DEF Delivering
      <3>. QED
        BY <1>6, <2>2, <3>5 DEF OnTrack
    <2>. QED
      BY <1>3, <2>1, <2>2
  <1>10. Replies'
    BY <1>1, <1>3, <1>6 DEF Replies
  <1>11. Tidy' /\ (Live' <=> Live)
    BY <1>3 DEF Tidy, Live
  <1>. QED
    BY <1>3, <1>9, <1>10, <1>11 DEF StreamInv

\* A part has been sent.
LEMMA PartOn ==
    ASSUME ~Datagram, IInv, StreamInv, PartSent
    PROVE  StreamInv'
  <1>1. PICK o \in Objects, k \in Nat : o = s.obj /\ k = s.sent
    BY WhileBusy DEF PartSent, Busy
  <1>2. /\ s.pc \in {"header", "payload"} /\ UNCHANGED <<toR, toS, r, conn, spoilt>>
        /\ s'.pc = IF s.pc = "header" THEN "awaitReply" ELSE "awaitAck"
        /\ s'.obj = o /\ s'.sent = k
        /\ Tidy /\ spoilt = {} /\ Replies
    BY <1>1 DEF PartSent, rcvVars, StreamInv, IInv, SenderTyped, Sender
  <1>3. /\ Offered(o, k) => Offered(o, k)'
        /\ Delivering(o, k) => Delivering(o, k)'
    BY <1>2 DEF Offered, Delivering, InHeader, InPayload, Ready
  <1>4. Live => OnTrack'
    BY <1>1, <1>2, <1>3 DEF StreamInv, OnTrack
  <1>5. Replies'
    BY <1>1, <1>2 DEF Replies, Busy
  <1>6. Tidy' /\ (Live' <=> Live)
    BY <1>2 DEF Tidy, Live
  <1>. QED
    BY <1>2, <1>4, <1>5, <1>6 DEF StreamInv

\* The first message of a channel and the others.
LEMMA AboutRest ==
    ASSUME NEW q \in Seq(Message), q # <<>>, NEW o, About(q, o)
    PROVE  /\ Head(q).sess = o /\ About(Tail(q), o)
           /\ Head(q).type # "accept" => Tail(q) = <<>>
  <1>1. Len(q) \in Nat /\ Len(q) >= 1 /\ Head(q) = q[1]
    BY EmptySeq
  <1>2. PICK u : u = Tail(q)
    OBVIOUS
  <1>3. u \in Seq(Message) /\ Len(u) = Len(q) - 1 /\ \A i \in 1..Len(u) : u[i] = q[i + 1]
    BY <1>1, <1>2, HeadTailProperties
  <1>4. ASSUME NEW i \in 1..Len(u) PROVE u[i].sess = o /\ (u[i].type # "accept" => i = Len(u))
    <2>1. i + 1 \in 1..Len(q) /\ (i + 1 = Len(q) <=> i = Len(u))
      BY <1>1, <1>3
    <2>2. q[i + 1].sess = o /\ (q[i + 1].type # "accept" => i + 1 = Len(q))
      BY <2>1 DEF About
    <2>. QED
      BY <1>3, <2>1, <2>2
  <1>5. 1 \in 1..Len(q)
    BY <1>1
  <1>6. q[1].sess = o /\ (q[1].type # "accept" => Len(q) = 1)
    BY <1>5 DEF About
  <1>7. Len(q) = 1 => u = <<>>
    BY <1>1, <1>3, EmptySeq
  <1>. QED
    BY <1>1, <1>2, <1>4, <1>6, <1>7 DEF About

\* The answer to the header.
LEMMA ReplyOn ==
    ASSUME ~Datagram, IInv, StreamInv, GetReply
    PROVE  StreamInv'
  <1>1. PICK o \in Objects, k \in Nat : o = s.obj /\ k = s.sent
    BY WhileBusy DEF GetReply, Busy
  <1>2. /\ s.pc = "awaitReply" /\ toS # <<>> /\ toS' = Tail(toS) /\ UNCHANGED <<toR, r, conn, spoilt>>
        /\ s \in Sender /\ Tidy /\ spoilt = {} /\ Replies /\ toS \in Seq(Message)
    BY IInvTypes DEF GetReply, rcvVars, StreamInv, IInv, SenderTyped, TypeOK
  <1>3. /\ Head(toS).sess = o /\ About(toS', o)
        /\ Head(toS).type # "accept" => toS' = <<>>
    BY <1>1, <1>2, AboutRest DEF Replies, Busy
  <1>4. Live => Offered(o, k)
    BY <1>1, <1>2 DEF StreamInv, OnTrack
  <1>5. /\ Control(o, "accept").type = "accept" /\ Control(o, "reject").type = "reject"
        /\ Control(o, "ack").type = "ack"
    BY DEF Control
  <1>6. Tidy' /\ (Live' <=> Live) /\ (Ready => Ready') /\ (InPayload(o, k) => InPayload(o, k)')
    BY <1>2 DEF Tidy, Live, Ready, InPayload
  <1>7. CASE Head(toS).type = "reject" /\ Success("rejected")
    <2>1. s'.pc = "idle"
      BY <1>2, <1>7 DEF Success, Sender
    <2>2. ASSUME Live PROVE Ready
      <3>1. Head(toS) # Control(o, "accept")
        BY <1>5, <1>7
      <3>2. toS # <<Control(o, "accept")>> /\ toS # <<Control(o, "accept"), Control(o, "ack")>>
        BY <3>1
      <3>. QED
        BY <1>2, <1>4, <2>2, <3>2 DEF Offered
    <2>3. Live' => OnTrack'
      BY <1>6, <2>1, <2>2 DEF OnTrack
    <2>4. Replies'
      BY <1>3, <1>7, <2>1 DEF Replies, Busy
    <2>. QED
      BY <1>2, <1>6, <2>3, <2>4 DEF StreamInv
  <1>8. CASE /\ Head(toS).type # "reject"
             /\ s' = [s EXCEPT !.pc = IF Head(toS).type = "accept" THEN "payload" ELSE "awaitAck"]
    <2>1. /\ s'.pc = (IF Head(toS).type = "accept" THEN "payload" ELSE "awaitAck")
          /\ s'.obj = o /\ s'.sent = k
      BY <1>1, <1>2, <1>8 DEF Sender
    <2>2. ASSUME Live PROVE Delivering(o, k)'
      <3>1. CASE toS = <<Control(o, "reject")>>
        <4>1. Head(toS) = Control(o, "reject")
          BY <3>1
        <4>. QED
          BY <1>5, <1>8, <4>1
      <3>2. CASE k = HeaderLen /\ InPayload(o, k) /\ toS = <<Control(o, "accept")>>
        <4>1. toS' = <<>>
          BY <1>2, <3>2
        <4>. QED
          BY <1>6, <3>2, <4>1 DEF Delivering
      <3>3. CASE /\ k = HeaderLen /\ Ready /\ DataLen[o] = 0
                 /\ toS \in {<<Control(o, "accept")>>, <<Control(o, "accept"), Control(o, "ack")>>}
        <4>1. k = HeaderLen + DataLen[o]
          BY <3>3, ConstantsAssumption
        <4>2. PICK acc, ack : acc = Control(o, "accept") /\ ack = Control(o, "ack")
          OBVIOUS
        <4>3. Tail(<<acc>>) = <<>> /\ Tail(<<acc, ack>>) = <<ack>>
          OBVIOUS
        <4>4. toS' \in {<<>>, <<ack>>}
          BY <1>2, <3>3, <4>2, <4>3
        <4>. QED
          BY <1>6, <3>3, <4>1, <4>2, <4>4 DEF Delivering
      <3>. QED
        BY <1>2, <1>4, <2>2, <3>1, <3>2, <3>3 DEF Offered
    <2>3. Live' => OnTrack'
      BY <1>6, <2>1, <2>2 DEF OnTrack
    <2>4. Replies'
      BY <1>3, <2>1 DEF Replies, Busy
    <2>. QED
      BY <1>2, <1>6, <2>3, <2>4 DEF StreamInv
  <1>. QED
    BY <1>7, <1>8 DEF GetReply, Unexpected

\* The answer to the payload.
LEMMA AckOn ==
    ASSUME ~Datagram, IInv, StreamInv, GetAck
    PROVE  StreamInv'
  <1>1. PICK o \in Objects, k \in Nat : o = s.obj /\ k = s.sent
    BY WhileBusy DEF GetAck, Busy
  <1>2. /\ s.pc = "awaitAck" /\ toS # <<>> /\ toS' = Tail(toS) /\ UNCHANGED <<toR, r, conn, spoilt>>
        /\ s \in Sender /\ Tidy /\ spoilt = {} /\ Replies /\ toS \in Seq(Message)
    BY IInvTypes DEF GetAck, rcvVars, StreamInv, IInv, SenderTyped, TypeOK
  <1>3. Head(toS).type # "accept" => toS' = <<>>
    BY <1>1, <1>2, AboutRest DEF Replies, Busy
  <1>4. CASE Head(toS).type = "ack" /\ Success("acked")
    <2>1. s'.pc = "idle" /\ toS' = <<>>
      BY <1>2, <1>3, <1>4 DEF Success, Sender
    <2>2. Live => Ready
      BY <1>1, <1>2 DEF StreamInv, OnTrack, Delivering
    <2>3. Tidy' /\ (Live' <=> Live) /\ (Ready => Ready')
      BY <1>2 DEF Tidy, Live, Ready
    <2>4. Live' => OnTrack'
      BY <2>1, <2>2, <2>3 DEF OnTrack
    <2>5. Replies'
      BY <2>1 DEF Replies, Busy
    <2>. QED
      BY <1>2, <2>3, <2>4, <2>5 DEF StreamInv
  <1>5. CASE SendError
    BY <1>2, <1>5, NoRetry, SenderCloses
  <1>. QED
    BY <1>4, <1>5 DEF GetAck

\* Every step of a stream keeps the two ends in agreement.
LEMMA StreamStep ==
    ASSUME ~Datagram, IInv, IInv', StreamInv, [Next]_vars
    PROVE  StreamInv'
  <1>1. ASSUME NEW o \in Objects, StartSend(o) PROVE StreamInv'
    BY <1>1, StartOn
  <1>2. CASE SendChunk
    BY <1>2, ChunkOn
  <1>3. CASE PartSent
    BY <1>3, PartOn
  <1>4. CASE GetReply
    BY <1>4, ReplyOn
  <1>5. CASE GetAck
    BY <1>5, AckOn
  <1>6. CASE ReplyTimeout \/ SendFails \/ SenderLosesPeer \/ SenderLeaves
    <2>1. UNCHANGED <<r, conn, spoilt, toR>>
      BY <1>6 DEF ReplyTimeout, SendFails, SenderLosesPeer, SenderLeaves, rcvVars
    <2>2. CASE SendError \/ SendTimeout
      BY <2>1, <2>2, NoRetry, SenderCloses
    <2>3. CASE GiveUp \/ s' = [s EXCEPT !.pc = "closed"]
      <3>1. s'.pc = "closed"
        BY <2>3 DEF GiveUp, IInv, SenderTyped, Sender
      <3>. QED
        BY <2>1, <3>1, SenderCloses
    <2>. QED
      BY <1>6, <2>2, <2>3 DEF ReplyTimeout, SendFails, SenderLosesPeer, SenderLeaves
  <1>7. CASE SenderDiscards
    BY <1>7 DEF SenderDiscards, StreamInv, Replies
  <1>8. CASE Receive
    <2>1. toR' \in Seq(Packet)
      BY DEF IInv
    <2>. QED
      BY <1>8, <2>1, StreamReceive
  <1>9. CASE ReceiveTimeout \/ ReceiverLosesPeer
    <2>1. ReceiveFails(r, events) /\ UNCHANGED <<toS, s>>
      BY <1>9 DEF ReceiveTimeout, ReceiverLosesPeer, sndVars
    <2>2. Tidy' /\ r'.pc = "closed" /\ UNCHANGED spoilt
      BY <2>1, FailsClosed
    <2>3. ~Live'
      BY <2>2 DEF Live
    <2>4. Replies'
      BY <2>1 DEF Replies, StreamInv
    <2>. QED
      BY <2>2, <2>3, <2>4 DEF StreamInv
  <1>10. CASE HandleEvent \/ onPeriodicBloomfilterUpdate \/ UNCHANGED vars
    <2>1. UNCHANGED <<s, toR, toS, conn, r, spoilt>>
      BY <1>10, KernelFrame DEF vars
    <2>2. /\ Tidy' <=> Tidy
          /\ Live' <=> Live
          /\ Replies' <=> Replies
      BY <2>1 DEF Tidy, Live, Replies
    <2>3. OnTrack' <=> OnTrack
      BY <2>1 DEF OnTrack, Offered, Delivering, InHeader, InPayload, Ready
    <2>. QED
      BY <2>1, <2>2, <2>3 DEF StreamInv
  <1>11. CASE Lose \/ Duplicate
    BY <1>11 DEF Lose, Duplicate
  <1>12. CASE Reset
    <2>1. conn' = "reset" /\ toS' = <<>> /\ UNCHANGED <<r, spoilt, s>>
      BY <1>12 DEF Reset, rcvVars, sndVars
    <2>2. ~Live' /\ Tidy'
      BY <2>1 DEF Live, Tidy, StreamInv
    <2>3. Replies'
      BY <2>1 DEF Replies, About
    <2>. QED
      BY <2>1, <2>2, <2>3 DEF StreamInv
  <1>13. CASE Reconnect
    <2>1. /\ s'.pc = "idle" /\ toR' = <<>> /\ toS' = <<>> /\ UNCHANGED spoilt
          /\ r' = Fresh([i \in 1..BufferSize |-> Zero])
      BY <1>13 DEF Reconnect, IInv, SenderTyped, Sender
    <2>2. Tidy' /\ Ready'
      BY <2>1 DEF Tidy, Ready, Fresh
    <2>3. Replies' /\ OnTrack'
      BY <2>1, <2>2 DEF Replies, OnTrack, Busy
    <2>. QED
      BY <2>1, <2>2, <2>3 DEF StreamInv
  <1>. QED
    BY <1>1, <1>2, <1>3, <1>4, <1>5, <1>6, <1>7, <1>8, <1>9, <1>10, <1>11, <1>12, <1>13 DEF Next

\* It holds at the start.
LEMMA StreamInit ==
    ASSUME Init
    PROVE  StreamInv
  <1>1. s.pc = "idle" /\ toR = <<>> /\ toS = <<>> /\ spoilt = {} /\ r = Fresh([i \in 1..BufferSize |-> Zero])
    BY DEF Init
  <1>2. Tidy /\ Ready
    BY <1>1 DEF Tidy, Ready, Fresh
  <1>. QED
    BY <1>1, <1>2 DEF StreamInv, OnTrack, Replies, Busy

\* What a node reports RECEIVED from a TCP link has the contents that were sent, for
\* every cutting of the stream into reads and whatever breaks in between: the buffer is
\* empty when an object begins, and neither end starts the next object before the other
\* has ended this one.
THEOREM StreamIntact ==
    ASSUME ~Datagram
    PROVE  Spec => []Intact
  <1>1. Init => IInv /\ StreamInv
    BY InitIInv, StreamInit
  <1>2. IInv /\ StreamInv /\ [Next]_vars => (IInv /\ StreamInv)'
    BY Step, StreamStep
  <1>3. StreamInv => Intact
    BY DEF StreamInv, Intact
  <1>. QED
    BY <1>1, <1>2, <1>3, PTL DEF Spec

\* The exchange implements Handoff, over a stream that breaks and over datagrams that are
\* lost, late or repeated: a send is reported acknowledged only if the peer has received
\* that object, and rejected only if the peer once agreed to take it.
THEOREM ImplementsHandoff == Spec => Implements
  <1>1. Init => IInv /\ (~Datagram => StreamInv) /\ H!Init
    BY InitIInv, StreamInit
  <1>2. IInv /\ (~Datagram => StreamInv) => Addressed
    BY DEF StreamInv, Replies, About, Addressed
  <1>3. IInv /\ (~Datagram => StreamInv) /\ [Next]_vars => (IInv /\ (~Datagram => StreamInv))'
    BY Step, StreamStep
  <1>4. IInv /\ (~Datagram => StreamInv) /\ [Next]_vars => [H!Next]_H!vars
    BY <1>2, Step DEF Simulated
  <1>. QED
    BY <1>1, <1>3, <1>4, PTL DEF Spec, Implements, H!Spec
=============================================================================
