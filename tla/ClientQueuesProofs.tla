------------------------- MODULE ClientQueuesProofs -------------------------
(***************************************************************************)
(* Proofs about ClientQueues: the types, and that what is pushed for a     *)
(* client reaches it whole, once and in order.                             *)
(*                                                                         *)
(* The second one cuts `owed' into the messages whose sending has begun    *)
(* and those still queued.  What is on the wire and the rest of the buffer *)
(* are together the frames of the former, which only SendChunk changes,    *)
(* and the latter change only at their ends.                               *)
(***************************************************************************)
EXTENDS ClientQueues, SequenceLemmas

Frame == Nat \X BOOLEAN \X BOOLEAN

-----------------------------------------------------------------------------
(* The frames of a message are a sequence of them, one for each chunk. *)
LEMMA FramesType ==
    ASSUME NEW m \in Message
    PROVE  /\ Frames(m) \in Seq(Frame)
           /\ Len(Frames(m)) = m.chunks
           /\ m.chunks \in Nat \ {0}
           /\ m.chunks <= MaxChunks
           /\ \A i \in 1..m.chunks : Frames(m)[i] = <<m.id, i = 1, i = m.chunks>>
<1>1. m.chunks \in 1..MaxChunks /\ m.id \in Nat /\ MaxChunks \in Nat
  BY QueuesAssumption DEF Message
<1>2. m.chunks \in Nat \ {0} /\ m.chunks <= MaxChunks
  BY <1>1
<1>3. \A i \in 1..m.chunks : <<m.id, i = 1, i = m.chunks>> \in Frame
  BY <1>1 DEF Frame
<1>4. Frames(m) \in [1..m.chunks -> Frame]
  BY <1>3, Zenon DEF Frames
<1>5. Frames(m) \in Seq(Frame) /\ Len(Frames(m)) = m.chunks
  BY <1>2, <1>4
<1>6. \A i \in 1..m.chunks : Frames(m)[i] = <<m.id, i = 1, i = m.chunks>>
  BY Zenon DEF Frames
<1> QED BY <1>2, <1>5, <1>6, Zenon

(* Nothing queued, no frames. *)
LEMMA FramesOfEmpty == FramesOf(<<>>) = <<>>
<1>1. [i \in 1..Len(<<>>) |-> Frames(<<>>[i])] = <<>>
  OBVIOUS
<1> QED BY <1>1, FlattenEmpty, Zenon DEF FramesOf

(* The frames of the messages of a queue. *)
LEMMA FramesOfType ==
    ASSUME NEW queue \in Seq(Message)
    PROVE  /\ [i \in 1..Len(queue) |-> Frames(queue[i])] \in Seq(Seq(Frame))
           /\ FramesOf(queue) \in Seq(Frame)
<1>1. \A i \in 1..Len(queue) : Frames(queue[i]) \in Seq(Frame)
  BY FramesType
<1> DEFINE cut == [i \in 1..Len(queue) |-> Frames(queue[i])]
<1>2. cut \in [1..Len(queue) -> Seq(Frame)] /\ Len(queue) \in Nat
  BY <1>1
<1>3. cut \in Seq(Seq(Frame))
  <2> HIDE DEF cut
  <2> QED BY <1>2
<1> QED BY <1>3, FlattenType, Zenon DEF FramesOf

(* A message more at the end of a queue means its frames at the end. *)
LEMMA FramesOfAppend ==
    ASSUME NEW queue \in Seq(Message), NEW m \in Message
    PROVE  FramesOf(Append(queue, m)) = FramesOf(queue) \o Frames(m)
<1> DEFINE cut == [i \in 1..Len(queue) |-> Frames(queue[i])]
           more == Append(queue, m)
           longer == [i \in 1..Len(more) |-> Frames(more[i])]
<1>1. /\ Len(more) = Len(queue) + 1 /\ Len(queue) \in Nat
      /\ \A i \in 1..Len(queue) : more[i] = queue[i]
      /\ more[Len(queue) + 1] = m
  BY AppendProperties
<1>2. cut \in Seq(Seq(Frame)) /\ Len(cut) = Len(queue) /\ Frames(m) \in Seq(Frame)
  BY FramesOfType, FramesType
<1>3. longer = Append(cut, Frames(m))
  <2> DEFINE appended == Append(cut, Frames(m))
  <2>1. /\ appended \in Seq(Seq(Frame))
        /\ Len(appended) = Len(queue) + 1
        /\ \A i \in 1..Len(queue) : appended[i] = cut[i]
        /\ appended[Len(queue) + 1] = Frames(m)
    <3> HIDE DEF cut
    <3> QED BY <1>2, AppendProperties
  <2>2. longer \in Seq(Seq(Frame)) /\ Len(longer) = Len(queue) + 1
    <3>1. more \in Seq(Message)
      OBVIOUS
    <3> HIDE DEF more
    <3>2. longer \in Seq(Seq(Frame))
      BY <3>1, FramesOfType
    <3>3. Len(more) \in Nat /\ DOMAIN longer = 1..Len(more)
      BY <1>1
    <3> HIDE DEF longer
    <3> QED BY <1>1, <3>2, <3>3, LenProperties
  <2>3. \A i \in 1..Len(queue) : longer[i] = appended[i]
    BY <1>1, <2>1
  <2>4. longer[Len(queue) + 1] = appended[Len(queue) + 1]
    BY <1>1, <2>1
  <2> HIDE DEF longer, appended
  <2> HIDE DEF more
  <2>5. \A i \in 1..Len(longer) : longer[i] = appended[i]
    <3>1. Len(queue) \in Nat
      BY <1>1
    <3>2. \A i \in 1..Len(longer) : i \in 1..Len(queue) \/ i = Len(queue) + 1
      BY <2>2, <3>1
    <3> QED BY <2>3, <2>4, <3>2, Zenon
  <2>6. longer = appended
    BY <2>1, <2>2, <2>5, SeqEqual
  <2> QED BY <2>6 DEF appended
<1>4. FlattenSeq(Append(cut, Frames(m))) = FlattenSeq(cut) \o Frames(m)
  BY <1>2, FlattenAppend
<1> QED BY <1>3, <1>4, Zenon DEF FramesOf

(* The frames of two queues, one after the other. *)
LEMMA FramesOfConcat ==
    ASSUME NEW q1 \in Seq(Message), NEW q2 \in Seq(Message)
    PROVE  FramesOf(q1 \o q2) = FramesOf(q1) \o FramesOf(q2)
<1> DEFINE cut(q) == [i \in 1..Len(q) |-> Frames(q[i])]
           both == q1 \o q2
<1>1. /\ both \in Seq(Message) /\ Len(both) = Len(q1) + Len(q2)
      /\ Len(q1) \in Nat /\ Len(q2) \in Nat
      /\ \A i \in 1..Len(q1) + Len(q2) :
            both[i] = IF i <= Len(q1) THEN q1[i] ELSE q2[i - Len(q1)]
  BY ConcatProperties
<1>2. \A q \in Seq(Message) : cut(q) \in Seq(Seq(Frame)) /\ Len(cut(q)) = Len(q)
  BY FramesOfType
<1>3. cut(both) = cut(q1) \o cut(q2)
  <2> DEFINE s == cut(both)
             t == cut(q1)
             u == cut(q2)
  <2>1. /\ s \in Seq(Seq(Frame)) /\ t \in Seq(Seq(Frame)) /\ u \in Seq(Seq(Frame))
        /\ Len(s) = Len(q1) + Len(q2) /\ Len(t) = Len(q1) /\ Len(u) = Len(q2)
    <3> HIDE DEF both, cut
    <3> QED BY <1>1, <1>2
  <2>2. \A i \in 1..Len(q1) + Len(q2) : s[i] = IF i <= Len(q1) THEN t[i] ELSE u[i - Len(q1)]
    BY <1>1
  <2> HIDE DEF s, t, u
  <2>3. /\ t \o u \in Seq(Seq(Frame)) /\ Len(t \o u) = Len(t) + Len(u)
        /\ \A i \in 1..Len(t) + Len(u) : (t \o u)[i] = IF i <= Len(t) THEN t[i] ELSE u[i - Len(t)]
    <3>1. t \in Seq(Seq(Frame)) /\ u \in Seq(Seq(Frame))
      BY <2>1
    <3>2. t \o u \in Seq(Seq(Frame)) /\ Len(t \o u) = Len(t) + Len(u)
      BY <3>1
    <3>3. \A i \in 1..Len(t) + Len(u) :
             (t \o u)[i] = IF i <= Len(t) THEN t[i] ELSE u[i - Len(t)]
      BY <3>1, ConcatProperties
    <3> QED BY <3>2, <3>3
  <2>4. s = t \o u
    <3> DEFINE v == t \o u
    <3>1. /\ v \in Seq(Seq(Frame)) /\ Len(s) = Len(v)
          /\ \A i \in 1..Len(q1) + Len(q2) : s[i] = v[i]
      BY <2>1, <2>2, <2>3, Zenon
    <3> HIDE DEF v
    <3>2. s = v
      BY <2>1, <3>1, SeqEqual
    <3> QED BY <3>2 DEF v
  <2> QED BY <2>4 DEF s, t, u
<1>4. FlattenSeq(cut(q1) \o cut(q2)) = FlattenSeq(cut(q1)) \o FlattenSeq(cut(q2))
  <2> HIDE DEF cut
  <2> QED BY <1>2, FlattenConcat
<1> QED BY <1>3, <1>4, Zenon DEF FramesOf

(* What is left of the frames of a message is the next one, with its marks *)
(* for the first and the last, and what is left after it.                  *)
LEMMA NextFrame ==
    ASSUME NEW m \in Message, NEW offset \in Nat, offset < m.chunks
    PROVE  SubSeq(Frames(m), offset + 1, m.chunks)
              = <<<<m.id, offset = 0, offset + 1 >= m.chunks>>>>
                   \o SubSeq(Frames(m), (offset + 1) + 1, m.chunks)
<1>1. /\ Frames(m) \in Seq(Frame) /\ Len(Frames(m)) = m.chunks
      /\ m.chunks \in Nat \ {0}
      /\ \A i \in 1..m.chunks : Frames(m)[i] = <<m.id, i = 1, i = m.chunks>>
  BY FramesType
<1>2. offset + 1 \in 1..m.chunks /\ m.chunks \in offset + 1..m.chunks
  BY <1>1
<1>3. Frames(m)[offset + 1] = <<m.id, offset = 0, offset + 1 >= m.chunks>>
  <2>1. Frames(m)[offset + 1] = <<m.id, offset + 1 = 1, offset + 1 = m.chunks>>
    BY <1>1, <1>2, Zenon
  <2>2. (offset + 1 = 1) = (offset = 0) /\ (offset + 1 = m.chunks) = (offset + 1 >= m.chunks)
    BY <1>1
  <2> QED BY <2>1, <2>2, Zenon
<1>4. SubSeq(Frames(m), offset + 1, m.chunks)
         = <<Frames(m)[offset + 1]>> \o SubSeq(Frames(m), (offset + 1) + 1, m.chunks)
  <2> DEFINE frames == Frames(m)
             first  == offset + 1
             last   == m.chunks
  <2>1. frames \in Seq(Frame) /\ first \in 1..Len(frames) /\ last \in first..Len(frames)
    BY <1>1, <1>2
  <2> HIDE DEF frames, first, last
  <2>2. SubSeq(frames, first, last) = <<frames[first]>> \o SubSeq(frames, first + 1, last)
    BY <2>1, SubSeqRecursiveFirst
  <2> QED BY <2>2, Zenon DEF frames, first, last
<1> QED BY <1>3, <1>4, Zenon

-----------------------------------------------------------------------------
(* The invariant.  A message that is owed to a client is either queued or  *)
(* was taken from the queue before: Sent.  The frames of those are on the  *)
(* wire, except the ones the buffer still holds.                           *)

Sent(w) == SubSeq(owed[w], 1, Len(owed[w]) - Len(messagesOut[w]))

RestOfBuffer(w) ==
    IF DataPending(w)
    THEN SubSeq(Frames(msgBuffer[w]), sendOffset[w] + 1, msgBuffer[w].chunks)
    ELSE <<>>

QueueIsEnd(w) == owed[w] = Sent(w) \o messagesOut[w]
SentIsCut(w) == wire[w] \o RestOfBuffer(w) = FramesOf(Sent(w))

DeliveryInv ==
    \A w \in Clients : conn[w] # "gone" => QueueIsEnd(w) /\ SentIsCut(w)

(* A pending message is one: the buffer without a message has no chunks. *)
LEMMA PendingMessage ==
    ASSUME TypeOK, NEW w \in Clients, DataPending(w)
    PROVE  msgBuffer[w] \in Message
BY DEF TypeOK, DataPending, Nothing

(* What the pieces of the invariant are sequences of. *)
LEMMA PiecesType ==
    ASSUME TypeOK, NEW w \in Clients
    PROVE  /\ messagesOut[w] \in Seq(Message) /\ owed[w] \in Seq(Message)
           /\ wire[w] \in Seq(Frame)
           /\ QueueIsEnd(w) => Sent(w) \in Seq(Message)
           /\ RestOfBuffer(w) \in Seq(Frame)
<1>1. messagesOut[w] \in Seq(Message) /\ owed[w] \in Seq(Message) /\ wire[w] \in Seq(Frame)
  BY DEF TypeOK, Frame
<1>2. ASSUME QueueIsEnd(w) PROVE Sent(w) \in Seq(Message)
  <2> DEFINE n == Len(owed[w]) - Len(messagesOut[w])
  <2>1. n \in Int /\ n <= Len(owed[w]) /\ Len(owed[w]) \in Nat
    <3> DEFINE l1 == Len(owed[w])
               l2 == Len(messagesOut[w])
    <3>1. l1 \in Nat /\ l2 \in Nat
      BY <1>1, LenProperties
    <3> HIDE DEF l1, l2
    <3>2. l1 - l2 \in Int /\ l1 - l2 <= l1
      BY <3>1
    <3> QED BY <3>1, <3>2 DEF l1, l2
  <2>2. \A i \in 1..n : owed[w][i] \in Message
    BY <1>1, <2>1
  <2>3. 1 \in Int
    OBVIOUS
  <2> HIDE DEF n
  <2>4. SubSeq(owed[w], 1, n) \in Seq(Message)
    BY <2>1, <2>2, <2>3, SubSeqProperties
  <2> QED BY <2>4 DEF Sent, n
<1>3. RestOfBuffer(w) \in Seq(Frame)
  <2>1. CASE DataPending(w)
    <3> DEFINE m == msgBuffer[w]
               k == sendOffset[w] + 1
    <3>1. m \in Message /\ k \in Nat \ {0}
      BY <2>1, PendingMessage DEF TypeOK
    <3> HIDE DEF m, k
    <3>2. /\ Frames(m) \in Seq(Frame) /\ Len(Frames(m)) = m.chunks
          /\ m.chunks \in Nat
      BY <3>1, FramesType
    <3>3. \A i \in k..m.chunks : Frames(m)[i] \in Frame
      BY <3>1, <3>2
    <3>4. SubSeq(Frames(m), k, m.chunks) \in Seq(Frame)
      BY <3>1, <3>2, <3>3, SubSeqProperties
    <3> QED BY <2>1, <3>4, Zenon DEF RestOfBuffer, m, k
  <2>2. CASE ~DataPending(w)
    BY <2>2 DEF RestOfBuffer
  <2> QED BY <2>1, <2>2
<1> QED BY <1>1, <1>2, <1>3

(* The invariant implies the property of the runs. *)
LEMMA InvariantDelivers ==
    ASSUME TypeOK, DeliveryInv
    PROVE  NothingLostOrMixed
<1>1. SUFFICES ASSUME NEW w \in Clients, conn[w] = "open"
               PROVE  wire[w] \o RestOf(w) = FramesOf(owed[w])
  BY DEF NothingLostOrMixed, OpenClients
<1>2. QueueIsEnd(w) /\ SentIsCut(w)
  BY <1>1 DEF DeliveryInv
<1>3. /\ messagesOut[w] \in Seq(Message) /\ Sent(w) \in Seq(Message)
      /\ wire[w] \in Seq(Frame) /\ RestOfBuffer(w) \in Seq(Frame)
  BY <1>2, PiecesType
<1>4. FramesOf(messagesOut[w]) \in Seq(Frame)
  BY <1>3, FramesOfType
<1>5. FramesOf(owed[w]) = FramesOf(Sent(w)) \o FramesOf(messagesOut[w])
  BY <1>2, <1>3, FramesOfConcat DEF QueueIsEnd
<1>6. RestOf(w) = RestOfBuffer(w) \o FramesOf(messagesOut[w])
  BY Zenon DEF RestOf, RestOfBuffer
<1>7. wire[w] \o (RestOfBuffer(w) \o FramesOf(messagesOut[w]))
         = (wire[w] \o RestOfBuffer(w)) \o FramesOf(messagesOut[w])
  <2> DEFINE s == wire[w]
             t == RestOfBuffer(w)
             u == FramesOf(messagesOut[w])
  <2>1. s \in Seq(Frame) /\ t \in Seq(Frame) /\ u \in Seq(Frame)
    BY <1>3, <1>4
  <2> HIDE DEF s, t, u
  <2>2. (s \o t) \o u = s \o (t \o u)
    BY <2>1, ConcatAssociative
  <2> QED BY <2>2, Zenon DEF s, t, u
<1> QED BY <1>2, <1>5, <1>6, <1>7, Zenon DEF SentIsCut

-----------------------------------------------------------------------------
(* The types.  The last number is the only variable that grows; a chunk    *)
(* that is not the last one leaves the offset below the chunks.            *)

LEMMA TypeInit ==
    ASSUME Init
    PROVE  TypeOK
<1>1. Nothing \in Message \union {Nothing} /\ 0 \in 0..MaxChunks /\ 0 \in 0..MaxMessages
  BY QueuesAssumption
<1>2. <<>> \in Seq(Message) /\ <<>> \in Seq(Nat \X BOOLEAN \X BOOLEAN)
  OBVIOUS
<1>3. /\ msgBuffer \in [Clients -> Message \union {Nothing}]
      /\ messagesOut \in [Clients -> Seq(Message)] /\ owed \in [Clients -> Seq(Message)]
      /\ wire \in [Clients -> Seq(Nat \X BOOLEAN \X BOOLEAN)]
      /\ sendOffset \in [Clients -> 0..MaxChunks]
  <2> HIDE DEF Nothing
  <2> QED BY <1>1, <1>2, Zenon DEF Init
<1> QED BY <1>1, <1>3 DEF Init, TypeOK

LEMMA TypePush ==
    ASSUME TypeOK, NEW chunks \in 1..MaxChunks, NEW to \in SUBSET Clients,
           PushOutMessage(chunks, to)
    PROVE  TypeOK'
<1> DEFINE m == [id |-> lastId + 1, chunks |-> chunks]
<1>1. m \in Message /\ lastId + 1 \in 0..MaxMessages
  BY QueuesAssumption DEF TypeOK, PushOutMessage, Message
<1>2. ASSUME NEW q \in [Clients -> Seq(Message)]
      PROVE  [w \in Clients |-> IF w \in to THEN Append(q[w], m) ELSE q[w]]
                \in [Clients -> Seq(Message)]
  <2> HIDE DEF m
  <2>1. \A w \in Clients : Append(q[w], m) \in Seq(Message)
    BY <1>1, <1>2, AppendProperties
  <2> QED BY <1>2, <2>1, Zenon
<1>3. messagesOut' \in [Clients -> Seq(Message)] /\ owed' \in [Clients -> Seq(Message)]
  BY <1>2, Zenon DEF TypeOK, PushOutMessage
<1>4. lastId' \in 0..MaxMessages /\ mainPc' \in {"idle", "perform"}
  BY <1>1 DEF PushOutMessage
<1> QED BY <1>3, <1>4 DEF TypeOK, PushOutMessage

LEMMA TypePerformData ==
    ASSUME TypeOK, NEW type \in {"mtPing", "mtData"}, PerformData(type),
           lwsPc' \in {"service", "data", "ping"}, pinged' \in BOOLEAN,
           mainPc' \in {"idle", "perform"}
    PROVE  TypeOK'
<1>1. armed' \subseteq Clients
  BY Zenon DEF TypeOK, PerformData, OpenClients
<1>2. msgType' \in {"mtNone", "mtPing", "mtData"}
  BY DEF PerformData
<1> QED BY <1>1, <1>2 DEF TypeOK, PerformData

(* What SendChunk(w) does, by names: the message, the offset of its chunk  *)
(* and the queue without the message.                                      *)
ChunkTaken(w, m, offset, rest) ==
    /\ offset < m.chunks
    /\ \/ /\ ~DataPending(w) /\ offset = 0
          /\ messagesOut[w] # <<>> /\ m = Head(messagesOut[w])
          /\ rest = Tail(messagesOut[w])
       \/ /\ DataPending(w) /\ offset = sendOffset[w]
          /\ m = msgBuffer[w] /\ rest = messagesOut[w]

ChunkSent(w, m, offset, rest) ==
    LET final == offset + 1 >= m.chunks
    IN  /\ messagesOut' = [messagesOut EXCEPT ![w] = rest]
        /\ msgBuffer' = [msgBuffer EXCEPT ![w] = IF final THEN Nothing ELSE m]
        /\ sendOffset' = [sendOffset EXCEPT ![w] = IF final THEN 0 ELSE offset + 1]
        /\ wire' = [wire EXCEPT ![w] = Append(wire[w], <<m.id, offset = 0, final>>)]
        /\ armed' \in {armed \union {w}, armed \ {w}}
        /\ UNCHANGED backOff

LEMMA SendChunkParts ==
    ASSUME TypeOK, NEW w \in Clients, SendChunk(w)
    PROVE  \E m \in Message, offset \in Nat, rest \in Seq(Message) :
              ChunkTaken(w, m, offset, rest) /\ ChunkSent(w, m, offset, rest)
<1>1. messagesOut[w] \in Seq(Message)
  BY DEF TypeOK
<1>2. CASE DataPending(w)
  <2>1. msgBuffer[w] \in Message /\ sendOffset[w] \in Nat /\ sendOffset[w] < msgBuffer[w].chunks
    BY <1>2, PendingMessage DEF TypeOK, DataPending
  <2> USE <2>1
  <2> WITNESS msgBuffer[w] \in Message, sendOffset[w] \in Nat, messagesOut[w] \in Seq(Message)
  <2> QED BY <1>2, <2>1, Zenon DEF SendChunk, ChunkTaken, ChunkSent
<1>3. CASE ~DataPending(w)
  <2>1. messagesOut[w] # <<>>
    BY <1>3 DEF SendChunk
  <2>2. Head(messagesOut[w]) \in Message /\ Tail(messagesOut[w]) \in Seq(Message)
    BY <1>1, <2>1, HeadTailProperties
  <2>3. 0 < Head(messagesOut[w]).chunks /\ 0 \in Nat
    BY <2>2, FramesType
  <2> USE <2>2, <2>3
  <2> WITNESS Head(messagesOut[w]) \in Message, 0 \in Nat, Tail(messagesOut[w]) \in Seq(Message)
  <2> QED BY <1>3, <2>1, <2>3, Zenon DEF SendChunk, ChunkTaken, ChunkSent
<1> QED BY <1>2, <1>3

LEMMA TypeWritable ==
    ASSUME TypeOK, NEW w \in Clients, Writable(w)
    PROVE  TypeOK'
<1>1. CASE WritablePing(w) \/ NothingToSend(w)
  BY <1>1 DEF TypeOK, Writable, WritablePing, NothingToSend
<1>2. CASE PipeChoked(w)
  BY <1>2 DEF TypeOK, Writable, PipeChoked
<1>3. CASE SendChunk(w)
  <2>1. PICK m \in Message, offset \in Nat, rest \in Seq(Message) :
              ChunkSent(w, m, offset, rest)
    BY <1>3, SendChunkParts, Zenon
  <2>2. m.chunks \in Nat /\ m.chunks <= MaxChunks /\ m.id \in Nat
    BY FramesType DEF Message
  <2>3. messagesOut' \in [Clients -> Seq(Message)]
    BY <2>1 DEF TypeOK, ChunkSent
  <2>4. msgBuffer' \in [Clients -> Message \union {Nothing}]
    BY <2>1, Zenon DEF TypeOK, ChunkSent
  <2>5. sendOffset' \in [Clients -> 0..MaxChunks]
    BY <2>1, <2>2, QueuesAssumption DEF TypeOK, ChunkSent
  <2>6. wire' \in [Clients -> Seq(Nat \X BOOLEAN \X BOOLEAN)]
    <3> DEFINE f == <<m.id, offset = 0, offset + 1 >= m.chunks>>
    <3>1. f \in Nat \X BOOLEAN \X BOOLEAN
      <4>1. (offset = 0) \in BOOLEAN /\ (offset + 1 >= m.chunks) \in BOOLEAN
        BY <2>2
      <4>2. \A a \in BOOLEAN, b \in BOOLEAN : <<m.id, a, b>> \in Nat \X BOOLEAN \X BOOLEAN
        BY <2>2
      <4> QED BY <4>1, <4>2, Zenon
    <3>2. wire' = [wire EXCEPT ![w] = Append(wire[w], f)]
      BY <2>1, Zenon DEF ChunkSent
    <3> HIDE DEF f
    <3> QED BY <3>1, <3>2 DEF TypeOK
  <2>7. armed' \subseteq Clients
    BY <2>1, Zenon DEF TypeOK, ChunkSent
  <2> QED BY <2>1, <2>3, <2>4, <2>5, <2>6, <2>7 DEF TypeOK, Writable, ChunkSent
<1> QED BY <1>1, <1>2, <1>3 DEF Writable

LEMMA TypeClient ==
    ASSUME TypeOK, NEW w \in Clients,
           \/ Connect(w) \/ Close(w) \/ PipeChanges(w) \/ BackOffPasses(w)
    PROVE  TypeOK'
<1>1. CASE Connect(w)
  BY <1>1 DEF TypeOK, Connect
<1>2. CASE Close(w)
  <2>1. Nothing \in Message \union {Nothing} /\ 0 \in 0..MaxChunks /\ <<>> \in Seq(Message)
    BY QueuesAssumption
  <2> HIDE DEF Nothing
  <2> QED BY <1>2, <2>1 DEF TypeOK, Close
<1>3. CASE PipeChanges(w)
  BY <1>3 DEF TypeOK, PipeChanges
<1>4. CASE BackOffPasses(w)
  BY <1>4 DEF TypeOK, BackOffPasses
<1> QED BY <1>1, <1>2, <1>3, <1>4

LEMMA TypeLogout ==
    ASSUME TypeOK, NEW w \in Clients, QueueIsEnd(w), ReceiveLogout(w)
    PROVE  TypeOK'
<1>1. Sent(w) \in Seq(Message)
  BY PiecesType
<1>2. owed' = [owed EXCEPT ![w] = Sent(w)] /\ messagesOut' = [messagesOut EXCEPT ![w] = <<>>]
  BY Zenon DEF ReceiveLogout, Sent
<1>3. owed' \in [Clients -> Seq(Message)] /\ messagesOut' \in [Clients -> Seq(Message)]
  BY <1>1, <1>2 DEF TypeOK
<1> QED BY <1>3 DEF TypeOK, ReceiveLogout

-----------------------------------------------------------------------------
(* The steps and the delivery, client by client. *)

Kept(w) == QueueIsEnd(w) /\ SentIsCut(w)

(* A step that leaves the queue, the buffer and the wire of a client alone. *)
LEMMA KeptUntouched ==
    ASSUME NEW w \in Clients, Kept(w),
           messagesOut'[w] = messagesOut[w], owed'[w] = owed[w], wire'[w] = wire[w],
           msgBuffer'[w] = msgBuffer[w], sendOffset'[w] = sendOffset[w]
    PROVE  Kept(w)'
<1>1. Sent(w)' = Sent(w) /\ RestOfBuffer(w)' = RestOfBuffer(w)
  BY Zenon DEF Sent, RestOfBuffer, DataPending
<1> QED BY <1>1, Zenon DEF Kept, QueueIsEnd, SentIsCut

(* A push: owed and queued, at the end of both. *)
LEMMA KeptPush ==
    ASSUME TypeOK, NEW w \in Clients, Kept(w), NEW m \in Message,
           messagesOut'[w] = Append(messagesOut[w], m), owed'[w] = Append(owed[w], m),
           wire'[w] = wire[w], msgBuffer'[w] = msgBuffer[w], sendOffset'[w] = sendOffset[w]
    PROVE  Kept(w)'
<1>1. messagesOut[w] \in Seq(Message) /\ Sent(w) \in Seq(Message)
  BY PiecesType DEF Kept
<1>2. owed'[w] = Sent(w) \o messagesOut'[w] /\ messagesOut'[w] \in Seq(Message)
  <2>1. Append(Sent(w) \o messagesOut[w], m) = Sent(w) \o Append(messagesOut[w], m)
    <3> DEFINE s == Sent(w)
               t == messagesOut[w]
    <3> HIDE DEF s, t
    <3>1. s \in Seq(Message) /\ t \in Seq(Message)
      BY <1>1 DEF s, t
    <3>2. s \o Append(t, m) = Append(s \o t, m)
      BY <3>1, ConcatAppend
    <3> QED BY <3>2, Zenon DEF s, t
  <2>2. Append(messagesOut[w], m) \in Seq(Message)
    BY <1>1, AppendProperties
  <2> QED BY <2>1, <2>2, Zenon DEF Kept, QueueIsEnd
<1>3. Sent(w)' = Sent(w)
  <2>1. SubSeq(Sent(w) \o messagesOut'[w], 1,
               Len(Sent(w) \o messagesOut'[w]) - Len(messagesOut'[w])) = Sent(w)
    BY <1>1, <1>2, ConcatPrefix
  <2> QED BY <1>2, <2>1, Zenon DEF Sent
<1>4. RestOfBuffer(w)' = RestOfBuffer(w)
  BY Zenon DEF RestOfBuffer, DataPending
<1> QED BY <1>2, <1>3, <1>4, Zenon DEF Kept, QueueIsEnd, SentIsCut

(* A logout: what was sent is what is owed. *)
LEMMA KeptLogout ==
    ASSUME TypeOK, NEW w \in Clients, Kept(w),
           messagesOut'[w] = <<>>, owed'[w] = Sent(w),
           wire'[w] = wire[w], msgBuffer'[w] = msgBuffer[w], sendOffset'[w] = sendOffset[w]
    PROVE  Kept(w)'
<1>1. Sent(w) \in Seq(Message) /\ <<>> \in Seq(Message)
  BY PiecesType DEF Kept
<1>2. Sent(w) \o <<>> = Sent(w)
  BY <1>1, ConcatEmptySeq
<1>3. Sent(w)' = Sent(w)
  <2>1. SubSeq(Sent(w) \o <<>>, 1, Len(Sent(w) \o <<>>) - Len(<<>>)) = Sent(w)
    BY <1>1, ConcatPrefix
  <2> QED BY <1>2, <2>1, Zenon DEF Sent
<1>4. RestOfBuffer(w)' = RestOfBuffer(w)
  BY Zenon DEF RestOfBuffer, DataPending
<1> QED BY <1>2, <1>3, <1>4, Zenon DEF Kept, QueueIsEnd, SentIsCut

(* A chunk.  If the buffer was empty, the message at the head of the queue *)
(* is sent from now on; in both cases the next frame goes to the wire.     *)
LEMMA KeptSendChunk ==
    ASSUME TypeOK, NEW w \in Clients, Kept(w), SendChunk(w), owed' = owed
    PROVE  Kept(w)'
<1> DEFINE Rest(m, offset) == SubSeq(Frames(m), offset + 1, m.chunks)
<1>1. PICK m \in Message, offset \in Nat, rest \in Seq(Message) :
         ChunkTaken(w, m, offset, rest) /\ ChunkSent(w, m, offset, rest)
  BY SendChunkParts, Zenon
<1>2. /\ messagesOut[w] \in Seq(Message) /\ Sent(w) \in Seq(Message)
      /\ wire[w] \in Seq(Frame)
      /\ owed[w] = Sent(w) \o messagesOut[w]
      /\ wire[w] \o RestOfBuffer(w) = FramesOf(Sent(w))
  BY PiecesType DEF Kept, QueueIsEnd, SentIsCut
<1>3. /\ Frames(m) \in Seq(Frame) /\ Len(Frames(m)) = m.chunks /\ m.chunks \in Nat \ {0}
  BY FramesType
(* The messages sent, with this one, and their frames. *)
<1>4. PICK done \in Seq(Message) :
         owed[w] = done \o rest /\ FramesOf(done) = wire[w] \o Rest(m, offset)
  <2>1. CASE ~DataPending(w)
    <3>1. /\ offset = 0 /\ messagesOut[w] # <<>> /\ m = Head(messagesOut[w])
          /\ rest = Tail(messagesOut[w])
      BY <1>1, <2>1 DEF ChunkTaken
    <3>2. Append(Sent(w), m) \in Seq(Message)
      BY <1>2, AppendProperties
    <3>3. owed[w] = Append(Sent(w), m) \o rest
      BY <1>2, <3>1, ConcatHeadTail
    <3>4. FramesOf(Append(Sent(w), m)) = FramesOf(Sent(w)) \o Frames(m)
      BY <1>2, FramesOfAppend
    <3>5. FramesOf(Sent(w)) = wire[w]
      <4>1. RestOfBuffer(w) = <<>>
        BY <2>1 DEF RestOfBuffer
      <4>2. wire[w] \o <<>> = wire[w]
        BY <1>2, ConcatEmptySeq
      <4> QED BY <1>2, <4>1, <4>2, Zenon
    <3>6. Rest(m, offset) = Frames(m)
      <4>1. SubSeq(Frames(m), 1, Len(Frames(m))) = Frames(m)
        BY <1>3, SubSeqFull
      <4>2. offset + 1 = 1
        BY <3>1
      <4> QED BY <1>3, <4>1, <4>2, Zenon
    <3> QED BY <3>2, <3>3, <3>4, <3>5, <3>6, Zenon
  <2>2. CASE DataPending(w)
    <3>1. offset = sendOffset[w] /\ m = msgBuffer[w] /\ rest = messagesOut[w]
      BY <1>1, <2>2 DEF ChunkTaken
    <3>2. RestOfBuffer(w) = Rest(m, offset)
      BY <2>2, <3>1, Zenon DEF RestOfBuffer
    <3> QED BY <1>2, <3>1, <3>2, Zenon
  <2> QED BY <2>1, <2>2
<1> DEFINE frame == <<m.id, offset = 0, offset + 1 >= m.chunks>>
           later == SubSeq(Frames(m), (offset + 1) + 1, m.chunks)
<1>5. /\ messagesOut'[w] = rest /\ owed'[w] = owed[w]
      /\ wire'[w] = Append(wire[w], frame)
  BY <1>1, Zenon DEF TypeOK, ChunkSent
<1>6. QueueIsEnd(w)' /\ Sent(w)' = done
  <2>1. SubSeq(done \o rest, 1, Len(done \o rest) - Len(rest)) = done
    BY ConcatPrefix
  <2>2. Sent(w)' = done
    BY <1>4, <1>5, <2>1, Zenon DEF Sent
  <2> QED BY <1>4, <1>5, <2>2, Zenon DEF QueueIsEnd
<1>7. Rest(m, offset) = <<frame>> \o later
  BY <1>1, NextFrame DEF ChunkTaken
<1>8. frame \in Frame /\ later \in Seq(Frame)
  <2>1. (offset = 0) \in BOOLEAN /\ (offset + 1 >= m.chunks) \in BOOLEAN
    BY <1>3
  <2>2. \A a \in BOOLEAN, b \in BOOLEAN : <<m.id, a, b>> \in Frame
    BY DEF Frame, Message
  <2>3. frame \in Frame
    BY <2>1, <2>2, Zenon
  <2>4. (offset + 1) + 1 \in Int /\ m.chunks \in Int
        /\ \A i \in (offset + 1) + 1..m.chunks : Frames(m)[i] \in Frame
    BY <1>3
  <2>5. later \in Seq(Frame)
    <3> DEFINE first == (offset + 1) + 1
               last == m.chunks
    <3>1. first \in Int /\ last \in Int /\ \A i \in first..last : Frames(m)[i] \in Frame
      BY <2>4
    <3> HIDE DEF first, last
    <3>2. SubSeq(Frames(m), first, last) \in Seq(Frame)
      BY <3>1, SubSeqProperties
    <3> QED BY <3>2 DEF first, last
  <2> QED BY <2>3, <2>5
<1>9. FramesOf(done) = wire'[w] \o later
  <2> DEFINE s == wire[w]
  <2> HIDE DEF frame, later, s
  <2>1. s \in Seq(Frame) /\ <<frame>> \in Seq(Frame) /\ later \in Seq(Frame)
    BY <1>2, <1>8 DEF s
  <2>2. (s \o <<frame>>) \o later = s \o (<<frame>> \o later)
    BY <2>1, ConcatAssociative
  <2>3. Append(s, frame) = s \o <<frame>>
    BY <1>8, <2>1, AppendIsConcat
  <2> QED BY <1>4, <1>5, <1>7, <2>2, <2>3, Zenon DEF s
<1>10. RestOfBuffer(w)' = later
  <2>1. CASE offset + 1 >= m.chunks
    <3>1. msgBuffer'[w] = Nothing /\ sendOffset'[w] = 0
      BY <1>1, <2>1, Zenon DEF TypeOK, ChunkSent
    <3>2. ~DataPending(w)'
      BY <3>1 DEF DataPending, Nothing
    <3>3. later = <<>>
      <4>1. (offset + 1) + 1 \in Int /\ m.chunks \in Int /\ m.chunks < (offset + 1) + 1
        BY <1>3, <2>1
      <4> DEFINE first == (offset + 1) + 1
                 last == m.chunks
      <4>2. first \in Int /\ last \in Int /\ last < first
        BY <4>1
      <4> HIDE DEF first, last
      <4>3. SubSeq(Frames(m), first, last) = <<>>
        BY <4>2, SubSeqEmpty
      <4> QED BY <4>3 DEF first, last
    <3> HIDE DEF later
    <3> QED BY <3>2, <3>3, Zenon DEF RestOfBuffer
  <2>2. CASE ~(offset + 1 >= m.chunks)
    <3>1. msgBuffer'[w] = m /\ sendOffset'[w] = offset + 1
      BY <1>1, <2>2, Zenon DEF TypeOK, ChunkSent
    <3>2. offset + 1 < m.chunks
      BY <1>3, <2>2
    <3> QED BY <3>1, <3>2, Zenon DEF RestOfBuffer, DataPending
  <2> QED BY <2>1, <2>2
<1> QED BY <1>6, <1>9, <1>10, Zenon DEF Kept, SentIsCut

-----------------------------------------------------------------------------
(* All steps. *)

IInv == TypeOK /\ DeliveryInv

LEMMA InvInit ==
    ASSUME Init
    PROVE  IInv
<1>1. TypeOK
  BY TypeInit
<1>2. ASSUME NEW w \in Clients PROVE Kept(w)
  <2>1. owed[w] = <<>> /\ messagesOut[w] = <<>> /\ wire[w] = <<>> /\ ~DataPending(w)
    BY DEF Init, DataPending, Nothing
  <2>2. <<>> \in Seq(Message) /\ <<>> \o <<>> = <<>>
    OBVIOUS
  <2>3. Sent(w) = <<>>
    <3>1. SubSeq(<<>> \o <<>>, 1, Len(<<>> \o <<>>) - Len(<<>>)) = <<>>
      BY <2>2, ConcatPrefix
    <3> QED BY <2>1, <2>2, <3>1, Zenon DEF Sent
  <2>4. RestOfBuffer(w) = <<>>
    BY <2>1, Zenon DEF RestOfBuffer
  <2> QED BY <2>1, <2>2, <2>3, <2>4, FramesOfEmpty, Zenon DEF Kept, QueueIsEnd, SentIsCut
<1> QED BY <1>1, <1>2, Zenon DEF IInv, DeliveryInv, Kept

(* The clients that are not gone are the ones that were not gone before. *)
LEMMA InvPush ==
    ASSUME IInv, Push
    PROVE  IInv'
<1>1. PICK chunks \in 1..MaxChunks, to \in SUBSET Clients : PushOutMessage(chunks, to)
  <2>1. OpenClients \subseteq Clients
    BY DEF OpenClients
  <2> QED BY <2>1, Zenon DEF Push
<1>2. TypeOK'
  BY <1>1, TypePush DEF IInv
<1> DEFINE m == [id |-> lastId + 1, chunks |-> chunks]
<1>3. m \in Message
  BY <1>1 DEF IInv, TypeOK, PushOutMessage, Message
<1>4. ASSUME NEW w \in Clients, Kept(w) PROVE Kept(w)'
  <2>1. wire'[w] = wire[w] /\ msgBuffer'[w] = msgBuffer[w] /\ sendOffset'[w] = sendOffset[w]
    BY <1>1, Zenon DEF PushOutMessage
  <2>2. CASE w \in to
    <3>1. messagesOut'[w] = Append(messagesOut[w], m) /\ owed'[w] = Append(owed[w], m)
      BY <1>1, <2>2, Zenon DEF PushOutMessage
    <3> HIDE DEF m
    <3> QED BY <1>3, <1>4, <2>1, <3>1, KeptPush DEF IInv
  <2>3. CASE w \notin to
    <3>1. messagesOut'[w] = messagesOut[w] /\ owed'[w] = owed[w]
      BY <1>1, <2>3, Zenon DEF PushOutMessage
    <3> QED BY <1>4, <2>1, <3>1, KeptUntouched
  <2> QED BY <2>2, <2>3
<1>5. conn' = conn
  BY <1>1 DEF PushOutMessage
<1> QED BY <1>2, <1>4, <1>5, Zenon DEF IInv, DeliveryInv, Kept

LEMMA InvPerformData ==
    ASSUME IInv, MainPerformData \/ LwsLoop
    PROVE  IInv'
<1>1. CASE ServiceDone
  <2>1. TypeOK'
    BY <1>1 DEF IInv, TypeOK, ServiceDone
  <2>2. UNCHANGED <<conn, messagesOut, msgBuffer, sendOffset, wire, owed>>
    BY <1>1 DEF ServiceDone
  <2>3. \A w \in Clients : Kept(w) => Kept(w)'
    BY <2>2, KeptUntouched
  <2> QED BY <2>1, <2>2, <2>3, Zenon DEF IInv, DeliveryInv, Kept
<1>2. CASE ~ServiceDone
  <2>1. PICK type \in {"mtPing", "mtData"} : PerformData(type)
    BY <1>2 DEF MainPerformData, LwsLoop, LwsPerformData, LwsPerformPing
  <2>2. /\ lwsPc' \in {"service", "data", "ping"} /\ pinged' \in BOOLEAN
        /\ mainPc' \in {"idle", "perform"}
    BY <1>2 DEF IInv, TypeOK, MainPerformData, LwsLoop, LwsPerformData, LwsPerformPing
  <2>3. TypeOK'
    BY <2>1, <2>2, TypePerformData DEF IInv
  <2>4. UNCHANGED <<conn, messagesOut, msgBuffer, sendOffset, wire, owed>>
    BY <2>1 DEF PerformData
  <2>5. \A w \in Clients : Kept(w) => Kept(w)'
    BY <2>4, KeptUntouched
  <2> QED BY <2>3, <2>4, <2>5, Zenon DEF IInv, DeliveryInv, Kept
<1> QED BY <1>1, <1>2

LEMMA InvWritable ==
    ASSUME IInv, NEW w \in Clients, Writable(w)
    PROVE  IInv'
<1>1. TypeOK'
  BY TypeWritable DEF IInv
<1>2. conn' = conn /\ owed' = owed /\ conn[w] = "open"
  BY DEF Writable
<1>3. ASSUME NEW v \in Clients, v # w, Kept(v) PROVE Kept(v)'
  <2>1. /\ messagesOut'[v] = messagesOut[v] /\ wire'[v] = wire[v]
        /\ msgBuffer'[v] = msgBuffer[v] /\ sendOffset'[v] = sendOffset[v]
    <3>1. CASE SendChunk(w)
      <4>1. PICK m \in Message, offset \in Nat, rest \in Seq(Message) :
               ChunkSent(w, m, offset, rest)
        BY <3>1, SendChunkParts, Zenon DEF IInv
      <4> QED BY <1>3, <4>1, Zenon DEF ChunkSent, IInv, TypeOK
    <3>2. CASE ~SendChunk(w)
      BY <3>2 DEF Writable, WritablePing, NothingToSend, PipeChoked
    <3> QED BY <3>1, <3>2
  <2> QED BY <1>2, <1>3, <2>1, KeptUntouched
<1>4. ASSUME Kept(w) PROVE Kept(w)'
  <2>1. CASE SendChunk(w)
    BY <1>2, <1>4, <2>1, KeptSendChunk DEF IInv
  <2>2. CASE ~SendChunk(w)
    <3>1. UNCHANGED <<messagesOut, wire, msgBuffer, sendOffset>>
      BY <2>2 DEF Writable, WritablePing, NothingToSend, PipeChoked
    <3> QED BY <1>2, <1>4, <3>1, KeptUntouched
  <2> QED BY <2>1, <2>2
<1> QED BY <1>1, <1>2, <1>3, <1>4, Zenon DEF IInv, DeliveryInv, Kept

LEMMA InvLogout ==
    ASSUME IInv, NEW w \in Clients, ReceiveLogout(w)
    PROVE  IInv'
<1>1. conn' = conn /\ conn[w] # "gone"
  BY DEF ReceiveLogout
<1>2. Kept(w)
  BY <1>1 DEF IInv, DeliveryInv, Kept
<1>3. TypeOK'
  BY <1>2, TypeLogout DEF IInv, Kept
<1>4. ASSUME NEW v \in Clients, v # w, Kept(v) PROVE Kept(v)'
  <2>1. messagesOut'[v] = messagesOut[v] /\ owed'[v] = owed[v]
    BY <1>4, Zenon DEF ReceiveLogout, IInv, TypeOK
  <2>2. UNCHANGED <<wire, msgBuffer, sendOffset>>
    BY DEF ReceiveLogout
  <2> QED BY <1>4, <2>1, <2>2, KeptUntouched
<1>5. Kept(w)'
  <2>1. messagesOut'[w] = <<>> /\ owed'[w] = Sent(w)
    BY Zenon DEF ReceiveLogout, IInv, TypeOK, Sent
  <2>2. UNCHANGED <<wire, msgBuffer, sendOffset>>
    BY DEF ReceiveLogout
  <2> QED BY <1>2, <2>1, <2>2, KeptLogout DEF IInv
<1> QED BY <1>1, <1>3, <1>4, <1>5, Zenon DEF IInv, DeliveryInv, Kept

LEMMA InvClient ==
    ASSUME IInv, NEW w \in Clients,
           Connect(w) \/ Close(w) \/ PipeChanges(w) \/ BackOffPasses(w)
    PROVE  IInv'
<1>1. TypeOK'
  BY TypeClient DEF IInv
<1>2. ASSUME NEW v \in Clients, Kept(v), conn'[v] # "gone"
      PROVE  Kept(v)'
  <2>1. /\ messagesOut'[v] = messagesOut[v] /\ wire'[v] = wire[v] /\ owed'[v] = owed[v]
        /\ msgBuffer'[v] = msgBuffer[v] /\ sendOffset'[v] = sendOffset[v]
    <3>1. CASE Close(w)
      <4>1. v # w
        BY <1>2, <3>1 DEF Close, IInv, TypeOK
      <4> QED BY <3>1, <4>1, Zenon DEF Close, IInv, TypeOK
    <3>2. CASE ~Close(w)
      BY <3>2 DEF Connect, PipeChanges, BackOffPasses
    <3> QED BY <3>1, <3>2
  <2> QED BY <1>2, <2>1, KeptUntouched
<1>3. ASSUME NEW v \in Clients, conn[v] = "gone" PROVE conn'[v] = "gone"
  BY <1>3 DEF IInv, TypeOK, Connect, Close, PipeChanges, BackOffPasses
<1> QED BY <1>1, <1>2, <1>3, Zenon DEF IInv, DeliveryInv, Kept

LEMMA InvNext ==
    ASSUME IInv, [Next]_vars
    PROVE  IInv'
<1>1. CASE Push
  BY <1>1, InvPush
<1>2. CASE MainPerformData \/ LwsLoop
  BY <1>2, InvPerformData
<1>3. ASSUME NEW w \in Clients, Writable(w) PROVE IInv'
  BY <1>3, InvWritable
<1>4. ASSUME NEW w \in Clients, ReceiveLogout(w) PROVE IInv'
  BY <1>4, InvLogout
<1>5. ASSUME NEW w \in Clients, Connect(w) \/ Close(w) \/ PipeChanges(w) \/ BackOffPasses(w)
      PROVE  IInv'
  BY <1>5, InvClient
<1>6. CASE UNCHANGED vars
  <2>1. UNCHANGED <<conn, messagesOut, msgBuffer, sendOffset, wire, owed>>
    BY <1>6 DEF vars
  <2>2. \A w \in Clients : Kept(w) => Kept(w)'
    BY <2>1, KeptUntouched
  <2>3. TypeOK'
    BY <1>6 DEF IInv, TypeOK, vars
  <2> QED BY <2>1, <2>2, <2>3, Zenon DEF IInv, DeliveryInv, Kept
<1> QED BY <1>1, <1>2, <1>3, <1>4, <1>5, <1>6, Zenon DEF Next

LEMMA Invariant == Spec => []IInv
<1>1. Init => IInv
  BY InvInit
<1>2. IInv /\ [Next]_vars => IInv'
  BY InvNext
<1> QED BY <1>1, <1>2, PTL DEF Spec

-----------------------------------------------------------------------------
(* The variables keep their types, for any number of browsers, messages    *)
(* and chunks.                                                             *)
THEOREM TypeCorrect == Spec => []TypeOK
<1>1. IInv => TypeOK
  BY DEF IInv
<1> QED BY <1>1, Invariant, PTL

(* What cWebSock pushes for an open client is sent or still to be sent,    *)
(* each message once, whole and in the order of the pushes, however the    *)
(* pushes, the callbacks for writing, the back-offs, the pings and the     *)
(* logouts follow each other.                                              *)
THEOREM DeliveredWhole == Spec => []NothingLostOrMixed
<1>1. IInv => NothingLostOrMixed
  BY InvariantDelivers DEF IInv
<1> QED BY <1>1, Invariant, PTL
=============================================================================
