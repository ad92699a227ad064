------------------------ MODULE MqttConnectionProofs ------------------------
(***************************************************************************)
(* Proofs about MqttConnection, for any number of refresh threads, faults, *)
(* addresses and descriptors and any size of the send buffer: the types,   *)
(* and that never two refresh threads work on one connection.              *)
(***************************************************************************)
EXTENDS MqttConnection, FiniteSetTheorems, TLAPS

-----------------------------------------------------------------------------
(* The inductive invariant, in parts about one object each.                *)

(* The threads that are there to stay, until they are told to end. *)
Busy(o) == {t \in Threads \ cancelled[o]: thread[o][t] # "none"}

(* Only the thread the object knows of is busy. *)
Alone(o) == Busy(o) \subseteq {mqtt[o].handle}

(* A thread that has left its loop is not cancelled any more. *)
EndingAlive(o) == \A t \in cancelled[o]: thread[o][t] # "ending"

(* The answer of a thread is there only when it is gone, but for an answer *)
(* from the connection before at the start of a new one.                   *)
Answered(o) == mqtt[o].closeNow = 2 /\ ~MainAt("init", o) => Busy(o) = {}

(* Who holds the lock. *)
Locks(o) ==
    /\ \A t \in Threads: lock[o] = t <=> thread[o][t] = "stop"
    /\ lock[o] = "main" <=> main.in = o /\ main.pc \in {"stop", "init", "connect"}

(* The thread of a connection that is given up has been told to end. *)
Told(o) ==
    mqtt[o].closeNow = 0 /\ ~mqtt[o].connected /\ ~MainAt("init", o) /\ ~MainAt("connect", o)
    => Busy(o) = {}

(* No cancelled thread is going to disconnect the connection of another    *)
(* one, and a connection that is given up has no thread.                   *)
Calm(o) ==
    /\ \/ Busy(o) = {} \/ \E t \in Busy(o): thread[o][t] = "stop"
       \/ \A t \in cancelled[o]: thread[o][t] \notin {"failed", "stop"}
    /\ lock[o] = "free" /\ ~mqtt[o].connected => Busy(o) = {}

(* Main is about to open the object's connection, now or after the writer's. *)
ToOpen(o) == main.in = o /\ (main.pc = "open" \/ (main.pc = "disconnect" /\ main.next = "open"))
WillOpen(o) ==
    \/ ToOpen(o)
    \/ o = "reader" /\ (ToOpen("writer") \/ MainAt("init", "writer") \/ MainAt("connect", "writer"))

(* The pause between two tries gives old threads the time to end (PauseEnds). *)
Paused(o) ==
    /\ ToOpen(o) => ~mqtt[o].connected
    /\ ToOpen(o) \/ MainAt("init", o) \/ MainAt("connect", o) => paused
    /\ ~paused \/ WillOpen(o) => Calm(o)

(* While main subscribes there is room in the buffer. *)
Room == main.pc = "subscribe" => mqtt["reader"].queue <= 1

ObjectInv(o) == Alone(o) /\ EndingAlive(o) /\ Answered(o) /\ Locks(o) /\ Told(o) /\ Paused(o)

IInv == /\ TypeOK
        /\ main.pc = "stop" => main.next # "open"
        /\ Room
        /\ \A o \in Mqtts: ObjectInv(o)

-----------------------------------------------------------------------------
(* The types. *)

MqttType == [connected: BOOLEAN, closeNow: 0..2, error: {"none", "full", "socket"},
             sock: {"none", "ok", "silent", "broken"}, queue: 0..SendBuffer,
             subscribed: BOOLEAN, handle: Threads \union {NoThread}]
MainType == [pc: {"idle", "disconnect", "stop", "open", "init", "connect", "subscribe", "delete"},
             in: Mqtts, next: {"idle", "open", "writer", "delete"}]
ThreadType == {"none", "run", "failed", "stop", "ending"}
HeardType == {"lately", "stale", "recovering"}

LEMMA TypeParts ==
    TypeOK <=>
    /\ broker \in BOOLEAN /\ faults \in 0..MaxFaults /\ leaked \in Nat /\ paused \in BOOLEAN
    /\ heard \in HeardType
    /\ mqtt \in [Mqtts -> MqttType]
    /\ lock \in [Mqtts -> Threads \union {"free", "main"}]
    /\ thread \in [Mqtts -> [Threads -> ThreadType]]
    /\ cancelled \in [Mqtts -> SUBSET Threads]
    /\ main \in MainType
  BY DEF TypeOK, MqttType, MainType, ThreadType, HeardType

LEMMA TypePartsNext ==
    ASSUME broker' \in BOOLEAN, faults' \in 0..MaxFaults, leaked' \in Nat, paused' \in BOOLEAN,
           heard' \in HeardType,
           mqtt' \in [Mqtts -> MqttType],
           lock' \in [Mqtts -> Threads \union {"free", "main"}],
           thread' \in [Mqtts -> [Threads -> ThreadType]],
           cancelled' \in [Mqtts -> SUBSET Threads],
           main' \in MainType
    PROVE  TypeOK'
  BY DEF TypeOK, MqttType, MainType, ThreadType, HeardType

LEMMA NewMqttType == NewMqtt \in MqttType
  BY BoundsAssumption DEF NewMqtt, MqttType, NoThread

LEMMA ContinueType == ASSUME main \in MainType PROVE Continue \in MainType
  BY DEF MainType, Continue, At, Idle, Mqtts

(* One object is changed to n. *)
LEMMA ChangedObject ==
    ASSUME mqtt \in [Mqtts -> MqttType], NEW o \in Mqtts, NEW n \in MqttType,
           mqtt' = [mqtt EXCEPT ![o] = n]
    PROVE  /\ mqtt' \in [Mqtts -> MqttType] /\ mqtt'[o] = n
           /\ \A x \in Mqtts: x # o => mqtt'[x] = mqtt[x]
  OBVIOUS

(* Single fields of an object. *)
LEMMA SetSocket ==
    ASSUME NEW r \in MqttType, NEW v \in {"none", "ok", "silent", "broken"}
    PROVE  LET n == [r EXCEPT !.sock = v]
           IN n \in MqttType /\ n.connected = r.connected /\ n.closeNow = r.closeNow
              /\ n.handle = r.handle /\ n.queue = r.queue
  BY DEF MqttType

LEMMA SetQueue ==
    ASSUME NEW r \in MqttType, NEW q \in 0..SendBuffer
    PROVE  LET n == [r EXCEPT !.queue = q]
           IN n \in MqttType /\ n.connected = r.connected /\ n.closeNow = r.closeNow
              /\ n.handle = r.handle /\ n.queue = q
  BY DEF MqttType

LEMMA SetError ==
    ASSUME NEW r \in MqttType, NEW e \in {"none", "full", "socket"}
    PROVE  LET n == [r EXCEPT !.error = e]
           IN n \in MqttType /\ n.connected = r.connected /\ n.closeNow = r.closeNow
              /\ n.handle = r.handle /\ n.queue = r.queue
  BY DEF MqttType

LEMMA SetSubscribed ==
    ASSUME NEW r \in MqttType, NEW b \in BOOLEAN
    PROVE  LET n == [r EXCEPT !.subscribed = b]
           IN n \in MqttType /\ n.connected = r.connected /\ n.closeNow = r.closeNow
              /\ n.handle = r.handle /\ n.queue = r.queue
  BY DEF MqttType

LEMMA SetConnected ==
    ASSUME NEW r \in MqttType, NEW b \in BOOLEAN
    PROVE  LET n == [r EXCEPT !.connected = b]
           IN n \in MqttType /\ n.connected = b /\ n.closeNow = r.closeNow
              /\ n.handle = r.handle /\ n.queue = r.queue
  BY DEF MqttType

LEMMA SetCloseNow ==
    ASSUME NEW r \in MqttType, NEW c \in 0..2
    PROVE  LET n == [r EXCEPT !.closeNow = c]
           IN n \in MqttType /\ n.connected = r.connected /\ n.closeNow = c
              /\ n.handle = r.handle /\ n.queue = r.queue
  BY DEF MqttType

LEMMA SetHandle ==
    ASSUME NEW r \in MqttType, NEW t \in Threads \union {NoThread}
    PROVE  LET n == [r EXCEPT !.handle = t]
           IN n \in MqttType /\ n.connected = r.connected /\ n.closeNow = r.closeNow
              /\ n.handle = t /\ n.queue = r.queue
  BY DEF MqttType

LEMMA RequestEffect ==
    ASSUME TypeOK, NEW o \in Mqtts, NEW who \in Threads \union {"main"}, Request(o, who)
    PROVE  /\ mqtt' \in [Mqtts -> MqttType] /\ lock' \in [Mqtts -> Threads \union {"free", "main"}]
           /\ ~mqtt'[o].connected /\ mqtt'[o].closeNow = 1 /\ mqtt'[o].handle = mqtt[o].handle
           /\ lock'[o] = who /\ mqtt'[o].queue = mqtt[o].queue
           /\ \A x \in Mqtts: x # o => mqtt'[x] = mqtt[x] /\ lock'[x] = lock[x]
  <1>1. mqtt \in [Mqtts -> MqttType] /\ lock \in [Mqtts -> Threads \union {"free", "main"}]
    BY TypeParts
  <1> DEFINE n == [mqtt[o] EXCEPT !.connected = FALSE, !.closeNow = 1]
  <1>2. mqtt[o] \in MqttType
    BY <1>1
  <1>3. /\ n \in MqttType /\ ~n.connected /\ n.closeNow = 1 /\ n.handle = mqtt[o].handle
        /\ n.queue = mqtt[o].queue
    <2> DEFINE m == [mqtt[o] EXCEPT !.connected = FALSE]
    <2>1. m \in MqttType /\ ~m.connected /\ m.handle = mqtt[o].handle /\ m.queue = mqtt[o].queue
      BY <1>2 DEF MqttType
    <2>2. n = [m EXCEPT !.closeNow = 1]
      OBVIOUS
    <2> HIDE DEF m, n
    <2> QED
      BY <2>1, <2>2 DEF MqttType
  <1>4. mqtt' = [mqtt EXCEPT ![o] = n]
    BY <1>1 DEF Request
  <1> HIDE DEF n
  <1> QED
    BY <1>1, <1>3, <1>4, ChangedObject DEF Request

LEMMA CloseSocketEffect ==
    ASSUME TypeOK, NEW o \in Mqtts, CloseSocket(o)
    PROVE  /\ mqtt' \in [Mqtts -> MqttType] /\ lock' \in [Mqtts -> Threads \union {"free", "main"}]
           /\ mqtt'[o].connected = mqtt[o].connected /\ mqtt'[o].closeNow = mqtt[o].closeNow
           /\ mqtt'[o].handle = NoThread /\ mqtt'[o].queue = 0 /\ lock'[o] = "free"
           /\ \A x \in Mqtts: x # o => mqtt'[x] = mqtt[x] /\ lock'[x] = lock[x]
  <1>1. mqtt \in [Mqtts -> MqttType] /\ lock \in [Mqtts -> Threads \union {"free", "main"}]
    BY TypeParts
  <1> DEFINE a == [mqtt[o] EXCEPT !.handle = NoThread]
             b == [a EXCEPT !.sock = "none"]
             c == [b EXCEPT !.error = "none"]
             d == [c EXCEPT !.queue = 0]
             n == [d EXCEPT !.subscribed = FALSE]
  <1>2. mqtt[o] \in MqttType /\ 0 \in 0..SendBuffer
    BY <1>1, BoundsAssumption
  <1>3. mqtt' = [mqtt EXCEPT ![o] = n]
    BY <1>1 DEF CloseSocket
  <1>4. /\ n \in MqttType /\ n.handle = NoThread /\ n.queue = 0
        /\ n.connected = mqtt[o].connected /\ n.closeNow = mqtt[o].closeNow
    <2>1. a \in MqttType /\ a.handle = NoThread
          /\ a.connected = mqtt[o].connected /\ a.closeNow = mqtt[o].closeNow
      BY <1>2, SetHandle
    <2> HIDE DEF a
    <2>2. b \in MqttType /\ b.handle = a.handle /\ b.connected = a.connected /\ b.closeNow = a.closeNow
      BY <2>1, SetSocket
    <2> HIDE DEF b
    <2>3. c \in MqttType /\ c.handle = b.handle /\ c.connected = b.connected /\ c.closeNow = b.closeNow
      BY <2>2, SetError
    <2> HIDE DEF c
    <2>4. d \in MqttType /\ d.handle = c.handle /\ d.connected = c.connected /\ d.closeNow = c.closeNow
          /\ d.queue = 0
      BY <1>2, <2>3, SetQueue
    <2> HIDE DEF d
    <2>5. n \in MqttType /\ n.handle = d.handle /\ n.connected = d.connected
          /\ n.closeNow = d.closeNow /\ n.queue = d.queue
      BY <2>4, SetSubscribed
    <2> HIDE DEF n
    <2> QED
      BY <2>1, <2>2, <2>3, <2>4, <2>5
  <1> HIDE DEF n
  <1> QED
    BY <1>1, <1>3, <1>4, ChangedObject DEF CloseSocket

-----------------------------------------------------------------------------
(* How the parts about an object are kept. *)

SameObject(x) == /\ mqtt'[x].connected = mqtt[x].connected
                 /\ mqtt'[x].closeNow = mqtt[x].closeNow
                 /\ mqtt'[x].handle = mqtt[x].handle
Same(x) == SameObject(x) /\ lock'[x] = lock[x] /\ thread'[x] = thread[x] /\ cancelled'[x] = cancelled[x]

(* Main is about an opening of the object only when it may be. *)
MainFits(x) ==
    /\ ToOpen(x)' => ~mqtt'[x].connected
    /\ ToOpen(x)' \/ MainAt("init", x)' \/ MainAt("connect", x)' => paused'

LEMMA FrameObject ==
    ASSUME NEW x \in Mqtts, ObjectInv(x), Same(x), MainFits(x),
           MainAt("init", x)' <=> MainAt("init", x),
           MainAt("connect", x)' <=> MainAt("connect", x),
           MainAt("stop", x)' <=> MainAt("stop", x),
           ~paused' \/ WillOpen(x)' => ~paused \/ WillOpen(x)
    PROVE  ObjectInv(x)'
  <1>1. Busy(x)' = Busy(x)
    BY DEF Busy, Same
  <1>2. Alone(x)' /\ EndingAlive(x)'
    BY <1>1 DEF ObjectInv, Alone, EndingAlive, Same, SameObject
  <1>3. Answered(x)' /\ Told(x)'
    BY <1>1 DEF ObjectInv, Answered, Told, Same, SameObject
  <1>4. Locks(x)'
    BY DEF ObjectInv, Locks, Same, MainAt
  <1>5. Calm(x) => Calm(x)'
    BY <1>1 DEF Calm, Same, SameObject
  <1>6. Paused(x)'
    BY <1>5 DEF ObjectInv, Paused, MainFits
  <1> QED
    BY <1>2, <1>3, <1>4, <1>6 DEF ObjectInv

(* An object without a busy thread. *)
LEMMA QuietObject ==
    ASSUME NEW x \in Mqtts, Busy(x)' = {}, EndingAlive(x)', Locks(x)', MainFits(x)
    PROVE  ObjectInv(x)'
  BY DEF ObjectInv, Alone, Answered, Told, Paused, Calm, MainFits

(* Main goes on with something else than opening, the objects stay. *)
LEMMA MainElsewhere ==
    ASSUME NEW x \in Mqtts, ObjectInv(x), Same(x), UNCHANGED paused,
           main.pc \notin {"init", "connect", "stop"},
           main'.pc \in {"idle", "delete"} \/ (main'.pc = "disconnect" /\ main'.next # "open")
    PROVE  ObjectInv(x)'
  <1>1. /\ ~ToOpen(x)' /\ ~WillOpen(x)'
        /\ \A pc \in {"init", "connect", "stop"}: ~MainAt(pc, x) /\ ~MainAt(pc, x)'
    BY DEF ToOpen, WillOpen, MainAt
  <1>2. MainFits(x)
    BY <1>1 DEF MainFits
  <1> QED
    BY <1>1, <1>2, FrameObject

(* Main stays where it is. *)
LEMMA MainStays ==
    ASSUME NEW x \in Mqtts, ObjectInv(x), Same(x), UNCHANGED <<main, paused>>
    PROVE  ObjectInv(x)'
  <1>1. MainFits(x)
    BY DEF MainFits, ObjectInv, Paused, Same, SameObject, ToOpen, MainAt
  <1> QED
    BY <1>1, FrameObject DEF MainAt, WillOpen, ToOpen

-----------------------------------------------------------------------------
(* The network and the broker: sockets fail, nothing else changes.         *)

LEMMA SocketsOnly ==
    ASSUME IInv, UNCHANGED <<lock, thread, cancelled, leaked, main, paused, heard>>,
           broker' \in BOOLEAN, faults' \in 0..MaxFaults,
           mqtt' \in [Mqtts -> MqttType],
           \A x \in Mqtts: SameObject(x) /\ mqtt'[x].queue = mqtt[x].queue
    PROVE  IInv'
  <1>1. TypeOK'
    BY TypeParts, TypePartsNext DEF IInv
  <1>2. \A x \in Mqtts: ObjectInv(x)'
    BY MainStays DEF IInv, Same
  <1>3. Room'
    BY DEF IInv, Room, Mqtts
  <1> QED
    BY <1>1, <1>2, <1>3 DEF IInv

LEMMA NetworkStep ==
    ASSUME IInv,
           (\E o \in Mqtts: Break(o) \/ Reset(o)) \/ BrokerDown \/ BrokerUp
    PROVE  IInv'
  <1>1. /\ mqtt \in [Mqtts -> MqttType] /\ broker \in BOOLEAN
        /\ faults \in 0..MaxFaults /\ MaxFaults \in Nat
    BY TypeParts, BoundsAssumption DEF IInv
  <1>2. faults < MaxFaults => faults + 1 \in 0..MaxFaults
    BY <1>1
  <1>3. ASSUME NEW o \in Mqtts, Break(o) \/ Reset(o)
        PROVE  IInv'
    <2>1. PICK v \in {"silent", "broken"}: mqtt' = [mqtt EXCEPT ![o].sock = v]
      BY <1>3 DEF Break, Reset
    <2> DEFINE n == [mqtt[o] EXCEPT !.sock = v]
    <2>2. mqtt[o] \in MqttType /\ v \in {"none", "ok", "silent", "broken"}
      BY <1>1
    <2>3. n \in MqttType /\ n.connected = mqtt[o].connected /\ n.closeNow = mqtt[o].closeNow
          /\ n.handle = mqtt[o].handle /\ n.queue = mqtt[o].queue
      BY <2>2, SetSocket
    <2>4. mqtt' = [mqtt EXCEPT ![o] = n]
      BY <1>1, <2>1
    <2> HIDE DEF n
    <2>5. mqtt' \in [Mqtts -> MqttType]
          /\ \A x \in Mqtts: SameObject(x) /\ mqtt'[x].queue = mqtt[x].queue
      BY <1>1, <2>3, <2>4 DEF SameObject
    <2>6. faults' \in 0..MaxFaults /\ UNCHANGED <<broker, lock, thread, cancelled, leaked, main, paused, heard>>
      BY <1>1, <1>2, <1>3 DEF Break, Reset, environment
    <2> QED
      BY <1>1, <2>5, <2>6, SocketsOnly
  <1>4. CASE BrokerDown
    <2> DEFINE v == "silent"
    <2>1. mqtt' = [o \in Mqtts |-> IF mqtt[o].sock = "ok" THEN [mqtt[o] EXCEPT !.sock = v] ELSE mqtt[o]]
      BY <1>4 DEF BrokerDown
    <2>2. ASSUME NEW x \in Mqtts
          PROVE  mqtt'[x] \in MqttType /\ SameObject(x) /\ mqtt'[x].queue = mqtt[x].queue
      <3>1. mqtt[x] \in MqttType /\ v \in {"none", "ok", "silent", "broken"}
        BY <1>1
      <3>2. mqtt'[x] = mqtt[x] \/ mqtt'[x] = [mqtt[x] EXCEPT !.sock = v]
        BY <2>1
      <3>3. CASE mqtt'[x] = mqtt[x]
        BY <3>1, <3>3 DEF SameObject
      <3>4. CASE mqtt'[x] = [mqtt[x] EXCEPT !.sock = v]
        <4> DEFINE n == [mqtt[x] EXCEPT !.sock = v]
        <4>1. n \in MqttType /\ n.connected = mqtt[x].connected /\ n.closeNow = mqtt[x].closeNow
              /\ n.handle = mqtt[x].handle /\ n.queue = mqtt[x].queue
          BY <3>1, SetSocket
        <4>2. mqtt'[x] = n
          BY <3>4
        <4> HIDE DEF n
        <4> QED
          BY <4>1, <4>2 DEF SameObject
      <3> QED
        BY <3>2, <3>3, <3>4
    <2>3. mqtt' \in [Mqtts -> MqttType]
      BY <2>1, <2>2
    <2>4. broker' \in BOOLEAN /\ faults' \in 0..MaxFaults
          /\ UNCHANGED <<lock, thread, cancelled, leaked, main, paused, heard>>
      BY <1>2, <1>4 DEF BrokerDown
    <2> QED
      BY <2>2, <2>3, <2>4, SocketsOnly
  <1>5. CASE BrokerUp
    <2>1. broker' \in BOOLEAN /\ UNCHANGED <<faults, mqtt, lock, thread, cancelled, leaked, main, paused, heard>>
      BY <1>5 DEF BrokerUp
    <2>2. \A x \in Mqtts: SameObject(x) /\ mqtt'[x].queue = mqtt[x].queue
      BY <2>1 DEF SameObject
    <2> QED
      BY <1>1, <2>1, <2>2, SocketsOnly
  <1> QED
    BY <1>3, <1>4, <1>5

-----------------------------------------------------------------------------
(* Main. *)

LEMMA ContinueCases ==
    \/ main.next = "open" /\ Continue = At("open", main.in, "idle")
    \/ main.next # "open" /\ Continue \in {At("disconnect", "writer", "delete"),
                                           At("delete", "writer", "idle"), Idle}
  BY DEF Continue

LEMMA MainDisconnectStep ==
    ASSUME IInv, NEW o \in Mqtts, MainDisconnect(o)
    PROVE  IInv'
  <1>1. TypeOK /\ \A x \in Mqtts: ObjectInv(x)
    BY DEF IInv
  <1>2. main.pc = "disconnect" /\ main.in = o /\ lock[o] = "free"
        /\ UNCHANGED <<broker, faults, thread, cancelled, leaked, paused, heard>>
    BY DEF MainDisconnect, MainAt, environment
  <1>3. ASSUME ~mqtt[o].connected, main' = Continue, UNCHANGED <<mqtt, lock>>
        PROVE  IInv'
    <2>1. TypeOK'
      BY <1>1, <1>2, <1>3, TypeParts, ContinueType, TypePartsNext
    <2>2. \/ main.next = "open" /\ main'.pc = "open" /\ main'.in = o
          \/ main'.pc = "disconnect" /\ main'.next = "delete"
          \/ main'.pc \in {"delete", "idle"}
      BY <1>2, <1>3, ContinueCases DEF At, Idle
    <2>3. ASSUME NEW x \in Mqtts PROVE ObjectInv(x)'
      <3>1. ToOpen(x)' => ToOpen(x) /\ x = o
        BY <1>2, <2>2 DEF ToOpen
      <3>2. ToOpen("writer")' => ToOpen("writer")
        BY <1>2, <2>2 DEF ToOpen
      <3>3. \A pc \in {"init", "connect", "stop"}, y \in Mqtts: ~MainAt(pc, y) /\ ~MainAt(pc, y)'
        BY <1>2, <2>2 DEF MainAt
      <3>4. Same(x)
        BY <1>2, <1>3 DEF Same, SameObject
      <3>5. MainFits(x)
        BY <1>1, <1>2, <1>3, <3>1, <3>3 DEF MainFits, ObjectInv, Paused
      <3>6. WillOpen(x)' => WillOpen(x)
        BY <3>1, <3>2, <3>3 DEF WillOpen, Mqtts
      <3> QED
        BY <1>1, <1>2, <3>3, <3>4, <3>5, <3>6, FrameObject
    <2> QED
      BY <2>1, <2>2, <2>3 DEF IInv, Room
  <1>4. ASSUME mqtt[o].connected, Request(o, "main"), main' = [main EXCEPT !.pc = "stop"]
        PROVE  IInv'
    <2>1. main \in MainType /\ main' \in MainType
          /\ main'.pc = "stop" /\ main'.in = o /\ main'.next = main.next
      BY <1>1, <1>2, <1>4, TypeParts DEF MainType
    <2>2. TypeOK'
      BY <1>1, <1>2, <1>4, <2>1, RequestEffect, TypeParts, TypePartsNext
    <2>3. main.next # "open"
      BY <1>1, <1>2, <1>4 DEF ObjectInv, Paused, ToOpen
    <2>4. ASSUME NEW x \in Mqtts, x # o PROVE ObjectInv(x)'
      <3>1. Same(x)
        BY <1>1, <1>2, <1>4, <2>4, RequestEffect DEF Same, SameObject
      <3>2. \A pc \in {"init", "connect", "stop"}: ~MainAt(pc, x) /\ ~MainAt(pc, x)'
        BY <1>2, <2>1, <2>4 DEF MainAt
      <3>3. ~ToOpen(x)' /\ ~WillOpen(x)'
        BY <1>2, <2>1, <2>4 DEF ToOpen, WillOpen, MainAt
      <3>4. MainFits(x)
        BY <3>2, <3>3 DEF MainFits
      <3> QED
        BY <1>1, <1>2, <3>1, <3>2, <3>3, <3>4, FrameObject
    <2>5. ObjectInv(o)'
      <3>1. mqtt'[o].closeNow = 1 /\ mqtt'[o].handle = mqtt[o].handle /\ lock'[o] = "main"
        BY <1>1, <1>4, RequestEffect
      <3>2. Busy(o)' = Busy(o)
        BY <1>2 DEF Busy
      <3>3. Alone(o)' /\ EndingAlive(o)' /\ Answered(o)' /\ Told(o)'
        BY <1>1, <1>2, <3>1, <3>2 DEF ObjectInv, Alone, EndingAlive, Answered, Told
      <3>4. Locks(o)'
        BY <1>1, <1>2, <2>1, <3>1, ThreadsAssumption DEF ObjectInv, Locks
      <3>5. Calm(o) => Calm(o)'
        BY <1>2, <3>1, <3>2 DEF Calm
      <3>6. ~ToOpen(o)' /\ ~MainAt("init", o)' /\ ~MainAt("connect", o)' /\ ~WillOpen(o)'
        BY <2>1 DEF ToOpen, WillOpen, MainAt
      <3>7. Paused(o)'
        BY <1>1, <1>2, <3>5, <3>6 DEF ObjectInv, Paused
      <3> QED
        BY <3>3, <3>4, <3>7 DEF ObjectInv
    <2> QED
      BY <2>1, <2>2, <2>3, <2>4, <2>5 DEF IInv, Room
  <1> QED
    BY <1>3, <1>4 DEF MainDisconnect

LEMMA MainStoppedStep ==
    ASSUME IInv, NEW o \in Mqtts, MainStopped(o)
    PROVE  IInv'
  <1>1. TypeOK /\ \A x \in Mqtts: ObjectInv(x)
    BY DEF IInv
  <1>2. /\ main.pc = "stop" /\ main.in = o /\ main.next # "open"
        /\ WaitOver(o, "main") /\ CloseSocket(o) /\ main' = Continue
        /\ UNCHANGED <<broker, faults, thread, leaked, paused, heard>>
    BY DEF IInv, MainStopped, MainAt, environment
  <1>3. /\ CancelHandle(o) \subseteq Threads
        /\ cancelled \in [Mqtts -> SUBSET Threads]
        /\ cancelled' = [cancelled EXCEPT ![o] = @ \union CancelHandle(o)]
    BY <1>1, TypeParts DEF MainStopped, CancelHandle
  <1>4. /\ cancelled' \in [Mqtts -> SUBSET Threads]
        /\ cancelled'[o] = cancelled[o] \union CancelHandle(o)
        /\ \A x \in Mqtts: x # o => cancelled'[x] = cancelled[x]
    BY <1>3
  <1>5. TypeOK'
    BY <1>1, <1>2, <1>4, CloseSocketEffect, TypeParts, ContinueType, TypePartsNext
  <1>6. main'.pc \in {"delete", "idle"} \/ (main'.pc = "disconnect" /\ main'.next = "delete")
    BY <1>2, ContinueCases DEF At, Idle
  <1>7. \A x \in Mqtts: /\ ~ToOpen(x)' /\ ~WillOpen(x)'
                         /\ \A pc \in {"init", "connect", "stop"}: ~MainAt(pc, x)'
    BY <1>6 DEF ToOpen, WillOpen, MainAt
  <1>8. \A x \in Mqtts: MainFits(x)
    BY <1>7 DEF MainFits
  <1>9. ASSUME NEW x \in Mqtts, x # o PROVE ObjectInv(x)'
    <2>1. Same(x)
      BY <1>1, <1>2, <1>4, <1>9, CloseSocketEffect DEF Same, SameObject
    <2>2. \A pc \in {"init", "connect", "stop"}: ~MainAt(pc, x)
      BY <1>2, <1>9 DEF MainAt
    <2> QED
      BY <1>1, <1>2, <1>7, <1>8, <2>1, <2>2, FrameObject
  <1>10. ObjectInv(o)'
    <2>1. lock[o] = "main" /\ lock'[o] = "free" /\ \A t \in Threads: thread[o][t] # "stop"
      BY <1>1, <1>2, CloseSocketEffect, ThreadsAssumption DEF ObjectInv, Locks
    <2>2. Busy(o)' = {}
      <3>1. Busy(o)' \subseteq Busy(o) \ CancelHandle(o)
        BY <1>2, <1>4 DEF Busy
      <3>2. CASE mqtt[o].closeNow = 2
        BY <1>1, <1>2, <3>1, <3>2 DEF ObjectInv, Answered, MainAt
      <3>3. CASE mqtt[o].closeNow # 2
        BY <1>1, <3>1, <3>3 DEF ObjectInv, Alone, CancelHandle, Busy
      <3> QED
        BY <3>2, <3>3
    <2>3. EndingAlive(o)'
      <3>1. mqtt[o].closeNow # 2 => \A t \in Threads: thread[o][t] # "ending"
        BY <1>2, ThreadsAssumption DEF WaitOver
      <3>2. \A t \in CancelHandle(o): thread[o][t] # "ending"
        BY <1>3, <3>1 DEF CancelHandle
      <3> QED
        BY <1>1, <1>2, <1>4, <3>2 DEF ObjectInv, EndingAlive
    <2>4. Locks(o)'
      BY <1>2, <1>6, <2>1, ThreadsAssumption DEF Locks
    <2> QED
      BY <1>8, <2>2, <2>3, <2>4, QuietObject
  <1> QED
    BY <1>5, <1>6, <1>9, <1>10 DEF IInv, Room

LEMMA CheckConnectionStep ==
    ASSUME IInv, CheckConnection
    PROVE  IInv'
  <1>1. TypeOK /\ \A x \in Mqtts: ObjectInv(x)
    BY DEF IInv
  <1>2. PICK o \in Mqtts: ~mqtt[o].connected /\ main' = At("disconnect", o, "open")
    BY DEF CheckConnection
  <1>3. /\ main.pc = "idle" /\ ~paused /\ paused'
        /\ UNCHANGED <<broker, faults, mqtt, lock, thread, cancelled, leaked, heard>>
    BY DEF CheckConnection, environment
  <1>4. main' \in MainType /\ main'.pc = "disconnect" /\ main'.in = o
    BY <1>2 DEF At, MainType
  <1>5. paused' \in BOOLEAN
    BY DEF CheckConnection
  <1>6. TypeOK'
    BY <1>1, <1>3, <1>4, <1>5, TypeParts, TypePartsNext
  <1>7. ASSUME NEW x \in Mqtts PROVE ObjectInv(x)'
    <2>1. Same(x) /\ MainFits(x)
      BY <1>2, <1>3, <1>4 DEF Same, SameObject, MainFits, ToOpen
    <2>2. \A pc \in {"init", "connect", "stop"}: ~MainAt(pc, x) /\ ~MainAt(pc, x)'
      BY <1>3, <1>4 DEF MainAt
    <2> QED
      BY <1>1, <1>3, <2>1, <2>2, FrameObject
  <1> QED
    BY <1>4, <1>6, <1>7 DEF IInv, Room

LEMMA PauseEndsStep ==
    ASSUME IInv, PauseEnds
    PROVE  IInv'
  <1>1. TypeOK /\ \A x \in Mqtts: ObjectInv(x)
    BY DEF IInv
  <1>2. /\ main.pc = "idle" /\ paused' = FALSE
        /\ UNCHANGED <<broker, faults, mqtt, lock, thread, cancelled, leaked, main, heard>>
    BY DEF PauseEnds, environment
  <1>3. TypeOK'
    BY <1>1, <1>2, TypeParts, TypePartsNext
  <1>4. ASSUME NEW x \in Mqtts PROVE ObjectInv(x)'
    <2>1. \A t \in Threads: \/ thread[x][t] = "none"
                            \/ thread[x][t] = "run" /\ mqtt[x].closeNow = 0 /\ t \notin cancelled[x]
                            \/ thread[x][t] = "failed" /\ lock[x] # "free"
                            \/ thread[x][t] = "stop" /\ t \notin cancelled[x]
      <3>1. \A t \in Threads: thread[x][t] \in ThreadType /\ ~Due(x, t)
        BY <1>1, TypeParts DEF PauseEnds
      <3> QED
        BY <3>1 DEF Due, ThreadType
    <2>2. \A pc \in {"init", "connect"}: ~MainAt(pc, x)
      BY <1>2 DEF MainAt
    <2>3. ~ToOpen(x)'
      BY <1>2 DEF ToOpen
    <2>4. lock[x] # "main" /\ lock[x] \in Threads \union {"free", "main"}
          /\ cancelled[x] \subseteq Threads
      BY <1>1, <1>2, TypeParts DEF ObjectInv, Locks
    <2>5. lock[x] = "free" => \A t \in Threads: thread[x][t] # "stop"
      BY <1>1, ThreadsAssumption DEF ObjectInv, Locks
    <2>6. lock[x] # "free" => lock[x] \in Busy(x) /\ thread[x][lock[x]] = "stop"
      BY <1>1, <2>1, <2>4 DEF ObjectInv, Locks, Busy
    <2>7. CASE lock[x] = "free"
      <3>1. \A t \in cancelled[x]: thread[x][t] \notin {"failed", "stop"}
        BY <2>1, <2>4, <2>5, <2>7
      <3>2. ~mqtt[x].connected => Busy(x) = {}
        BY <1>1, <2>1, <2>2, <2>5, <2>7 DEF ObjectInv, Told, Busy
      <3> QED
        BY <1>1, <1>2, <2>2, <2>3, <3>1, <3>2
           DEF ObjectInv, Alone, EndingAlive, Answered, Locks, Told, Paused, Calm, Busy, MainAt
    <2>8. CASE lock[x] # "free"
      <3>1. \E t \in Busy(x): thread[x][t] = "stop"
        BY <2>6, <2>8
      <3> QED
        BY <1>1, <1>2, <2>2, <2>3, <2>8, <3>1
           DEF ObjectInv, Alone, EndingAlive, Answered, Locks, Told, Paused, Calm, Busy, MainAt
    <2> QED
      BY <2>7, <2>8
  <1> QED
    BY <1>2, <1>3, <1>4 DEF IInv, Room

LEMMA WatchdogStep ==
    ASSUME IInv, Watchdog
    PROVE  IInv'
  <1>1. TypeOK /\ \A x \in Mqtts: ObjectInv(x)
    BY DEF IInv
  <1>2. /\ main.pc = "idle" /\ main' = At("disconnect", "reader", "writer")
        /\ UNCHANGED <<broker, faults, mqtt, lock, thread, cancelled, leaked, paused>>
        /\ heard' = "recovering"
    BY DEF Watchdog, environment
  <1>3. main' \in MainType /\ main'.pc = "disconnect" /\ main'.next = "writer"
    BY <1>2 DEF At, MainType, Mqtts
  <1>4. TypeOK'
    BY <1>1, <1>2, <1>3, TypeParts, TypePartsNext DEF HeardType
  <1>5. \A x \in Mqtts: Same(x)
    BY <1>2 DEF Same, SameObject
  <1>6. \A x \in Mqtts: ObjectInv(x)'
    BY <1>1, <1>2, <1>3, <1>5, MainElsewhere
  <1> QED
    BY <1>3, <1>4, <1>6 DEF IInv, Room

(* Messages come or stay away. *)
LEMMA HeardStep ==
    ASSUME IInv, Read \/ Silence \/ RecoverEnds
    PROVE  IInv'
  <1>1. TypeOK /\ \A x \in Mqtts: ObjectInv(x)
    BY DEF IInv
  <1>2. heard' \in HeardType
        /\ UNCHANGED <<broker, faults, mqtt, lock, thread, cancelled, leaked, main, paused>>
    BY DEF Read, Silence, RecoverEnds, HeardType, environment
  <1>3. TypeOK'
    BY <1>1, <1>2, TypeParts, TypePartsNext
  <1>4. \A x \in Mqtts: ObjectInv(x)'
    BY <1>1, <1>2, MainStays DEF Same, SameObject
  <1> QED
    BY <1>2, <1>3, <1>4 DEF IInv, Room

LEMMA DeleteStep ==
    ASSUME IInv, Delete
    PROVE  IInv'
  <1>1. /\ main' = Idle /\ UNCHANGED <<broker, faults, leaked, paused, heard>>
        /\ mqtt' = [o \in Mqtts |-> NewMqtt] /\ lock' = [o \in Mqtts |-> "free"]
        /\ thread' = [o \in Mqtts |-> [t \in Threads |-> "none"]]
        /\ cancelled' = [o \in Mqtts |-> {}]
    BY DEF Delete, environment
  <1>2. main' \in MainType /\ main'.pc = "idle"
    BY <1>1 DEF Idle, MainType, Mqtts
  <1>3. TypeOK'
    <2>1. thread' \in [Mqtts -> [Threads -> ThreadType]]
      BY <1>1 DEF ThreadType
    <2>2. mqtt' \in [Mqtts -> MqttType]
      BY <1>1, NewMqttType
    <2> QED
      BY <1>1, <1>2, <2>1, <2>2, TypeParts, TypePartsNext DEF IInv
  <1>4. ASSUME NEW x \in Mqtts PROVE ObjectInv(x)'
    <2>1. Busy(x)' = {}
      BY <1>1 DEF Busy
    <2>2. EndingAlive(x)'
      BY <1>1 DEF EndingAlive
    <2>3. Locks(x)'
      BY <1>1, <1>2, ThreadsAssumption DEF Locks
    <2>4. MainFits(x)
      BY <1>2 DEF MainFits, ToOpen, MainAt
    <2> QED
      BY <2>1, <2>2, <2>3, <2>4, QuietObject
  <1> QED
    BY <1>2, <1>3, <1>4 DEF IInv, Room

LEMMA WriteStep ==
    ASSUME IInv, Write
    PROVE  IInv'
  <1>1. TypeOK /\ \A x \in Mqtts: ObjectInv(x)
    BY DEF IInv
  <1>2. /\ main.pc = "idle" /\ mqtt \in [Mqtts -> MqttType] /\ mqtt["writer"] \in MqttType
        /\ UNCHANGED <<broker, faults, lock, thread, cancelled, leaked, paused, heard>>
    BY <1>1, TypeParts DEF Write, environment, Mqtts
  <1>3. \E n \in MqttType: /\ mqtt' = [mqtt EXCEPT !["writer"] = n]
                           /\ n.connected = mqtt["writer"].connected
                           /\ n.closeNow = mqtt["writer"].closeNow
                           /\ n.handle = mqtt["writer"].handle
    <2>1. CASE mqtt' = [mqtt EXCEPT !["writer"].error = IF @ = "none" THEN "full" ELSE @]
      <3> DEFINE e == IF mqtt["writer"].error = "none" THEN "full" ELSE mqtt["writer"].error
                 n == [mqtt["writer"] EXCEPT !.error = e]
      <3>1. e \in {"none", "full", "socket"}
        BY <1>2 DEF MqttType
      <3>2. n \in MqttType /\ n.connected = mqtt["writer"].connected
            /\ n.closeNow = mqtt["writer"].closeNow /\ n.handle = mqtt["writer"].handle
        BY <1>2, <3>1, SetError
      <3>3. mqtt' = [mqtt EXCEPT !["writer"] = n]
        BY <2>1
      <3> QED
        BY <3>2, <3>3
    <2>2. CASE ~Full("writer") /\ mqtt' = [mqtt EXCEPT !["writer"].queue = @ + 1]
      <3> DEFINE q == mqtt["writer"].queue + 1
                 n == [mqtt["writer"] EXCEPT !.queue = q]
      <3>1. q \in 0..SendBuffer
        BY <1>2, <2>2, BoundsAssumption DEF MqttType, Full
      <3>2. n \in MqttType /\ n.connected = mqtt["writer"].connected
            /\ n.closeNow = mqtt["writer"].closeNow /\ n.handle = mqtt["writer"].handle
        BY <1>2, <3>1, SetQueue
      <3>3. mqtt' = [mqtt EXCEPT !["writer"] = n]
        BY <2>2
      <3> QED
        BY <3>2, <3>3
    <2> QED
      BY <2>1, <2>2 DEF Write
  <1>4. mqtt' \in [Mqtts -> MqttType] /\ \A x \in Mqtts: Same(x)
    BY <1>2, <1>3 DEF Same, SameObject
  <1>5. main' = main \/ main' = At("disconnect", "writer", "idle")
    BY DEF Write
  <1>6. main' \in MainType /\ main'.pc # "subscribe" /\ main'.pc # "stop"
    <2>1. main \in MainType
      BY <1>1, TypeParts
    <2> QED
      BY <1>2, <1>5, <2>1 DEF MainType, At, Mqtts
  <1>7. TypeOK'
    BY <1>1, <1>2, <1>4, <1>6, TypeParts, TypePartsNext
  <1>8. CASE main' = main
    BY <1>1, <1>2, <1>4, <1>6, <1>7, <1>8, MainStays DEF IInv, Room
  <1>9. CASE main' = At("disconnect", "writer", "idle")
    <2>1. main'.pc = "disconnect" /\ main'.next = "idle"
      BY <1>9 DEF At
    <2>2. \A x \in Mqtts: ObjectInv(x)'
      BY <1>1, <1>2, <1>4, <2>1, MainElsewhere
    <2> QED
      BY <1>6, <1>7, <2>2 DEF IInv, Room
  <1> QED
    BY <1>5, <1>8, <1>9

LEMMA SubscribeStep ==
    ASSUME IInv, Subscribe
    PROVE  IInv'
  <1>1. TypeOK /\ Room /\ \A x \in Mqtts: ObjectInv(x)
    BY DEF IInv
  <1>2. /\ main.pc = "subscribe" /\ mqtt \in [Mqtts -> MqttType] /\ mqtt["reader"] \in MqttType
        /\ UNCHANGED <<broker, faults, lock, thread, cancelled, leaked, paused, heard>>
    BY <1>1, TypeParts DEF Subscribe, environment, Mqtts, MainAt
  <1>3. mqtt' \in [Mqtts -> MqttType] /\ \A x \in Mqtts: SameObject(x)
    <2>1. CASE UNCHANGED mqtt
      BY <1>2, <2>1 DEF SameObject
    <2>2. CASE mqtt' = [mqtt EXCEPT !["reader"].subscribed = TRUE, !["reader"].queue = @ + 1]
      <3> DEFINE q == mqtt["reader"].queue + 1
                 m == [mqtt["reader"] EXCEPT !.subscribed = TRUE]
                 n == [m EXCEPT !.queue = q]
      <3>1. q \in 0..SendBuffer
        BY <1>1, <1>2, BoundsAssumption DEF MqttType, Room
      <3>2. m \in MqttType /\ m.connected = mqtt["reader"].connected
            /\ m.closeNow = mqtt["reader"].closeNow /\ m.handle = mqtt["reader"].handle
            /\ m.queue = mqtt["reader"].queue
        BY <1>2, SetSubscribed
      <3>3. mqtt' = [mqtt EXCEPT !["reader"] = n]
        <4>1. mqtt' = [[mqtt EXCEPT !["reader"] = m] EXCEPT !["reader"].queue = @ + 1]
          BY <2>2
        <4>2. [mqtt EXCEPT !["reader"] = m]["reader"] = m
          BY <1>2 DEF Mqtts
        <4> HIDE DEF m
        <4> QED
          BY <1>2, <3>2, <4>1, <4>2
      <3> HIDE DEF m, q
      <3>4. n \in MqttType /\ n.connected = m.connected
            /\ n.closeNow = m.closeNow /\ n.handle = m.handle
        BY <3>1, <3>2, SetQueue
      <3> HIDE DEF n
      <3> QED
        BY <1>2, <3>2, <3>3, <3>4 DEF SameObject
    <2> QED
      BY <2>1, <2>2 DEF Subscribe
  <1>4. main' = Idle \/ main' = At("disconnect", "reader", "idle")
    BY DEF Subscribe
  <1>5. main' \in MainType /\ (main'.pc = "idle" \/ (main'.pc = "disconnect" /\ main'.next = "idle"))
    BY <1>4 DEF MainType, At, Idle, Mqtts
  <1>6. TypeOK'
    BY <1>1, <1>2, <1>3, <1>5, TypeParts, TypePartsNext
  <1>7. \A x \in Mqtts: Same(x)
    BY <1>2, <1>3 DEF Same
  <1>8. \A x \in Mqtts: ObjectInv(x)'
    BY <1>1, <1>2, <1>5, <1>7, MainElsewhere
  <1> QED
    BY <1>5, <1>6, <1>8 DEF IInv, Room

LEMMA OpenStep ==
    ASSUME IInv, NEW o \in Mqtts, Open(o)
    PROVE  IInv'
  <1>1. TypeOK /\ \A x \in Mqtts: ObjectInv(x)
    BY DEF IInv
  <1>2. /\ main.pc = "open" /\ main.in = o /\ lock[o] = "free"
        /\ UNCHANGED <<broker, faults, cancelled, paused, heard>>
    BY DEF Open, MainAt, environment
  <1>3. ASSUME leaked' \in Nat, main' = Idle, UNCHANGED <<mqtt, lock, thread>>
        PROVE  IInv'
    <2>1. main' \in MainType /\ main'.pc = "idle"
      BY <1>3 DEF Idle, MainType, Mqtts
    <2>2. TypeOK'
      BY <1>1, <1>2, <1>3, <2>1, TypeParts, TypePartsNext
    <2>3. \A x \in Mqtts: Same(x)
      BY <1>2, <1>3 DEF Same, SameObject
    <2>4. \A x \in Mqtts: ObjectInv(x)'
      BY <1>1, <1>2, <2>1, <2>3, MainElsewhere
    <2> QED
      BY <2>1, <2>2, <2>4 DEF IInv, Room
  <1>4. ASSUME leaked' \in Nat, NEW t \in Threads, thread[o][t] = "none",
               NEW v \in {"ok", "broken"},
               mqtt' = [mqtt EXCEPT ![o].sock = v, ![o].handle = t],
               thread' = [thread EXCEPT ![o][t] = "run"],
               lock' = [lock EXCEPT ![o] = "main"], main' = At("init", o, "idle")
        PROVE  IInv'
    <2>1. main' \in MainType /\ main'.pc = "init" /\ main'.in = o
      BY <1>4 DEF At, MainType
    <2>2. /\ mqtt \in [Mqtts -> MqttType] /\ mqtt[o] \in MqttType
          /\ lock \in [Mqtts -> Threads \union {"free", "main"}]
          /\ thread \in [Mqtts -> [Threads -> ThreadType]]
      BY <1>1, TypeParts
    <2>3. PICK n \in MqttType: /\ mqtt' = [mqtt EXCEPT ![o] = n] /\ n.handle = t
                               /\ n.connected = mqtt[o].connected /\ n.closeNow = mqtt[o].closeNow
      <3> DEFINE m == [mqtt[o] EXCEPT !.sock = v]
                 n == [m EXCEPT !.handle = t]
      <3>1. m \in MqttType /\ m.connected = mqtt[o].connected /\ m.closeNow = mqtt[o].closeNow
        BY <2>2, SetSocket
      <3>2. mqtt' = [mqtt EXCEPT ![o] = n]
        BY <1>4, <2>2
      <3> HIDE DEF m
      <3>3. n \in MqttType /\ n.handle = t /\ n.connected = m.connected /\ n.closeNow = m.closeNow
        BY <3>1, SetHandle
      <3> QED
        BY <3>1, <3>2, <3>3
    <2>4. /\ mqtt' \in [Mqtts -> MqttType] /\ mqtt'[o] = n
          /\ \A x \in Mqtts: x # o => mqtt'[x] = mqtt[x]
      BY <2>2, <2>3, ChangedObject
    <2>5. thread' \in [Mqtts -> [Threads -> ThreadType]]
          /\ \A x \in Mqtts: x # o => thread'[x] = thread[x] /\ lock'[x] = lock[x]
      BY <1>4, <2>2 DEF ThreadType
    <2>6. thread'[o][t] = "run" /\ \A u \in Threads: u # t => thread'[o][u] = thread[o][u]
      BY <1>4, <2>2
    <2>7. TypeOK'
      BY <1>1, <1>2, <1>4, <2>1, <2>2, <2>4, <2>5, TypeParts, TypePartsNext
    <2>8. \A x \in Mqtts: MainFits(x)
      <3>1. paused'
        BY <1>1, <1>2 DEF ObjectInv, Paused, ToOpen
      <3> QED
        BY <2>1, <3>1 DEF MainFits, ToOpen
    <2>9. ASSUME NEW x \in Mqtts, x # o PROVE ObjectInv(x)'
      <3>1. Same(x)
        BY <1>2, <2>4, <2>5, <2>9 DEF Same, SameObject
      <3>2. \A pc \in {"init", "connect", "stop"}: ~MainAt(pc, x) /\ ~MainAt(pc, x)'
        BY <1>2, <2>1, <2>9 DEF MainAt
      <3>3. WillOpen(x)' => WillOpen(x)
        BY <1>2, <2>1 DEF WillOpen, ToOpen, MainAt
      <3> QED
        BY <1>1, <1>2, <2>8, <3>1, <3>2, <3>3, FrameObject
    <2>10. ObjectInv(o)'
      <3>1. paused /\ Busy(o) = {}
        BY <1>1, <1>2 DEF ObjectInv, Paused, ToOpen, WillOpen, Calm
      <3>2. Busy(o)' \subseteq {t}
        BY <1>2, <2>6, <3>1 DEF Busy
      <3>3. Alone(o)'
        BY <2>3, <2>4, <3>2 DEF Alone
      <3>4. EndingAlive(o)'
        BY <1>1, <1>2, <2>6, TypeParts DEF ObjectInv, EndingAlive
      <3>5. MainAt("init", o)' /\ Answered(o)' /\ Told(o)'
        BY <2>1 DEF Answered, Told, MainAt
      <3>6. Locks(o)'
        <4>1. \A u \in Threads: thread[o][u] # "stop"
          BY <1>1, <1>2, ThreadsAssumption DEF ObjectInv, Locks
        <4>2. lock'[o] = "main"
          BY <1>4, <2>2
        <4> QED
          BY <2>1, <2>6, <4>1, <4>2, ThreadsAssumption DEF Locks
      <3>7. Paused(o)'
        BY <1>2, <2>1, <3>1 DEF Paused, ToOpen, WillOpen, MainAt
      <3> QED
        BY <3>3, <3>4, <3>5, <3>6, <3>7 DEF ObjectInv
    <2> QED
      BY <2>1, <2>7, <2>9, <2>10 DEF IInv, Room
  <1>5. leaked \in Nat /\ Addresses \in Nat \ {0} /\ Tried \in Nat /\ Tried >= 1
    BY <1>1, TypeParts, BoundsAssumption DEF Tried
  <1>6. CASE OpenFails
    <2>1. leaked' = leaked \/ \E opened \in 0..(Tried - 1): leaked' = leaked + opened
      BY <1>6 DEF OpenFails
    <2>2. leaked' \in Nat
      BY <1>5, <2>1
    <2>3. main' = Idle /\ UNCHANGED <<mqtt, lock, thread>>
      BY <1>6 DEF OpenFails
    <2> QED
      BY <1>3, <2>2, <2>3
  <1>7. CASE OpenSocket(o)
    <2> DEFINE t == CHOOSE t \in Unused(o): TRUE
               v == IF broker THEN "ok" ELSE "broken"
    <2>1. leaked' = leaked + Tried - 1 /\ Unused(o) # {}
      BY <1>7 DEF OpenSocket
    <2>2. leaked' \in Nat
      BY <1>5, <2>1
    <2>3. t \in Threads /\ thread[o][t] = "none"
      BY <2>1 DEF Unused
    <2>4. /\ mqtt' = [mqtt EXCEPT ![o].sock = v, ![o].handle = t]
          /\ thread' = [thread EXCEPT ![o][t] = "run"]
          /\ lock' = [lock EXCEPT ![o] = "main"] /\ main' = At("init", o, "idle")
      BY <1>7 DEF OpenSocket
    <2>5. v \in {"ok", "broken"}
      OBVIOUS
    <2> HIDE DEF t, v
    <2> QED
      BY <1>4, <2>2, <2>3, <2>4, <2>5
  <1> QED
    BY <1>6, <1>7 DEF Open

LEMMA MqttInitStep ==
    ASSUME IInv, NEW o \in Mqtts, MqttInit(o)
    PROVE  IInv'
  <1>1. TypeOK /\ \A x \in Mqtts: ObjectInv(x)
    BY DEF IInv
  <1>2. /\ main.pc = "init" /\ main.in = o /\ main' = At("connect", o, "idle")
        /\ UNCHANGED <<broker, faults, lock, thread, cancelled, leaked, paused, heard>>
    BY DEF MqttInit, MainAt, environment
  <1>3. main' \in MainType /\ main'.pc = "connect" /\ main'.in = o
    BY <1>2 DEF At, MainType
  <1>4. mqtt \in [Mqtts -> MqttType] /\ mqtt[o] \in MqttType
    BY <1>1, TypeParts
  <1>5. PICK n \in MqttType: /\ mqtt' = [mqtt EXCEPT ![o] = n] /\ n.closeNow = 0
                             /\ n.connected = mqtt[o].connected /\ n.handle = mqtt[o].handle
    <2> DEFINE a == [mqtt[o] EXCEPT !.closeNow = 0]
               b == [a EXCEPT !.error = "none"]
               c == [b EXCEPT !.queue = 0]
               d == [c EXCEPT !.subscribed = FALSE]
    <2>1. 0 \in 0..2 /\ 0 \in 0..SendBuffer
      BY BoundsAssumption
    <2>2. mqtt' = [mqtt EXCEPT ![o] = d]
      BY <1>4 DEF MqttInit
    <2>3. a \in MqttType /\ a.closeNow = 0 /\ a.connected = mqtt[o].connected
          /\ a.handle = mqtt[o].handle
      BY <1>4, <2>1, SetCloseNow
    <2> HIDE DEF a
    <2>4. b \in MqttType /\ b.closeNow = a.closeNow /\ b.connected = a.connected /\ b.handle = a.handle
      BY <2>3, SetError
    <2> HIDE DEF b
    <2>5. c \in MqttType /\ c.closeNow = b.closeNow /\ c.connected = b.connected /\ c.handle = b.handle
      BY <2>1, <2>4, SetQueue
    <2> HIDE DEF c
    <2>6. d \in MqttType /\ d.closeNow = c.closeNow /\ d.connected = c.connected /\ d.handle = c.handle
      BY <2>5, SetSubscribed
    <2> HIDE DEF d
    <2> QED
      BY <2>2, <2>3, <2>4, <2>5, <2>6
  <1>6. /\ mqtt' \in [Mqtts -> MqttType] /\ mqtt'[o] = n
        /\ \A x \in Mqtts: x # o => mqtt'[x] = mqtt[x]
    BY <1>4, <1>5, ChangedObject
  <1>7. TypeOK'
    BY <1>1, <1>2, <1>3, <1>6, TypeParts, TypePartsNext
  <1>8. paused
    BY <1>1, <1>2 DEF ObjectInv, Paused, MainAt
  <1>9. \A x \in Mqtts: MainFits(x)
    BY <1>2, <1>3, <1>8 DEF MainFits, ToOpen
  <1>10. ASSUME NEW x \in Mqtts, x # o PROVE ObjectInv(x)'
    <2>1. Same(x)
      BY <1>2, <1>6, <1>10 DEF Same, SameObject
    <2>2. \A pc \in {"init", "connect", "stop"}: ~MainAt(pc, x) /\ ~MainAt(pc, x)'
      BY <1>2, <1>3, <1>10 DEF MainAt
    <2>3. WillOpen(x)' => WillOpen(x)
      BY <1>2, <1>3 DEF WillOpen, ToOpen, MainAt
    <2> QED
      BY <1>1, <1>2, <1>9, <2>1, <2>2, <2>3, FrameObject
  <1>11. ObjectInv(o)'
    <2>1. Busy(o)' = Busy(o)
      BY <1>2 DEF Busy
    <2>2. MainAt("connect", o)' /\ ~ToOpen(o)' /\ ~WillOpen(o)'
      BY <1>3 DEF MainAt, ToOpen, WillOpen
    <2>3. Alone(o)' /\ EndingAlive(o)' /\ Answered(o)' /\ Told(o)'
      BY <1>1, <1>2, <1>5, <1>6, <2>1, <2>2 DEF ObjectInv, Alone, EndingAlive, Answered, Told
    <2>4. Locks(o)'
      BY <1>1, <1>2, <1>3 DEF ObjectInv, Locks
    <2>5. Paused(o)'
      BY <1>2, <1>8, <2>2 DEF Paused
    <2> QED
      BY <2>3, <2>4, <2>5 DEF ObjectInv
  <1> QED
    BY <1>3, <1>7, <1>10, <1>11 DEF IInv, Room

LEMMA MqttConnectStep ==
    ASSUME IInv, NEW o \in Mqtts, MqttConnect(o)
    PROVE  IInv'
  <1>1. TypeOK /\ \A x \in Mqtts: ObjectInv(x)
    BY DEF IInv
  <1>2. /\ main.pc = "connect" /\ main.in = o /\ lock' = [lock EXCEPT ![o] = "free"]
        /\ UNCHANGED <<broker, faults, thread, cancelled, leaked, paused, heard>>
    BY DEF MqttConnect, MainAt, environment
  <1>3. \/ o = "reader" /\ main' = At("subscribe", o, "idle")
        \/ o = "writer" /\ main' = Idle
        \/ o = "writer" /\ ~mqtt["reader"].connected /\ main' = At("disconnect", "reader", "open")
    <2>1. CASE o = "reader"
      BY <2>1 DEF MqttConnect
    <2>2. CASE o = "writer" /\ mqtt["reader"].connected
      BY <2>2 DEF MqttConnect
    <2>3. CASE o = "writer" /\ ~mqtt["reader"].connected
      BY <2>3 DEF MqttConnect
    <2> QED
      BY <2>1, <2>2, <2>3 DEF Mqtts
  <1>4. /\ main' \in MainType /\ main'.pc \in {"subscribe", "idle", "disconnect"}
        /\ main'.pc = "subscribe" => o = "reader"
        /\ main'.pc = "disconnect" => o = "writer" /\ main'.in = "reader" /\ ~mqtt["reader"].connected
    BY <1>3 DEF At, Idle, MainType, Mqtts
  <1>5. mqtt \in [Mqtts -> MqttType] /\ mqtt[o] \in MqttType
        /\ lock \in [Mqtts -> Threads \union {"free", "main"}]
    BY <1>1, TypeParts
  <1>6. PICK n \in MqttType: /\ mqtt' = [mqtt EXCEPT ![o] = n] /\ n.connected /\ n.queue = 1
                             /\ n.closeNow = mqtt[o].closeNow /\ n.handle = mqtt[o].handle
    <2> DEFINE a == [mqtt[o] EXCEPT !.connected = TRUE]
               b == [a EXCEPT !.queue = 1]
    <2>1. 1 \in 0..SendBuffer
      BY BoundsAssumption
    <2>2. mqtt' = [mqtt EXCEPT ![o] = b]
      BY <1>5 DEF MqttConnect
    <2>3. a \in MqttType /\ a.connected /\ a.closeNow = mqtt[o].closeNow /\ a.handle = mqtt[o].handle
      BY <1>5, SetConnected
    <2> HIDE DEF a
    <2>4. b \in MqttType /\ b.closeNow = a.closeNow /\ b.connected = a.connected /\ b.handle = a.handle
          /\ b.queue = 1
      BY <2>1, <2>3, SetQueue
    <2> HIDE DEF b
    <2> QED
      BY <2>2, <2>3, <2>4
  <1>7. /\ mqtt' \in [Mqtts -> MqttType] /\ mqtt'[o] = n
        /\ \A x \in Mqtts: x # o => mqtt'[x] = mqtt[x]
    BY <1>5, <1>6, ChangedObject
  <1>8. /\ lock' \in [Mqtts -> Threads \union {"free", "main"}] /\ lock'[o] = "free"
        /\ \A x \in Mqtts: x # o => lock'[x] = lock[x]
    BY <1>2, <1>5
  <1>9. TypeOK'
    BY <1>1, <1>2, <1>4, <1>7, <1>8, TypeParts, TypePartsNext
  <1>10. paused
    BY <1>1, <1>2 DEF ObjectInv, Paused, MainAt
  <1>11. Room'
    BY <1>4, <1>6, <1>7 DEF Room
  <1>12. ASSUME NEW x \in Mqtts, x # o PROVE ObjectInv(x)'
    <2>1. Same(x)
      BY <1>2, <1>7, <1>8, <1>12 DEF Same, SameObject
    <2>2. \A pc \in {"init", "connect", "stop"}: ~MainAt(pc, x) /\ ~MainAt(pc, x)'
      BY <1>2, <1>4, <1>12 DEF MainAt
    <2>3. MainFits(x)
      BY <1>2, <1>4, <1>7, <1>10, <1>12 DEF MainFits, ToOpen
    <2>4. WillOpen(x)' => WillOpen(x)
      <3>1. ~MainAt("init", "writer")' /\ ~MainAt("connect", "writer")' /\ ~ToOpen("writer")'
        BY <1>4 DEF MainAt, ToOpen
      <3>2. ToOpen(x)' => x = "reader" /\ MainAt("connect", "writer")
        BY <1>2, <1>4 DEF MainAt, ToOpen
      <3> QED
        BY <3>1, <3>2 DEF WillOpen
    <2> QED
      BY <1>1, <1>2, <2>1, <2>2, <2>3, <2>4, FrameObject
  <1>13. ObjectInv(o)'
    <2>1. Busy(o)' = Busy(o)
      BY <1>2 DEF Busy
    <2>2. ~MainAt("init", o) /\ ~MainAt("init", o)' /\ ~MainAt("connect", o)' /\ ~ToOpen(o)'
      BY <1>2, <1>4 DEF MainAt, ToOpen
    <2>3. Alone(o)' /\ EndingAlive(o)' /\ Answered(o)' /\ Told(o)'
      BY <1>1, <1>2, <1>6, <1>7, <2>1, <2>2 DEF ObjectInv, Alone, EndingAlive, Answered, Told
    <2>4. Locks(o)'
      BY <1>1, <1>2, <1>4, <1>8, ThreadsAssumption DEF ObjectInv, Locks
    <2>5. ~WillOpen(o)'
      BY <1>4, <2>2 DEF WillOpen, ToOpen, MainAt
    <2>6. Paused(o)'
      BY <1>2, <1>10, <2>2, <2>5 DEF Paused
    <2> QED
      BY <2>3, <2>4, <2>6 DEF ObjectInv
  <1> QED
    BY <1>4, <1>9, <1>11, <1>12, <1>13 DEF IInv

-----------------------------------------------------------------------------
(* The refresh threads.                                                    *)

(* A thread goes to another place. *)
LEMMA MovedThread ==
    ASSUME thread \in [Mqtts -> [Threads -> ThreadType]], NEW o \in Mqtts, NEW t \in Threads,
           NEW place \in ThreadType, thread' = [thread EXCEPT ![o][t] = place]
    PROVE  /\ thread' \in [Mqtts -> [Threads -> ThreadType]]
           /\ thread'[o][t] = place
           /\ \A u \in Threads: u # t => thread'[o][u] = thread[o][u]
           /\ \A x \in Mqtts: x # o => thread'[x] = thread[x]
  OBVIOUS

(* Steps of a thread of one object leave the others alone. *)
LEMMA OtherObjects ==
    ASSUME IInv, NEW o \in Mqtts, UNCHANGED <<main, paused>>,
           \A x \in Mqtts: x # o => Same(x)
    PROVE  /\ \A x \in Mqtts: x # o => ObjectInv(x)'
           /\ main'.pc = "stop" => main'.next # "open"
  BY MainStays DEF IInv

(* A live thread moves within its life, the locks and the connection stay. *)
LEMMA LiveThreadMoves ==
    ASSUME IInv, NEW o \in Mqtts, NEW t \in Threads, NEW place \in {"run", "failed", "ending"},
           thread[o][t] \in {"run", "failed"}, place # "run" => t \notin cancelled[o],
           thread' = [thread EXCEPT ![o][t] = place],
           \A x \in Mqtts: SameObject(x) /\ lock'[x] = lock[x] /\ cancelled'[x] = cancelled[x],
           UNCHANGED <<main, paused>>
    PROVE  \A x \in Mqtts: ObjectInv(x)'
  <1>1. /\ thread \in [Mqtts -> [Threads -> ThreadType]] /\ cancelled[o] \subseteq Threads
        /\ place \in ThreadType
    BY TypeParts DEF IInv, ThreadType
  <1>2. /\ thread'[o][t] = place
        /\ \A u \in Threads: u # t => thread'[o][u] = thread[o][u]
        /\ \A x \in Mqtts: x # o => thread'[x] = thread[x]
    BY <1>1, MovedThread
  <1>3. \A x \in Mqtts: x # o => Same(x)
    BY <1>2 DEF Same
  <1>4. ObjectInv(o)
    BY DEF IInv
  <1>5. SameObject(o) /\ lock'[o] = lock[o] /\ cancelled'[o] = cancelled[o]
    OBVIOUS
  <1>6. Busy(o)' = Busy(o)
    BY <1>2, <1>5 DEF Busy
  <1>7. Alone(o)' /\ Answered(o)' /\ Told(o)'
    BY <1>4, <1>5, <1>6 DEF ObjectInv, Alone, Answered, Told, SameObject, MainAt
  <1>8. EndingAlive(o)'
    BY <1>1, <1>2, <1>4, <1>5 DEF ObjectInv, EndingAlive
  <1>9. Locks(o)'
    BY <1>2, <1>4, <1>5 DEF ObjectInv, Locks
  <1>10. Calm(o) => Calm(o)'
    <2>1. \A u \in Threads: thread[o][u] = "stop" => thread'[o][u] = "stop"
      BY <1>2
    <2>2. \A u \in cancelled[o]: thread'[o][u] \in {"failed", "stop"} => thread[o][u] \in {"failed", "stop"}
      BY <1>1, <1>2
    <2> QED
      BY <1>5, <1>6, <2>1, <2>2 DEF Calm, SameObject, Busy
  <1>11. Paused(o)'
    BY <1>4, <1>5, <1>10 DEF ObjectInv, Paused, SameObject, ToOpen, WillOpen, MainAt
  <1>12. ObjectInv(o)'
    BY <1>7, <1>8, <1>9, <1>11 DEF ObjectInv
  <1> QED
    BY <1>3, <1>12, OtherObjects

LEMMA SyncStep ==
    ASSUME IInv, NEW o \in Mqtts, NEW t \in Threads, Sync(o, t)
    PROVE  IInv'
  <1>1. TypeOK /\ Room /\ \A x \in Mqtts: ObjectInv(x)
    BY DEF IInv
  <1>2. /\ thread[o][t] = "run" /\ t \notin cancelled[o]
        /\ UNCHANGED <<broker, faults, lock, cancelled, leaked, main, paused, heard>>
    BY DEF Sync, environment
  <1>3. mqtt \in [Mqtts -> MqttType] /\ mqtt[o] \in MqttType
        /\ thread \in [Mqtts -> [Threads -> ThreadType]] /\ 0 \in 0..SendBuffer
    BY <1>1, TypeParts, BoundsAssumption
  <1>4. ASSUME NEW n \in MqttType, mqtt' = [mqtt EXCEPT ![o] = n],
               n.connected = mqtt[o].connected, n.closeNow = mqtt[o].closeNow,
               n.handle = mqtt[o].handle, n.queue \in {mqtt[o].queue, 0}
        PROVE  /\ mqtt' \in [Mqtts -> MqttType] /\ Room'
               /\ \A x \in Mqtts: SameObject(x)
    <2>1. mqtt' \in [Mqtts -> MqttType] /\ mqtt'[o] = n
          /\ \A x \in Mqtts: x # o => mqtt'[x] = mqtt[x]
      BY <1>3, <1>4, ChangedObject
    <2>2. \A x \in Mqtts: SameObject(x)
      BY <1>4, <2>1 DEF SameObject
    <2>3. mqtt'["reader"].queue \in {mqtt["reader"].queue, 0}
      BY <1>4, <2>1 DEF Mqtts
    <2>4. Room'
      BY <1>1, <1>2, <2>3 DEF Room
    <2> QED
      BY <2>1, <2>2, <2>4
  <1>5. ASSUME mqtt' = [mqtt EXCEPT ![o].error = "socket"],
               thread' = [thread EXCEPT ![o][t] = "failed"]
        PROVE  IInv'
    <2> DEFINE n == [mqtt[o] EXCEPT !.error = "socket"]
    <2>1. n \in MqttType /\ n.connected = mqtt[o].connected /\ n.closeNow = mqtt[o].closeNow
          /\ n.handle = mqtt[o].handle /\ n.queue = mqtt[o].queue
      BY <1>3, SetError
    <2>2. mqtt' = [mqtt EXCEPT ![o] = n]
      BY <1>3, <1>5
    <2> HIDE DEF n
    <2>3. mqtt' \in [Mqtts -> MqttType] /\ Room' /\ \A x \in Mqtts: SameObject(x)
      BY <1>4, <2>1, <2>2
    <2>4. \A x \in Mqtts: ObjectInv(x)'
      BY <1>2, <1>5, <2>3, LiveThreadMoves
    <2>5. "failed" \in ThreadType
      BY DEF ThreadType
    <2>6. thread' \in [Mqtts -> [Threads -> ThreadType]]
      BY <1>3, <1>5, <2>5, MovedThread
    <2>7. TypeOK'
      BY <1>1, <1>2, <2>3, <2>6, TypeParts, TypePartsNext
    <2> QED
      BY <1>2, <2>3, <2>4, <2>7 DEF IInv
  <1>6. ASSUME mqtt' = [mqtt EXCEPT ![o].queue = 0], UNCHANGED thread
        PROVE  IInv'
    <2> DEFINE n == [mqtt[o] EXCEPT !.queue = 0]
    <2>1. n \in MqttType /\ n.connected = mqtt[o].connected /\ n.closeNow = mqtt[o].closeNow
          /\ n.handle = mqtt[o].handle /\ n.queue = 0
      BY <1>3, SetQueue
    <2>2. mqtt' = [mqtt EXCEPT ![o] = n]
      BY <1>3, <1>6
    <2> HIDE DEF n
    <2>3. mqtt' \in [Mqtts -> MqttType] /\ Room' /\ \A x \in Mqtts: SameObject(x)
      BY <1>4, <2>1, <2>2
    <2>4. \A x \in Mqtts: ObjectInv(x)'
      BY <1>1, <1>2, <1>6, <2>3, MainStays DEF Same
    <2>5. TypeOK'
      BY <1>1, <1>2, <1>6, <2>3, TypeParts, TypePartsNext
    <2> QED
      BY <1>2, <2>3, <2>4, <2>5 DEF IInv
  <1> QED
    BY <1>5, <1>6 DEF Sync

LEMMA LeaveLoopStep ==
    ASSUME IInv, NEW o \in Mqtts, NEW t \in Threads, LeaveLoop(o, t)
    PROVE  IInv'
  <1>1. /\ thread[o][t] = "run" /\ t \notin cancelled[o]
        /\ thread' = [thread EXCEPT ![o][t] = "ending"]
        /\ UNCHANGED <<broker, faults, mqtt, lock, cancelled, leaked, main, paused, heard>>
    BY DEF LeaveLoop, environment
  <1>2. \A x \in Mqtts: SameObject(x)
    BY <1>1 DEF SameObject
  <1>3. \A x \in Mqtts: ObjectInv(x)'
    BY <1>1, <1>2, LiveThreadMoves
  <1>4. thread \in [Mqtts -> [Threads -> ThreadType]] /\ "ending" \in ThreadType
    BY TypeParts DEF IInv, ThreadType
  <1>5. thread' \in [Mqtts -> [Threads -> ThreadType]]
    BY <1>1, <1>4, MovedThread
  <1>6. TypeOK'
    BY <1>1, <1>5, TypeParts, TypePartsNext DEF IInv
  <1> QED
    BY <1>1, <1>3, <1>6 DEF IInv, Room

(* A busy thread that ends leaves none. *)
LEMMA BusyThreadEnds ==
    ASSUME IInv, NEW o \in Mqtts, NEW t \in Busy(o), thread'[o][t] = "none",
           \A u \in Threads: u # t => thread'[o][u] = thread[o][u],
           cancelled'[o] = cancelled[o]
    PROVE  /\ mqtt[o].handle = t /\ Busy(o)' = {} /\ EndingAlive(o)'
  <1>1. mqtt[o].handle = t /\ Busy(o) = {t}
    BY DEF IInv, ObjectInv, Alone
  <1>2. t \notin cancelled[o] /\ cancelled[o] \subseteq Threads
    BY TypeParts DEF Busy, IInv
  <1>3. Busy(o)' = {}
    BY <1>1 DEF Busy
  <1>4. EndingAlive(o)'
    BY <1>2 DEF IInv, ObjectInv, EndingAlive
  <1> QED
    BY <1>1, <1>3, <1>4

LEMMA EndStep ==
    ASSUME IInv, NEW o \in Mqtts, NEW t \in Threads, End(o, t)
    PROVE  IInv'
  <1>1. TypeOK /\ \A x \in Mqtts: ObjectInv(x)
    BY DEF IInv
  <1>2. /\ thread[o][t] = "ending" /\ thread' = [thread EXCEPT ![o][t] = "none"]
        /\ mqtt' = [mqtt EXCEPT ![o].closeNow = 2]
        /\ UNCHANGED <<broker, faults, lock, leaked, main, paused, heard>>
    BY DEF End, environment
  <1>3. /\ mqtt \in [Mqtts -> MqttType] /\ mqtt[o] \in MqttType
        /\ thread \in [Mqtts -> [Threads -> ThreadType]]
        /\ cancelled \in [Mqtts -> SUBSET Threads] /\ "none" \in ThreadType
    BY <1>1, TypeParts DEF ThreadType
  <1>4. t \notin cancelled[o]
    BY <1>1, <1>2 DEF ObjectInv, EndingAlive
  <1>5. cancelled' = cancelled
    BY <1>3, <1>4 DEF End
  <1>6. /\ thread' \in [Mqtts -> [Threads -> ThreadType]] /\ thread'[o][t] = "none"
        /\ \A u \in Threads: u # t => thread'[o][u] = thread[o][u]
        /\ \A x \in Mqtts: x # o => thread'[x] = thread[x]
    BY <1>2, <1>3, MovedThread
  <1>7. PICK n \in MqttType: /\ mqtt' = [mqtt EXCEPT ![o] = n] /\ n.connected = mqtt[o].connected
                             /\ n.queue = mqtt[o].queue
    <2> DEFINE m == [mqtt[o] EXCEPT !.closeNow = 2]
    <2>1. m \in MqttType /\ m.connected = mqtt[o].connected /\ m.queue = mqtt[o].queue
      <3>1. 2 \in 0..2
        OBVIOUS
      <3> QED
        BY <1>3, <3>1, SetCloseNow
    <2>2. mqtt' = [mqtt EXCEPT ![o] = m]
      BY <1>2, <1>3
    <2> HIDE DEF m
    <2> QED
      BY <2>1, <2>2
  <1>8. mqtt' \in [Mqtts -> MqttType] /\ mqtt'[o] = n
        /\ \A x \in Mqtts: x # o => mqtt'[x] = mqtt[x]
    BY <1>3, <1>7, ChangedObject
  <1>9. TypeOK'
    BY <1>1, <1>2, <1>3, <1>5, <1>6, <1>8, TypeParts, TypePartsNext
  <1>10. Room'
    BY <1>2, <1>7, <1>8 DEF IInv, Room, Mqtts
  <1>11. \A x \in Mqtts: x # o => Same(x)
    BY <1>2, <1>5, <1>6, <1>8 DEF Same, SameObject
  <1>12. ObjectInv(o)'
    <2>1. t \in Busy(o)
      BY <1>2, <1>4 DEF Busy
    <2>2. Busy(o)' = {} /\ EndingAlive(o)'
      BY <1>5, <1>6, <2>1, BusyThreadEnds
    <2>3. Locks(o)'
      BY <1>1, <1>2, <1>6 DEF ObjectInv, Locks
    <2>4. MainFits(o)
      BY <1>1, <1>2, <1>7, <1>8 DEF ObjectInv, Paused, MainFits, ToOpen, MainAt
    <2> QED
      BY <2>2, <2>3, <2>4, QuietObject
  <1> QED
    BY <1>2, <1>9, <1>10, <1>11, <1>12, OtherObjects DEF IInv

LEMMA ThreadDisconnectStep ==
    ASSUME IInv, NEW o \in Mqtts, NEW t \in Threads, ThreadDisconnect(o, t)
    PROVE  IInv'
  <1>1. TypeOK /\ \A x \in Mqtts: ObjectInv(x)
    BY DEF IInv
  <1>2. /\ thread[o][t] = "failed" /\ lock[o] = "free"
        /\ UNCHANGED <<broker, faults, cancelled, leaked, main, paused, heard>>
    BY DEF ThreadDisconnect, environment
  <1>3. thread \in [Mqtts -> [Threads -> ThreadType]] /\ "run" \in ThreadType /\ "stop" \in ThreadType
    BY <1>1, TypeParts DEF ThreadType
  <1>4. ASSUME thread' = [thread EXCEPT ![o][t] = "run"], UNCHANGED <<mqtt, lock>>
        PROVE  IInv'
    <2>1. \A x \in Mqtts: SameObject(x) /\ lock'[x] = lock[x] /\ cancelled'[x] = cancelled[x]
      BY <1>2, <1>4 DEF SameObject
    <2>2. \A x \in Mqtts: ObjectInv(x)'
      BY <1>2, <1>4, <2>1, LiveThreadMoves
    <2>3. thread' \in [Mqtts -> [Threads -> ThreadType]]
      BY <1>3, <1>4, MovedThread
    <2>4. TypeOK'
      BY <1>1, <1>2, <1>4, <2>3, TypeParts, TypePartsNext
    <2> QED
      BY <1>2, <1>4, <2>2, <2>4 DEF IInv, Room
  <1>5. ASSUME Request(o, t), thread' = [thread EXCEPT ![o][t] = "stop"]
        PROVE  IInv'
    <2>1. /\ thread' \in [Mqtts -> [Threads -> ThreadType]] /\ thread'[o][t] = "stop"
          /\ \A u \in Threads: u # t => thread'[o][u] = thread[o][u]
          /\ \A x \in Mqtts: x # o => thread'[x] = thread[x]
      BY <1>3, <1>5, MovedThread
    <2>2. /\ mqtt' \in [Mqtts -> MqttType] /\ lock' \in [Mqtts -> Threads \union {"free", "main"}]
          /\ ~mqtt'[o].connected /\ mqtt'[o].closeNow = 1 /\ mqtt'[o].handle = mqtt[o].handle
          /\ lock'[o] = t /\ mqtt'[o].queue = mqtt[o].queue
          /\ \A x \in Mqtts: x # o => mqtt'[x] = mqtt[x] /\ lock'[x] = lock[x]
      BY <1>1, <1>5, RequestEffect
    <2>3. TypeOK'
      BY <1>1, <1>2, <2>1, <2>2, TypeParts, TypePartsNext
    <2>4. \A x \in Mqtts: mqtt'[x].queue = mqtt[x].queue
      BY <2>2
    <2>5. Room'
      BY <1>2, <2>4 DEF IInv, Room, Mqtts
    <2>6. \A x \in Mqtts: x # o => Same(x)
      BY <1>2, <2>1, <2>2 DEF Same, SameObject
    <2>7. ObjectInv(o)'
      <3>1. \A u \in Threads: thread[o][u] # "stop"
        BY <1>1, <1>2, ThreadsAssumption DEF ObjectInv, Locks
      <3>2. t \notin {"main", "free"}
        BY ThreadsAssumption
      <3>3. Busy(o)' = Busy(o)
        BY <1>2, <2>1 DEF Busy
      <3>4. Alone(o)' /\ Answered(o)' /\ Told(o)'
        BY <1>1, <2>2, <3>3 DEF ObjectInv, Alone, Answered, Told
      <3>5. EndingAlive(o)'
        BY <1>1, <1>2, <1>3, <2>1, TypeParts DEF ObjectInv, EndingAlive
      <3>6. Locks(o)'
        BY <1>1, <1>2, <2>1, <2>2, <3>1, <3>2 DEF ObjectInv, Locks
      <3>7. Calm(o) => Calm(o)'
        <4>1. CASE t \in cancelled[o]
          BY <1>2, <2>2, <3>1, <3>2, <3>3, <4>1 DEF Calm, Busy
        <4>2. CASE t \notin cancelled[o]
          BY <1>2, <2>1, <2>2, <3>2, <4>2 DEF Calm, Busy
        <4> QED
          BY <4>1, <4>2
      <3>8. Paused(o)'
        BY <1>1, <1>2, <2>2, <3>7 DEF ObjectInv, Paused, ToOpen, WillOpen, MainAt
      <3> QED
        BY <3>4, <3>5, <3>6, <3>8 DEF ObjectInv
    <2> QED
      BY <1>2, <2>3, <2>5, <2>6, <2>7, OtherObjects DEF IInv
  <1> QED
    BY <1>4, <1>5 DEF ThreadDisconnect

(* A thread that disconnects its own connection waits in vain and cancels itself. *)
LEMMA ThreadStoppedStep ==
    ASSUME IInv, NEW o \in Mqtts, NEW t \in Threads, ThreadStopped(o, t)
    PROVE  IInv'
  <1>1. TypeOK /\ \A x \in Mqtts: ObjectInv(x)
    BY DEF IInv
  <1>2. /\ thread[o][t] = "stop" /\ t \notin cancelled[o] /\ CloseSocket(o)
        /\ UNCHANGED <<broker, faults, main, paused, heard>>
    BY DEF ThreadStopped, environment
  <1>3. t \in Busy(o) /\ mqtt[o].handle = t
    BY <1>1, <1>2 DEF Busy, ObjectInv, Alone
  <1>4. lock[o] = t /\ lock[o] # "main"
    BY <1>1, <1>2, ThreadsAssumption DEF ObjectInv, Locks
  <1>5. mqtt[o].closeNow # 2
    BY <1>1, <1>3, <1>4 DEF ObjectInv, Locks, Answered, MainAt
  <1>6. t \in CancelHandle(o)
    BY <1>2, <1>3, <1>5 DEF CancelHandle
  <1>7. cancelled' = cancelled /\ thread' = [thread EXCEPT ![o][t] = "none"]
        /\ leaked' = leaked + Held(o)
    BY <1>6 DEF ThreadStopped
  <1>8. thread \in [Mqtts -> [Threads -> ThreadType]] /\ "none" \in ThreadType
    BY <1>1, TypeParts DEF ThreadType
  <1>9. /\ thread' \in [Mqtts -> [Threads -> ThreadType]] /\ thread'[o][t] = "none"
        /\ \A u \in Threads: u # t => thread'[o][u] = thread[o][u]
        /\ \A x \in Mqtts: x # o => thread'[x] = thread[x]
    BY <1>7, <1>8, MovedThread
  <1>10. /\ mqtt' \in [Mqtts -> MqttType] /\ lock' \in [Mqtts -> Threads \union {"free", "main"}]
         /\ mqtt'[o].connected = mqtt[o].connected
         /\ mqtt'[o].queue = 0 /\ lock'[o] = "free"
         /\ \A x \in Mqtts: x # o => mqtt'[x] = mqtt[x] /\ lock'[x] = lock[x]
    BY <1>1, <1>2, CloseSocketEffect
  <1>11. TypeOK'
    <2>1. leaked' \in Nat
      BY <1>1, <1>7, TypeParts DEF Held
    <2> QED
      BY <1>1, <1>2, <1>7, <1>9, <1>10, <2>1, TypeParts, TypePartsNext
  <1>12. Room'
    <2>1. \A x \in Mqtts: mqtt'[x].queue \in {mqtt[x].queue, 0}
      BY <1>10
    <2> QED
      BY <1>2, <2>1 DEF IInv, Room, Mqtts
  <1>13. \A x \in Mqtts: x # o => Same(x)
    BY <1>7, <1>9, <1>10 DEF Same, SameObject
  <1>14. ObjectInv(o)'
    <2>1. Busy(o)' = {} /\ EndingAlive(o)'
      BY <1>3, <1>7, <1>9, BusyThreadEnds
    <2>2. Locks(o)'
      <3>1. \A u \in Threads: lock[o] = u <=> thread[o][u] = "stop"
        BY <1>1 DEF ObjectInv, Locks
      <3>2. \A u \in Threads: thread'[o][u] # "stop"
        BY <1>4, <1>9, <3>1
      <3>3. ~(main.in = o /\ main.pc \in {"stop", "init", "connect"})
        BY <1>1, <1>4 DEF ObjectInv, Locks
      <3> QED
        BY <1>2, <1>10, <3>2, <3>3, ThreadsAssumption DEF Locks
    <2>3. MainFits(o)
      BY <1>1, <1>2, <1>10 DEF ObjectInv, Paused, MainFits, ToOpen, MainAt
    <2> QED
      BY <2>1, <2>2, <2>3, QuietObject
  <1> QED
    BY <1>2, <1>11, <1>12, <1>13, <1>14, OtherObjects DEF IInv

LEMMA CancelledStep ==
    ASSUME IInv, NEW o \in Mqtts, NEW t \in Threads, Cancelled(o, t)
    PROVE  IInv'
  <1>1. TypeOK /\ \A x \in Mqtts: ObjectInv(x)
    BY DEF IInv
  <1>2. /\ t \in cancelled[o] /\ thread[o][t] \in {"run", "stop"}
        /\ thread' = [thread EXCEPT ![o][t] = "none"]
        /\ cancelled' = [cancelled EXCEPT ![o] = @ \ {t}]
        /\ UNCHANGED <<broker, faults, main, paused, heard>>
    BY DEF Cancelled, environment
  <1>3. /\ mqtt \in [Mqtts -> MqttType] /\ lock \in [Mqtts -> Threads \union {"free", "main"}]
        /\ thread \in [Mqtts -> [Threads -> ThreadType]] /\ "none" \in ThreadType
        /\ cancelled \in [Mqtts -> SUBSET Threads] /\ leaked \in Nat
    BY <1>1, TypeParts DEF ThreadType
  <1>4. /\ cancelled' \in [Mqtts -> SUBSET Threads] /\ cancelled'[o] = cancelled[o] \ {t}
        /\ \A x \in Mqtts: x # o => cancelled'[x] = cancelled[x]
    BY <1>2, <1>3
  <1>5. /\ lock' \in [Mqtts -> Threads \union {"free", "main"}] /\ leaked' \in Nat
        /\ lock'[o] = IF lock[o] = t THEN "free" ELSE lock[o]
        /\ \A x \in Mqtts: x # o => lock'[x] = lock[x]
    BY <1>3 DEF Cancelled, Held
  <1>6. mqtt' \in [Mqtts -> MqttType]
         /\ \A x \in Mqtts: SameObject(x) /\ mqtt'[x].queue = mqtt[x].queue
    <2>1. CASE UNCHANGED mqtt
      BY <1>3, <2>1 DEF SameObject
    <2>2. CASE mqtt' = [mqtt EXCEPT ![o].sock = "none"]
      <3> DEFINE n == [mqtt[o] EXCEPT !.sock = "none"]
      <3>1. n \in MqttType /\ n.connected = mqtt[o].connected /\ n.closeNow = mqtt[o].closeNow
            /\ n.handle = mqtt[o].handle /\ n.queue = mqtt[o].queue
        BY <1>3, SetSocket
      <3>2. mqtt' = [mqtt EXCEPT ![o] = n]
        BY <1>3, <2>2
      <3> HIDE DEF n
      <3> QED
        BY <1>3, <3>1, <3>2, ChangedObject DEF SameObject
    <2> QED
      BY <2>1, <2>2 DEF Cancelled
  <1>7. /\ thread' \in [Mqtts -> [Threads -> ThreadType]] /\ thread'[o][t] = "none"
        /\ \A u \in Threads: u # t => thread'[o][u] = thread[o][u]
        /\ \A x \in Mqtts: x # o => thread'[x] = thread[x]
    BY <1>2, <1>3, MovedThread
  <1>8. TypeOK'
    BY <1>1, <1>2, <1>4, <1>5, <1>7, <1>6, TypeParts, TypePartsNext
  <1>9. \A x \in Mqtts: x # o => Same(x)
    BY <1>2, <1>4, <1>5, <1>7, <1>6 DEF Same
  <1>10. ObjectInv(o)'
    <2>1. Busy(o)' = Busy(o) /\ t \notin Busy(o)
      BY <1>2, <1>4, <1>7 DEF Busy
    <2>2. Alone(o)' /\ Answered(o)' /\ Told(o)'
      BY <1>1, <1>2, <1>6, <2>1 DEF ObjectInv, Alone, Answered, Told, MainAt, SameObject
    <2>3. EndingAlive(o)'
      BY <1>1, <1>3, <1>4, <1>7 DEF ObjectInv, EndingAlive
    <2>4. \A u \in Threads: lock[o] = u <=> thread[o][u] = "stop"
      BY <1>1 DEF ObjectInv, Locks
    <2>5. Locks(o)'
      BY <1>1, <1>2, <1>5, <1>7, <2>4, ThreadsAssumption DEF ObjectInv, Locks
    <2>6. Calm(o) => Calm(o)'
      <3> SUFFICES ASSUME Calm(o) PROVE Calm(o)'
        OBVIOUS
      <3>1. cancelled[o] \subseteq Threads /\ Busy(o) \subseteq Threads
        BY <1>3 DEF Busy
      <3>2. \/ Busy(o)' = {} \/ \E u \in Busy(o)': thread'[o][u] = "stop"
            \/ \A u \in cancelled'[o]: thread'[o][u] \notin {"failed", "stop"}
        BY <1>4, <1>7, <2>1, <3>1 DEF Calm
      <3>3. CASE lock[o] = t
        <4>1. thread[o][t] = "stop" /\ \A u \in Busy(o): thread[o][u] # "stop"
          BY <2>1, <2>4, <3>1, <3>3
        <4>2. Busy(o) = {}
          BY <1>2, <4>1 DEF Calm
        <4> QED
          BY <2>1, <3>2, <4>2 DEF Calm
      <3>4. CASE lock[o] # t
        BY <1>2, <1>5, <1>6, <2>1, <3>2, <3>4 DEF Calm, SameObject
      <3> QED
        BY <3>3, <3>4
    <2>7. Paused(o)'
      BY <1>1, <1>2, <1>6, <2>6 DEF ObjectInv, Paused, ToOpen, WillOpen, MainAt, SameObject
    <2> QED
      BY <2>2, <2>3, <2>5, <2>7 DEF ObjectInv
  <1> QED
    BY <1>2, <1>8, <1>9, <1>10, <1>6, OtherObjects DEF IInv, Room, Mqtts

-----------------------------------------------------------------------------
(* The theorems.                                                           *)

LEMMA InitInv == Init => IInv
  <1> SUFFICES ASSUME Init PROVE IInv
    OBVIOUS
  <1>1. /\ broker \in BOOLEAN /\ faults = 0 /\ leaked = 0 /\ paused = FALSE
        /\ main = Idle /\ main.pc = "idle" /\ main.in = "writer" /\ heard \in HeardType
    BY DEF Init, Idle, HeardType
  <1>2. mqtt = [o \in Mqtts |-> NewMqtt]
    BY DEF Init
  <1>3. NewMqtt.connected = FALSE /\ NewMqtt.closeNow = 0
    BY DEF NewMqtt
  <1>4. ASSUME NEW x \in Mqtts
        PROVE  /\ mqtt[x] = NewMqtt /\ lock[x] = "free" /\ cancelled[x] = {}
               /\ \A t \in Threads: thread[x][t] = "none"
    BY DEF Init
  <1>5. TypeOK
    <2>1. mqtt \in [Mqtts -> MqttType]
      BY <1>2, NewMqttType
    <2>2. thread \in [Mqtts -> [Threads -> ThreadType]] /\ cancelled \in [Mqtts -> SUBSET Threads]
      BY DEF Init, ThreadType
    <2>3. lock \in [Mqtts -> Threads \union {"free", "main"}] /\ faults \in 0..MaxFaults
      BY BoundsAssumption DEF Init
    <2>4. main \in MainType
      BY <1>1 DEF Idle, MainType, Mqtts
    <2> QED
      BY <1>1, <2>1, <2>2, <2>3, <2>4, TypeParts
  <1>6. ASSUME NEW x \in Mqtts PROVE ObjectInv(x)
    <2>1. Busy(x) = {}
      BY <1>4 DEF Busy
    <2>2. Locks(x) /\ EndingAlive(x)
      BY <1>1, <1>4, ThreadsAssumption DEF Locks, EndingAlive
    <2>3. Alone(x) /\ Answered(x) /\ Told(x)
      BY <2>1 DEF Alone, Answered, Told
    <2>4. ~ToOpen(x) /\ ~MainAt("init", x) /\ ~MainAt("connect", x) /\ Calm(x)
      BY <1>1, <2>1 DEF ToOpen, MainAt, Calm
    <2> QED
      BY <2>2, <2>3, <2>4 DEF ObjectInv, Paused
  <1> QED
    BY <1>1, <1>5, <1>6 DEF IInv, Room

LEMMA NextStep == ASSUME IInv, [Next]_vars PROVE IInv'
  <1>1. CASE MainInside
    BY <1>1, MainDisconnectStep, MainStoppedStep, OpenStep, MqttInitStep, MqttConnectStep,
       SubscribeStep, DeleteStep DEF MainInside
  <1>2. CASE CheckConnection \/ PauseEnds \/ Write \/ Watchdog
    BY <1>2, CheckConnectionStep, PauseEndsStep, WriteStep, WatchdogStep
  <1>3. ASSUME NEW o \in Mqtts, NEW t \in Threads, ThreadNext(o, t)
        PROVE  IInv'
    BY <1>3, ThreadDisconnectStep, ThreadStoppedStep, CancelledStep, SyncStep, LeaveLoopStep,
       EndStep DEF ThreadNext
  <1>4. CASE (\E o \in Mqtts: Break(o) \/ Reset(o)) \/ BrokerDown \/ BrokerUp
    BY <1>4, NetworkStep
  <1>5. CASE Read \/ Silence \/ RecoverEnds
    BY <1>5, HeardStep
  <1>6. CASE UNCHANGED vars
    <2>1. TypeOK' /\ Room' /\ main' = main
      BY <1>6, TypeParts, TypePartsNext DEF vars, IInv, Room
    <2>2. \A x \in Mqtts: ObjectInv(x)'
      BY <1>6, MainStays DEF vars, IInv, Same, SameObject
    <2> QED
      BY <2>1, <2>2 DEF IInv
  <1> QED
    BY <1>1, <1>2, <1>3, <1>4, <1>5, <1>6 DEF Next

LEMMA Inductive == Spec => []IInv
  BY InitInv, NextStep, PTL DEF Spec

LEMMA OneIsBusy == IInv => OneRefresher
  <1> SUFFICES ASSUME IInv, NEW o \in Mqtts
               PROVE  Cardinality({t \in Threads \ cancelled[o]:
                                     thread[o][t] \in {"run", "failed", "stop"}}) <= 1
    BY DEF OneRefresher
  <1> DEFINE working == {t \in Threads \ cancelled[o]: thread[o][t] \in {"run", "failed", "stop"}}
             one == {mqtt[o].handle}
  <1>1. working \subseteq one
    BY DEF IInv, ObjectInv, Alone, Busy
  <1>2. IsFiniteSet(one) /\ Cardinality(one) = 1
    BY FS_Singleton
  <1> HIDE DEF working, one
  <1>3. IsFiniteSet(working) /\ Cardinality(working) <= Cardinality(one)
    BY <1>1, <1>2, FS_Subset
  <1> QED
    BY <1>2, <1>3 DEF working

(* The variables keep their types: whatever fails and however the threads of the *)
(* connections and main meet, the send buffer never takes more than fits into it. *)
THEOREM TypeCorrect == Spec => []TypeOK
  <1>1. IInv => TypeOK
    BY DEF IInv
  <1> QED
    BY <1>1, Inductive, PTL

(* Never two refresh threads work on one connection, with as many threads of      *)
(* earlier connections as there may be, also when an outage starts one at every    *)
(* retry that disconnects itself: connect() disconnects first, and disconnect()    *)
(* leaves no thread that has not been told to end or cancelled.  It rests on the   *)
(* pause between two tries: a thread takes a step that is due - see Due: it looks  *)
(* at close_now, gets the free lock, is cancelled - before the 20 s are over.      *)
THEOREM RefresherAlone == Spec => []OneRefresher
  BY Inductive, OneIsBusy, PTL
=============================================================================
