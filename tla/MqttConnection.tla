--------------------------- MODULE MqttConnection ---------------------------
(***************************************************************************)
(* The daemon's connection to the MQTT broker (hass.c, lib/mqtt.c): one    *)
(* Mqtt object publishes, the other one subscribes.  Main connects, writes *)
(* and disconnects; each connection has a refresh thread that moves the    *)
(* bytes and, when the socket fails, disconnects on its own.               *)
(*                                                                         *)
(* Both sides take connectMutex in connect() and disconnect().             *)
(* disconnect() asks the refresh thread to end (close_now = 1), waits up   *)
(* to 10 s for its answer (close_now = 2) and else cancels it.  A thread   *)
(* which disconnects itself waits for its own end.                         *)
(*                                                                         *)
(* A socket whose connect() is refused is used all the same: while the     *)
(* broker is away each try starts a thread, which finds the socket without *)
(* a connection and disconnects.  5 minutes without any message read make  *)
(* main disconnect and delete both objects.                                *)
(***************************************************************************)
EXTENDS Naturals, FiniteSets

CONSTANTS
    Threads,      \* the refresh threads an object can have at a time
    SendBuffer,   \* messages that fit into the send buffer
    Descriptors,  \* sockets the process can have open at a time
    Addresses,    \* addresses of the broker, tried one after the other
    MaxFaults     \* bound on faults of the network and the broker

Mqtts == {"writer", "reader"}
NoThread == "none"

ASSUME ThreadsAssumption == "none" \notin Threads /\ "main" \notin Threads /\ "free" \notin Threads
ASSUME BoundsAssumption == 
    /\ SendBuffer \in Nat /\ SendBuffer >= 2 /\ MaxFaults \in Nat
    /\ Descriptors \in Nat /\ Addresses \in Nat \ {0}

VARIABLES
    broker,       \* the broker is reachable
    faults,       \* faults up to now
    mqtt,         \* the state of each object
    lock,         \* who holds its connectMutex
    thread,       \* where each refresh thread of the object is
    cancelled,    \* the threads with a pending cancellation
    leaked,       \* number of sockets given up without closing them
    main,         \* where main is, in which object, and what it does next
    paused,       \* less than 20 s since the last try to connect (lastMqttConnectAt)
    heard         \* the age of lastMqttRead: "lately", "stale" after 300 s, or stale and
                  \* "recovering" for the 60 s of lastMqttRecover

vars == <<broker, faults, mqtt, lock, thread, cancelled, leaked, main, paused, heard>>
environment == <<broker, faults>>

\* A new object: `new Mqtt', and `new mqtt_client' with its default member initializers.
NewMqtt == [connected |-> FALSE, closeNow |-> 0, error |-> "none", sock |-> "none",
            queue |-> 0, subscribed |-> FALSE, handle |-> NoThread]

Idle == [pc |-> "idle", in |-> "writer", next |-> "idle"]
At(pc, o, next) == [pc |-> pc, in |-> o, next |-> next]
MainAt(pc, o) == main.pc = pc /\ main.in = o

\* What main does after a disconnect().
Continue == CASE main.next = "open"   -> At("open", main.in, "idle")
              [] main.next = "writer" -> At("disconnect", "writer", "delete")
              [] main.next = "delete" -> At("delete", "writer", "idle")
              [] OTHER                -> Idle

\* The connection carries messages: its thread is alive and the socket works.
Works(o) == /\ mqtt[o].connected /\ mqtt[o].closeNow = 0 /\ mqtt[o].error = "none"
            /\ mqtt[o].sock = "ok"
            /\ \E t \in Threads: thread[o][t] = "run"
Hears == Works("reader") /\ mqtt["reader"].subscribed
Online == Works("writer") /\ Hears

\* The sockets that can still be opened.
Held(o) == IF mqtt[o].sock = "none" THEN 0 ELSE 1
InUse == leaked + Held("writer") + Held("reader")
Free == Descriptors - InUse

-----------------------------------------------------------------------------
(* disconnect(), by main or by a refresh thread                            *)

\* The lock is taken and the thread told to end, unless the connection is gone.
Request(o, who) ==
    /\ mqtt' = [mqtt EXCEPT ![o].connected = FALSE, ![o].closeNow = 1]
    /\ lock' = [lock EXCEPT ![o] = who]

\* Mutant: the wait for the thread has no limit.
WaitOverStopped(o, who) == mqtt[o].closeNow = 2

\* The loop of disconnect() ends: close_now is 2, or the 10 s are over - a thread
\* that is in its loop answers within a few ms.
WaitOver(o, who) == \/ mqtt[o].closeNow = 2
                    \/ \A t \in Threads \ {who}: thread[o][t] \notin {"run", "ending"}

\* Mutant: a thread that does not answer is left alone.
CancelHandleNot(o) == {}

\* pthread_cancel of the thread of this connection, with no effect on a thread that
\* has ended.
CancelHandle(o) ==
    IF mqtt[o].closeNow # 2 /\ mqtt[o].handle \in Threads
    THEN {t \in {mqtt[o].handle}: thread[o][t] # "none"}
    ELSE {}

\* The rest of disconnect().  What the next mqtt_init sets again is set here: nobody
\* looks at it in between.
CloseSocket(o) ==
    /\ mqtt' = [mqtt EXCEPT ![o].handle = NoThread, ![o].sock = "none", ![o].error = "none",
                            ![o].queue = 0, ![o].subscribed = FALSE]
    /\ lock' = [lock EXCEPT ![o] = "free"]

MainDisconnect(o) ==
    /\ MainAt("disconnect", o) /\ lock[o] = "free"
    /\ \/ /\ ~mqtt[o].connected
          /\ main' = Continue
          /\ UNCHANGED <<mqtt, lock>>
       \/ /\ mqtt[o].connected
          /\ Request(o, "main")
          /\ main' = [main EXCEPT !.pc = "stop"]
    /\ UNCHANGED <<environment, thread, cancelled, leaked, paused, heard>>

MainStopped(o) ==
    /\ MainAt("stop", o) /\ WaitOver(o, "main")
    /\ cancelled' = [cancelled EXCEPT ![o] = @ \union CancelHandle(o)]
    /\ CloseSocket(o)
    /\ main' = Continue
    /\ UNCHANGED <<environment, thread, leaked, paused, heard>>

ThreadDisconnect(o, t) ==
    /\ thread[o][t] = "failed" /\ lock[o] = "free"
    /\ \/ /\ ~mqtt[o].connected
          /\ thread' = [thread EXCEPT ![o][t] = "run"]
          /\ UNCHANGED <<mqtt, lock>>
       \/ /\ mqtt[o].connected
          /\ Request(o, t)
          /\ thread' = [thread EXCEPT ![o][t] = "stop"]
    /\ UNCHANGED <<environment, cancelled, leaked, main, paused, heard>>

\* A thread that cancels itself ends at close(), its next cancellation point: the
\* lock is released on the way out, the socket is not closed.
ThreadStopped(o, t) ==
    /\ thread[o][t] = "stop" /\ t \notin cancelled[o] /\ WaitOver(o, t)
    /\ \/ /\ t \notin CancelHandle(o)
          /\ cancelled' = [cancelled EXCEPT ![o] = @ \union CancelHandle(o)]
          /\ thread' = [thread EXCEPT ![o][t] = "run"]
          /\ leaked' = leaked
       \/ /\ t \in CancelHandle(o)
          /\ cancelled' = cancelled
          /\ thread' = [thread EXCEPT ![o][t] = "none"]
          /\ leaked' = leaked + Held(o)
    /\ CloseSocket(o)
    /\ UNCHANGED <<environment, main, paused, heard>>

\* A cancellation takes effect in SleepMs() or usleep().
Cancelled(o, t) ==
    /\ t \in cancelled[o] /\ thread[o][t] \in {"run", "stop"}
    /\ thread' = [thread EXCEPT ![o][t] = "none"]
    /\ cancelled' = [cancelled EXCEPT ![o] = @ \ {t}]
    /\ \/ /\ lock[o] = t
          /\ lock' = [lock EXCEPT ![o] = "free"]
          /\ mqtt' = [mqtt EXCEPT ![o].sock = "none"]
          /\ leaked' = leaked + Held(o)
       \/ /\ lock[o] # t
          /\ UNCHANGED <<mqtt, lock, leaked>>
    /\ UNCHANGED <<environment, main, paused, heard>>

-----------------------------------------------------------------------------
(* The refresh thread                                                      *)

\* mqtt_sync: reads and sends, or fails.  It waits while mqtt_init holds the mutex
\* of the client, and does nothing before, as the client has no socket yet.
Sync(o, t) ==
    /\ thread[o][t] = "run" /\ t \notin cancelled[o]
    /\ mqtt[o].closeNow = 0 /\ mqtt[o].sock # "none"
    /\ ~MainAt("init", o) /\ ~MainAt("connect", o)
    /\ \/ /\ mqtt[o].sock = "broken"
          /\ mqtt' = [mqtt EXCEPT ![o].error = "socket"]
          /\ thread' = [thread EXCEPT ![o][t] = "failed"]
       \/ /\ mqtt[o].sock # "broken"
          /\ mqtt' = [mqtt EXCEPT ![o].queue = 0]
          /\ UNCHANGED thread
    /\ UNCHANGED <<environment, lock, cancelled, leaked, main, paused, heard>>

\* The condition of the loop: close_now is set, perhaps still from the connection before.
LeaveLoop(o, t) ==
    /\ thread[o][t] = "run" /\ t \notin cancelled[o] /\ mqtt[o].closeNow # 0
    /\ thread' = [thread EXCEPT ![o][t] = "ending"]
    /\ UNCHANGED <<environment, mqtt, lock, cancelled, leaked, main, paused, heard>>

End(o, t) ==
    /\ thread[o][t] = "ending"
    /\ mqtt' = [mqtt EXCEPT ![o].closeNow = 2]
    /\ thread' = [thread EXCEPT ![o][t] = "none"]
    /\ cancelled' = [cancelled EXCEPT ![o] = @ \ {t}]
    /\ UNCHANGED <<environment, lock, leaked, main, paused, heard>>

ThreadNext(o, t) == \/ ThreadDisconnect(o, t) \/ ThreadStopped(o, t) \/ Cancelled(o, t)
                    \/ Sync(o, t) \/ LeaveLoop(o, t) \/ End(o, t)

-----------------------------------------------------------------------------
(* Main                                                                    *)

\* mqttCheckConnection, when one of the two is not connected: connect() begins with
\* a disconnect(), which only waits for the lock, as the object is not connected.
CheckConnection ==
    /\ main.pc = "idle" /\ ~paused
    /\ \E o \in Mqtts:
          /\ ~mqtt[o].connected
          /\ o = "reader" => mqtt["writer"].connected
          /\ main' = At("disconnect", o, "open")
    /\ paused' = TRUE
    /\ UNCHANGED <<environment, mqtt, lock, thread, cancelled, leaked, heard>>

\* A step that a thread takes within 100 ms: it looks at close_now, answers, gets the
\* free lock or is cancelled.
Due(o, t) ==
    \/ thread[o][t] = "run" /\ (mqtt[o].closeNow # 0 \/ t \in cancelled[o])
    \/ thread[o][t] = "failed" /\ lock[o] = "free"
    \/ thread[o][t] = "stop" /\ t \in cancelled[o]
    \/ thread[o][t] = "ending"

\* `retry connect all 20 seconds': time enough for what is due.
PauseEnds ==
    /\ paused /\ main.pc = "idle"
    /\ \A o \in Mqtts, t \in Threads: ~Due(o, t)
    /\ paused' = FALSE
    /\ UNCHANGED <<environment, mqtt, lock, thread, cancelled, leaked, main, heard>>

\* Sockets that openSocket() opens, one for each address that refuses.
Tried == IF broker THEN 1 ELSE Addresses

\* openSocket() returns -1 when the name of the broker is not resolved, or no socket is
\* left for the last address; those for the addresses before are lost.
OpenFails ==
    /\ \/ ~broker /\ leaked' = leaked
       \/ \E opened \in 0..(Tried - 1): opened = Free /\ leaked' = leaked + opened
    /\ main' = Idle
    /\ UNCHANGED <<mqtt, lock, thread>>

Unused(o) == {t \in Threads: thread[o][t] = "none"}

\* When all refuse, openSocket() returns the last socket, like one with a connection.
\* The refresh thread begins at once.
OpenSocket(o) ==
    /\ Free >= Tried /\ leaked' = leaked + Tried - 1
    /\ Unused(o) # {}
    /\ LET t == CHOOSE t \in Unused(o): TRUE IN
          /\ mqtt' = [mqtt EXCEPT ![o].sock = IF broker THEN "ok" ELSE "broken", ![o].handle = t]
          /\ thread' = [thread EXCEPT ![o][t] = "run"]
    /\ lock' = [lock EXCEPT ![o] = "main"]
    /\ main' = At("init", o, "idle")

\* connect() up to the start of the refresh thread.
Open(o) ==
    /\ MainAt("open", o) /\ lock[o] = "free"
    /\ OpenFails \/ OpenSocket(o)
    /\ UNCHANGED <<environment, cancelled, paused, heard>>

MqttInit(o) ==
    /\ MainAt("init", o)
    /\ mqtt' = [mqtt EXCEPT ![o].closeNow = 0, ![o].error = "none", ![o].queue = 0,
                            ![o].subscribed = FALSE]
    /\ main' = At("connect", o, "idle")
    /\ UNCHANGED <<environment, lock, thread, cancelled, leaked, paused, heard>>

\* Mutant: the topics are not subscribed to again.
MqttConnectOnly(o) ==
    /\ MainAt("connect", o)
    /\ mqtt' = [mqtt EXCEPT ![o].connected = TRUE, ![o].queue = 1]
    /\ lock' = [lock EXCEPT ![o] = "free"]
    /\ main' = IF mqtt["reader"].connected \/ o = "reader" THEN Idle
               ELSE At("disconnect", "reader", "open")
    /\ UNCHANGED <<environment, thread, cancelled, leaked, paused, heard>>

\* mqtt_connect and the end of connect(); the reader is next, and then subscribes.
MqttConnect(o) ==
    /\ MainAt("connect", o)
    /\ mqtt' = [mqtt EXCEPT ![o].connected = TRUE, ![o].queue = 1]
    /\ lock' = [lock EXCEPT ![o] = "free"]
    /\ main' = IF o = "reader" THEN At("subscribe", o, "idle")
               ELSE IF mqtt["reader"].connected THEN Idle
               ELSE At("disconnect", "reader", "open")
    /\ UNCHANGED <<environment, thread, cancelled, leaked, paused, heard>>

\* One topic stands for all.
Subscribe ==
    /\ MainAt("subscribe", "reader")
    /\ LET reader == mqtt["reader"] IN
       \/ /\ ~reader.connected
          /\ main' = Idle /\ UNCHANGED mqtt
       \/ /\ reader.connected /\ reader.error # "none"
          /\ main' = At("disconnect", "reader", "idle") /\ UNCHANGED mqtt
       \/ /\ reader.connected /\ reader.error = "none"
          /\ mqtt' = [mqtt EXCEPT !["reader"].subscribed = TRUE, !["reader"].queue = @ + 1]
          /\ main' = Idle
    /\ UNCHANGED <<environment, lock, thread, cancelled, leaked, paused, heard>>

\* Mutant: the limit of the buffer is not looked at.
FullNever(o) == FALSE

\* A message does not fit into the send buffer.
Full(o) == mqtt[o].queue = SendBuffer

\* write(): a ping, or the value of a sensor; disconnects when the client has failed.
Write ==
    /\ main.pc = "idle" /\ mqtt["writer"].connected
    /\ LET writer == mqtt["writer"] IN
       \/ /\ writer.error # "none" \/ Full("writer")
          /\ mqtt' = [mqtt EXCEPT !["writer"].error = IF @ = "none" THEN "full" ELSE @]
          /\ main' = At("disconnect", "writer", "idle")
       \/ /\ writer.error = "none" /\ ~Full("writer")
          /\ mqtt' = [mqtt EXCEPT !["writer"].queue = @ + 1]
          /\ UNCHANGED main
    /\ UNCHANGED <<environment, lock, thread, cancelled, leaked, paused, heard>>

\* A ping, or what others publish.
Read ==
    /\ main.pc = "idle" /\ Hears /\ heard # "lately"
    /\ heard' = "lately"
    /\ UNCHANGED <<environment, mqtt, lock, thread, cancelled, leaked, main, paused>>

\* No message for 5 minutes.  As long as both connections work a ping comes every 30 s.
Silence ==
    /\ heard = "lately" /\ ~Online
    /\ heard' = "stale"
    /\ UNCHANGED <<environment, mqtt, lock, thread, cancelled, leaked, main, paused>>

\* `disconnect from MQTT to force recover', not again for 60 s.
Watchdog ==
    /\ main.pc = "idle" /\ mqtt["reader"].connected /\ heard = "stale"
    /\ heard' = "recovering"
    /\ main' = At("disconnect", "reader", "writer")
    /\ UNCHANGED <<environment, mqtt, lock, thread, cancelled, leaked, paused>>

RecoverEnds ==
    /\ heard = "recovering"
    /\ heard' = "stale"
    /\ UNCHANGED <<environment, mqtt, lock, thread, cancelled, leaked, main, paused>>

\* The end of mqttDisconnect(), the objects are created again when they are needed.
\* A thread that still waits for the lock of a deleted object uses freed memory: it
\* ends, or the process does and starts again - with new objects as well.
Delete ==
    /\ main.pc = "delete"
    /\ mqtt' = [o \in Mqtts |-> NewMqtt]
    /\ lock' = [o \in Mqtts |-> "free"]
    /\ thread' = [o \in Mqtts |-> [t \in Threads |-> "none"]]
    /\ cancelled' = [o \in Mqtts |-> {}]
    /\ main' = Idle
    /\ UNCHANGED <<environment, leaked, paused, heard>>

MainInside == \/ \E o \in Mqtts: \/ MainDisconnect(o) \/ MainStopped(o) \/ Open(o)
                                 \/ MqttInit(o) \/ MqttConnect(o)
              \/ Subscribe \/ Delete

-----------------------------------------------------------------------------
(* The network and the broker                                              *)

\* A connection ends silently: recv() returns 0 at the end of the stream, which is no
\* error for mqtt_sync, or nothing comes at all.
Break(o) ==
    /\ mqtt[o].sock = "ok" /\ faults < MaxFaults
    /\ mqtt' = [mqtt EXCEPT ![o].sock = "silent"]
    /\ faults' = faults + 1
    /\ UNCHANGED <<broker, lock, thread, cancelled, leaked, main, paused, heard>>

\* The reset of a connection, at its end or as the answer to something sent later.
Reset(o) ==
    /\ mqtt[o].sock = "silent"
    /\ mqtt' = [mqtt EXCEPT ![o].sock = "broken"]
    /\ UNCHANGED <<environment, lock, thread, cancelled, leaked, main, paused, heard>>

BrokerDown ==
    /\ broker /\ faults < MaxFaults
    /\ broker' = FALSE /\ faults' = faults + 1
    /\ mqtt' = [o \in Mqtts |-> IF mqtt[o].sock = "ok" THEN [mqtt[o] EXCEPT !.sock = "silent"]
                                ELSE mqtt[o]]
    /\ UNCHANGED <<lock, thread, cancelled, leaked, main, paused, heard>>

BrokerUp ==
    /\ ~broker
    /\ broker' = TRUE
    /\ UNCHANGED <<faults, mqtt, lock, thread, cancelled, leaked, main, paused, heard>>

-----------------------------------------------------------------------------
Init ==
    /\ broker \in BOOLEAN /\ faults = 0
    /\ mqtt = [o \in Mqtts |-> NewMqtt]
    /\ lock = [o \in Mqtts |-> "free"]
    /\ thread = [o \in Mqtts |-> [t \in Threads |-> "none"]]
    /\ cancelled = [o \in Mqtts |-> {}]
    /\ leaked = 0
    /\ main = Idle /\ paused = FALSE /\ heard = "lately"

Next ==
    \/ MainInside \/ CheckConnection \/ PauseEnds \/ Write
    \/ Read \/ Silence \/ Watchdog \/ RecoverEnds
    \/ \E o \in Mqtts, t \in Threads: ThreadNext(o, t)
    \/ \E o \in Mqtts: Break(o) \/ Reset(o)
    \/ BrokerDown \/ BrokerUp

\* The pings, every 30 s when both objects are connected.
Ping == mqtt["reader"].connected /\ Write

\* mqtt_init clears close_now before the new refresh thread looks at it.
StartedInTime(o) == MqttInit(o) /\ thread[o][mqtt[o].handle] = "run"

\* Main and the threads go on, time passes, the broker comes back.  Each pass of main's
\* loop tests for the watchdog, whatever it did before.  TCP resets a connection into
\* which something is sent in vain.  The race at the start of the writer's thread is not
\* lost for ever; that of the reader may be, as the watchdog creates it again.
Fairness ==
    /\ WF_vars(MainInside \/ CheckConnection \/ PauseEnds)
    /\ \A o \in Mqtts, t \in Threads: WF_vars(ThreadNext(o, t))
    /\ WF_vars(Ping) /\ WF_vars(Silence /\ ~Hears) /\ WF_vars(RecoverEnds)
    /\ SF_vars(Watchdog) /\ SF_vars(StartedInTime("writer"))
    /\ WF_vars(Reset("writer")) /\ WF_vars(BrokerUp)

Spec == Init /\ [][Next]_vars /\ Fairness

-----------------------------------------------------------------------------
(* Properties                                                              *)

\* The types of the variables; the send buffer never takes more than fits into it.
TypeOK ==
    /\ broker \in BOOLEAN /\ faults \in 0..MaxFaults /\ paused \in BOOLEAN
    /\ leaked \in Nat /\ heard \in {"lately", "stale", "recovering"}
    /\ mqtt \in [Mqtts -> [connected: BOOLEAN, closeNow: 0..2, error: {"none", "full", "socket"},
                           sock: {"none", "ok", "silent", "broken"}, queue: 0..SendBuffer,
                           subscribed: BOOLEAN, handle: Threads \union {NoThread}]]
    /\ lock \in [Mqtts -> Threads \union {"free", "main"}]
    /\ thread \in [Mqtts -> [Threads -> {"none", "run", "failed", "stop", "ending"}]]
    /\ cancelled \in [Mqtts -> SUBSET Threads]
    /\ main \in [pc: {"idle", "disconnect", "stop", "open", "init", "connect", "subscribe",
                      "delete"}, in: Mqtts, next: {"idle", "open", "writer", "delete"}]

\* Never two refresh threads work on one connection: a thread of the connection before
\* that was late to see its end would read its bytes and disconnect it.
OneRefresher == \A o \in Mqtts: mqtt[o].closeNow = 0 =>
    Cardinality({t \in Threads \ cancelled[o]: thread[o][t] \in {"run", "failed", "stop"}}) <= 1

\* However the locks, the waits and the failures of both sides meet, main comes back to
\* its loop.
MainKeepsRunning == []<>(main.pc = "idle")

\* When broker and network come back, both connections work again, the reader with its
\* topics, although a refresh thread may have ended right at its start - as long as the
\* sockets lost leave two.
OnlineAgain == []<>Online \/ <>[](Descriptors - leaked < 2)

\* `disconnect and close socket': a connection that is given up has its socket closed.
SocketsClosed == leaked = 0
=============================================================================
