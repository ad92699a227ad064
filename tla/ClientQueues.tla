---------------------------- MODULE ClientQueues ----------------------------
(***************************************************************************)
(* The way of a message from the daemon to the browsers (websock.c).       *)
(*                                                                         *)
(* The main thread appends messages to Client::messagesOut; the thread of  *)
(* libwebsockets takes them from there into Client::msgBuffer and writes   *)
(* them in chunks of chunkSizeMax bytes, one per writable callback.  The   *)
(* callbacks have to be asked for by performData, which both threads call, *)
(* and what they do depends on the static msgType it leaves behind.        *)
(*                                                                         *)
(* A message is its number and the chunks it needs.  Each client connects  *)
(* once; addresses used again are the subject of ClientRequests.           *)
(***************************************************************************)
EXTENDS Naturals, Sequences, SequencesExt

CONSTANTS
    Clients,       \* the browsers
    MaxMessages,   \* bound: messages pushed
    MaxChunks      \* bound: chunks of a message

ASSUME QueuesAssumption == MaxMessages \in Nat /\ MaxChunks \in Nat \ {0}

VARIABLES
    conn,          \* new, open or gone
    messagesOut,   \* Client::messagesOut
    msgBuffer,     \* the message being sent, Nothing without
    sendOffset,    \* Client::msgBufferSendOffset, in chunks
    backOff,       \* Client::chokedUntilMs has not passed yet
    msgType,       \* cWebSock::msgType
    armed,         \* clients the library owes a writable callback
    choked,        \* clients whose pipe is full (lws_send_pipe_choked)
    lwsPc,         \* where service() is
    pinged,        \* the last pass of service() ended with a ping
    mainPc,        \* "perform" between pushOutMessage and performData
    lastId,        \* the number of the last message
    wire,          \* the frames the browser got: <<id, first, final>>
    owed           \* messages pushed for the client and not flushed since

vars == <<conn, messagesOut, msgBuffer, sendOffset, backOff, msgType, armed,
          choked, lwsPc, pinged, mainPc, lastId, wire, owed>>

Nothing == [id |-> 0, chunks |-> 0]
Message == [id : Nat, chunks : 1..MaxChunks]
OpenClients == {w \in Clients : conn[w] = "open"}

(* Mutant: the last chunk does not count. *)
DataPendingOffByOne(w) == sendOffset[w] + 1 < msgBuffer[w].chunks

(* msgBufferDataPending(): the payload size is 0 once all is sent. *)
DataPending(w) == sendOffset[w] < msgBuffer[w].chunks

-----------------------------------------------------------------------------
Connect(w) ==
    /\ lwsPc = "service" /\ conn[w] = "new"
    /\ conn' = [conn EXCEPT ![w] = "open"]
    /\ UNCHANGED <<messagesOut, msgBuffer, sendOffset, backOff, msgType, armed,
                   choked, lwsPc, pinged, mainPc, lastId, wire, owed>>

(* The entry of the client goes with all it holds. *)
Close(w) ==
    /\ lwsPc = "service" /\ conn[w] = "open"
    /\ conn' = [conn EXCEPT ![w] = "gone"]
    /\ messagesOut' = [messagesOut EXCEPT ![w] = <<>>]
    /\ msgBuffer' = [msgBuffer EXCEPT ![w] = Nothing]
    /\ sendOffset' = [sendOffset EXCEPT ![w] = 0]
    /\ owed' = [owed EXCEPT ![w] = <<>>]
    /\ armed' = armed \ {w}
    /\ UNCHANGED <<backOff, msgType, choked, lwsPc, pinged, mainPc, lastId, wire>>

(* The browser says logout: cleanupMessageQueue drops what is queued.      *)
(* A message already in the buffer is still sent to its end.               *)
ReceiveLogout(w) ==
    /\ lwsPc = "service" /\ conn[w] = "open"
    /\ messagesOut' = [messagesOut EXCEPT ![w] = <<>>]
    /\ owed' = [owed EXCEPT ![w] = SubSeq(@, 1, Len(@) - Len(messagesOut[w]))]
    /\ UNCHANGED <<conn, msgBuffer, sendOffset, backOff, msgType, armed, choked,
                   lwsPc, pinged, mainPc, lastId, wire>>

(* cWebSock::pushOutMessage, to one client or (wsi = 0) to all of them.    *)
PushOutMessage(chunks, to) ==
    /\ mainPc = "idle" /\ lastId < MaxMessages
    /\ lastId' = lastId + 1
    /\ LET m == [id |-> lastId + 1, chunks |-> chunks]
       IN /\ messagesOut' = [w \in Clients |-> IF w \in to THEN Append(messagesOut[w], m)
                                                          ELSE messagesOut[w]]
          /\ owed' = [w \in Clients |-> IF w \in to THEN Append(owed[w], m) ELSE owed[w]]
    /\ mainPc' = "perform"
    /\ UNCHANGED <<conn, msgBuffer, sendOffset, backOff, msgType, armed, choked,
                   lwsPc, pinged, wire>>

(* Mutant: a message half sent is forgotten. *)
PerformDataQueuesOnly(type) ==
    /\ msgType' = type
    /\ armed' = IF type = "mtPing" \/ \E w \in OpenClients : messagesOut[w] # <<>> /\ ~backOff[w]
                THEN OpenClients ELSE armed
    /\ UNCHANGED <<conn, messagesOut, msgBuffer, sendOffset, backOff, choked,
                   lastId, wire, owed>>

(* performData: all clients get a writable callback as soon as one of them *)
(* has something to send and is not in its back-off.                       *)
PerformData(type) ==
    /\ msgType' = type
    /\ armed' = IF \/ type = "mtPing"
                   \/ \E w \in OpenClients :
                         (DataPending(w) \/ messagesOut[w] # <<>>) /\ ~backOff[w]
                THEN OpenClients ELSE armed
    /\ UNCHANGED <<conn, messagesOut, msgBuffer, sendOffset, backOff, choked,
                   lastId, wire, owed>>

MainPerformData ==
    /\ mainPc = "perform"
    /\ mainPc' = "idle"
    /\ PerformData("mtData")
    /\ UNCHANGED <<lwsPc, pinged>>

(* service(): lws_service with its callbacks, then performData(mtData) and *)
(* every timeout - 5 seconds performData(mtPing), that is never in two     *)
(* passes that follow each other.                                          *)
ServiceDone ==
    /\ lwsPc = "service"
    /\ lwsPc' = "data"
    /\ UNCHANGED <<conn, messagesOut, msgBuffer, sendOffset, backOff, msgType, armed,
                   choked, pinged, mainPc, lastId, wire, owed>>

LwsPerformData ==
    /\ lwsPc = "data"
    /\ PerformData("mtData")
    /\ lwsPc' \in IF pinged THEN {"service"} ELSE {"service", "ping"}
    /\ pinged' = FALSE
    /\ UNCHANGED mainPc

LwsPerformPing ==
    /\ lwsPc = "ping"
    /\ PerformData("mtPing")
    /\ lwsPc' = "service" /\ pinged' = TRUE
    /\ UNCHANGED mainPc

-----------------------------------------------------------------------------
(* LWS_CALLBACK_SERVER_WRITEABLE.  The library calls it for a client that  *)
(* asked for it once its socket accepts data.                              *)

WritablePing(w) ==
    /\ msgType = "mtPing"
    /\ armed' = armed \ {w}
    /\ UNCHANGED <<messagesOut, msgBuffer, sendOffset, backOff, wire>>

NothingToSend(w) ==
    /\ msgType = "mtData" /\ ~DataPending(w) /\ messagesOut[w] = <<>>
    /\ armed' = armed \ {w}
    /\ UNCHANGED <<messagesOut, msgBuffer, sendOffset, backOff, wire>>

(* Retry in 200 ms, not with the next loop. *)
PipeChoked(w) ==
    /\ msgType = "mtData" /\ (DataPending(w) \/ messagesOut[w] # <<>>)
    /\ choked[w]
    /\ backOff' = [backOff EXCEPT ![w] = TRUE]
    /\ armed' = armed \ {w}
    /\ UNCHANGED <<messagesOut, msgBuffer, sendOffset, wire>>

(* Mutant: the offset is not reset after the last chunk. *)
SendChunkKeepsOffset(w) ==
    /\ msgType = "mtData" /\ (DataPending(w) \/ messagesOut[w] # <<>>)
    /\ ~choked[w]
    /\ LET fresh  == ~DataPending(w)
           m      == IF fresh THEN Head(messagesOut[w]) ELSE msgBuffer[w]
           final  == sendOffset[w] + 1 >= m.chunks
       IN /\ messagesOut' = [messagesOut EXCEPT ![w] = IF fresh THEN Tail(@) ELSE @]
          /\ msgBuffer' = [msgBuffer EXCEPT ![w] = IF final THEN Nothing ELSE m]
          /\ sendOffset' = [sendOffset EXCEPT ![w] = @ + 1]
    /\ UNCHANGED <<backOff, armed, wire>>

(* One chunk, of the message in the buffer or else of the next one. *)
SendChunk(w) ==
    /\ msgType = "mtData" /\ (DataPending(w) \/ messagesOut[w] # <<>>)
    /\ ~choked[w]
    /\ LET fresh  == ~DataPending(w)
           m      == IF fresh THEN Head(messagesOut[w]) ELSE msgBuffer[w]
           offset == IF fresh THEN 0 ELSE sendOffset[w]
           final  == offset + 1 >= m.chunks
           rest   == IF fresh THEN Tail(messagesOut[w]) ELSE messagesOut[w]
       IN /\ messagesOut' = [messagesOut EXCEPT ![w] = rest]
          /\ msgBuffer' = [msgBuffer EXCEPT ![w] = IF final THEN Nothing ELSE m]
          /\ sendOffset' = [sendOffset EXCEPT ![w] = IF final THEN 0 ELSE offset + 1]
          /\ wire' = [wire EXCEPT ![w] = Append(@, <<m.id, offset = 0, final>>)]
          /\ armed' = IF ~final \/ rest # <<>> THEN armed \union {w} ELSE armed \ {w}
    /\ UNCHANGED backOff

Writable(w) ==
    /\ lwsPc = "service" /\ conn[w] = "open" /\ w \in armed
    /\ WritablePing(w) \/ NothingToSend(w) \/ PipeChoked(w) \/ SendChunk(w)
    /\ UNCHANGED <<conn, msgType, choked, lwsPc, pinged, mainPc, lastId, owed>>

(* The pipe fills up and drains, and the back-off passes. *)
PipeChanges(w) ==
    /\ conn[w] = "open"
    /\ choked' = [choked EXCEPT ![w] = ~@]
    /\ UNCHANGED <<conn, messagesOut, msgBuffer, sendOffset, backOff, msgType, armed,
                   lwsPc, pinged, mainPc, lastId, wire, owed>>

BackOffPasses(w) ==
    /\ backOff[w]
    /\ backOff' = [backOff EXCEPT ![w] = FALSE]
    /\ UNCHANGED <<conn, messagesOut, msgBuffer, sendOffset, msgType, armed, choked,
                   lwsPc, pinged, mainPc, lastId, wire, owed>>

-----------------------------------------------------------------------------
Init ==
    /\ conn = [w \in Clients |-> "new"]
    /\ messagesOut = [w \in Clients |-> <<>>]
    /\ msgBuffer = [w \in Clients |-> Nothing]
    /\ sendOffset = [w \in Clients |-> 0]
    /\ backOff = [w \in Clients |-> FALSE]
    /\ msgType = "mtNone"
    /\ armed = {}
    /\ choked = [w \in Clients |-> FALSE]
    /\ lwsPc = "service" /\ pinged = FALSE /\ mainPc = "idle"
    /\ lastId = 0
    /\ wire = [w \in Clients |-> <<>>]
    /\ owed = [w \in Clients |-> <<>>]

Push ==
    \E chunks \in 1..MaxChunks :
        \/ PushOutMessage(chunks, OpenClients)
        \/ \E w \in OpenClients : PushOutMessage(chunks, {w})

LwsLoop == ServiceDone \/ LwsPerformData \/ LwsPerformPing

Next ==
    \/ Push \/ MainPerformData \/ LwsLoop
    \/ \E w \in Clients :
        \/ Connect(w) \/ Close(w) \/ ReceiveLogout(w) \/ Writable(w)
        \/ PipeChanges(w) \/ BackOffPasses(w)

(* The loop of the lws thread never ends and time passes.  A socket that   *)
(* is asked for and accepts data in pass after pass of lws_service is      *)
(* served in one of them, not only in the passes that follow a ping.       *)
Fairness ==
    /\ WF_vars(LwsLoop) /\ WF_vars(MainPerformData)
    /\ \A w \in Clients : SF_vars(Writable(w) /\ msgType = "mtData") /\ WF_vars(BackOffPasses(w))

Spec == Init /\ [][Next]_vars /\ Fairness

-----------------------------------------------------------------------------
(* The types of the variables. *)
TypeOK ==
    /\ conn \in [Clients -> {"new", "open", "gone"}]
    /\ messagesOut \in [Clients -> Seq(Message)]
    /\ msgBuffer \in [Clients -> Message \union {Nothing}]
    /\ sendOffset \in [Clients -> 0..MaxChunks]
    /\ backOff \in [Clients -> BOOLEAN]
    /\ msgType \in {"mtNone", "mtPing", "mtData"}
    /\ armed \subseteq Clients
    /\ choked \in [Clients -> BOOLEAN]
    /\ lwsPc \in {"service", "data", "ping"}
    /\ pinged \in BOOLEAN
    /\ mainPc \in {"idle", "perform"}
    /\ lastId \in 0..MaxMessages
    /\ wire \in [Clients -> Seq(Nat \X BOOLEAN \X BOOLEAN)]
    /\ owed \in [Clients -> Seq(Message)]

(* The frames a message is cut into. *)
Frames(m) == [i \in 1..m.chunks |-> <<m.id, i = 1, i = m.chunks>>]
FramesOf(queue) == FlattenSeq([i \in 1..Len(queue) |-> Frames(queue[i])])

(* What a browser still gets when nothing more is pushed or flushed: the   *)
(* rest of the message in the buffer, then all that is queued.             *)
RestOf(w) ==
    (IF DataPending(w)
     THEN SubSeq(Frames(msgBuffer[w]), sendOffset[w] + 1, msgBuffer[w].chunks)
     ELSE <<>>)
    \o FramesOf(messagesOut[w])

(* Every message pushed for an open client and not flushed reaches it      *)
(* exactly once, whole, in the order of the pushes, and the chunks of two  *)
(* messages never mix: what is on the wire and what is still to come are   *)
(* together the frames of those messages.                                  *)
NothingLostOrMixed ==
    \A w \in OpenClients : wire[w] \o RestOf(w) = FramesOf(owed[w])

(* All that is queued for a client is, again and again, sent, flushed or   *)
(* dropped with the connection, provided its pipe does not stay choked: no *)
(* callback that performData has to ask for is missed, whatever the other  *)
(* thread does to msgType.                                                 *)
MessagesSent ==
    \A w \in Clients :
        (<>[]~choked[w]) => []<>(messagesOut[w] = <<>> /\ ~DataPending(w))
=============================================================================
