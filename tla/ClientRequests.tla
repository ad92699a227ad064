--------------------------- MODULE ClientRequests ---------------------------
(***************************************************************************)
(* The way of a request of the web interface into the daemon.              *)
(*                                                                         *)
(* Two threads share it.  The thread of libwebsockets (websock.c) owns the *)
(* connections: its callbacks fill cWebSock::clients and push the requests *)
(* into HomeCtl::messagesIn.  The main thread (daemon.c, wsactions.c)      *)
(* drains messagesIn under messagesInMutex, keeps the rights of the logged *)
(* in clients in HomeCtl::wsClients and checks them for each request.      *)
(*                                                                         *)
(* A client is known to both threads only by the address of its struct     *)
(* lws, which the library reuses for a later connection.  `conn' numbers   *)
(* the connections so that the properties can tell them apart; no action   *)
(* depends on it.                                                          *)
(***************************************************************************)
EXTENDS Naturals, Sequences, SequencesExt, FiniteSets

CONSTANTS
    Clients,      \* addresses of struct lws, reused by the library
    Events,       \* the requests a browser sends besides login
    Users,        \* rows of the table users
    UserRights,   \* [Users -> SUBSET AllRights], column users.rights
    FactRights,   \* column valuefacts.rights of the output toggled by toggleio
    MaxConn,      \* bound: connections ever established
    MaxPending    \* bound: requests pending when a browser sends another one

AllRights == {"urView", "urControl", "urFullControl", "urSettings", "urAdmin"}

ASSUME ConstantsAssumption ==
    /\ Clients # {} /\ Users # {}
    /\ "login" \notin Events /\ "logout" \notin Events
    /\ UserRights \in [Users -> SUBSET AllRights]
    /\ FactRights \subseteq AllRights
    /\ MaxConn \in Nat /\ MaxPending \in Nat

VARIABLES
    state,        \* the connection behind an address: none, open or closing
    cur,          \* the number of the last connection at an address
    nextConn,     \* connections established so far
    clients,      \* keys of cWebSock::clients
    lwsPc,        \* where the thread of libwebsockets is
    lwsMsg,       \* the message it is about to push into messagesIn
    messagesIn,   \* HomeCtl::messagesIn
    mainPc,       \* where the main thread is; it holds messagesInMutex unless idle
    known,        \* keys of HomeCtl::wsClients
    rights,       \* wsClients[].rights, {} for a client that has no entry
    loginConn,    \* the connection whose login is in wsClients[], 0 without
    decided       \* the connection, event and result of the last rights check

lwsVars  == <<state, cur, nextConn, lwsPc, lwsMsg>>
mainVars == <<mainPc, known, rights, loginConn, decided>>
vars == <<state, cur, nextConn, clients, lwsPc, lwsMsg, messagesIn, mainPc,
          known, rights, loginConn, decided>>

Tokens == {"match", "mismatch"}
AnyUser == CHOOSE u \in Users : TRUE     \* in messages that carry no user
Message == [event : Events \union {"login", "logout"}, client : Clients,
            conn : Nat, user : Users, token : Tokens]

-----------------------------------------------------------------------------
(* The rights each request needs. *)

ViewEvents == {"data", "init", "pagechange", "setup", "chartdata", "system",
    "forcerefresh", "chartbookmarks", "schema", "gpiodata", "gpslive",
    "gpstour", "activities", "commandsensorjson"}
ControlEvents == {"toggleionext", "lmcaction"}
FullControlEvents == {"togglemode", "storedashboards", "storehasppages", "command"}
SettingsEvents == {"storeconfig", "storeiosetup", "groupconfig", "groups", "alerts",
    "storechartbookmarks", "storealerts", "hasppages", "homematic", "imageconfig",
    "storesensorsetup", "storeschema", "checkluascript"}
AdminEvents == {"storeuserconfig", "userdetails", "syslog", "storehtmlwidgets"}

CheckRights(event, have) ==
    \/ event \in {"login", "logout", "gettoken", "changepasswd"}
    \/ event \in ViewEvents        /\ "urView" \in have
    \/ event \in ControlEvents     /\ "urControl" \in have
    \/ event \in FullControlEvents /\ "urFullControl" \in have
    \/ event \in SettingsEvents    /\ "urSettings" \in have
    \/ event \in AdminEvents       /\ "urAdmin" \in have
    \/ event = "toggleio" /\ "urControl" \in have /\ have \cap FactRights # {}

-----------------------------------------------------------------------------
(* The thread of libwebsockets: one callback at a time.  Only pushInMessage *)
(* waits, for messagesInMutex.                                             *)

Established(w) ==
    /\ lwsPc = "service" /\ state[w] = "none" /\ nextConn < MaxConn
    /\ nextConn' = nextConn + 1
    /\ cur' = [cur EXCEPT ![w] = nextConn + 1]
    /\ state' = [state EXCEPT ![w] = "open"]
    /\ clients' = clients \union {w}
    /\ UNCHANGED <<lwsPc, lwsMsg, messagesIn, mainVars>>

(* A request is pushed with the address of its sender.  atLogin sets the   *)
(* type in clients[w], the entry exists while the connection is open.      *)
Receive(w, event, user, token) ==
    /\ lwsPc = "service" /\ state[w] = "open"
    /\ Len(messagesIn) < MaxPending
    /\ lwsMsg' = [event |-> event, client |-> w, conn |-> cur[w],
                  user |-> user, token |-> token]
    /\ lwsPc' = "push"
    /\ clients' = clients \union {w}
    /\ UNCHANGED <<state, cur, nextConn, messagesIn, mainVars>>

ReceiveLogin(w) ==
    \E user \in Users, token \in Tokens : Receive(w, "login", user, token)

(* Mutants: the logout carries no client; it is not pushed at all. *)
AtLogoutNoClient(w) ==
    IF w \in clients
    THEN /\ lwsMsg' = [event |-> "logout", client |-> 0, conn |-> cur[w],
                       user |-> AnyUser, token |-> "mismatch"]
         /\ lwsPc' = "push"
    ELSE UNCHANGED <<lwsPc, lwsMsg>>

AtLogoutSilent(w) ==
    IF w \in clients
    THEN lwsMsg' = [lwsMsg EXCEPT !.client = w] /\ lwsPc' = "erase"
    ELSE UNCHANGED <<lwsPc, lwsMsg>>

(* atLogout: a client that is not in the map any more is left alone. *)
AtLogout(w) ==
    IF w \in clients
    THEN /\ lwsMsg' = [event |-> "logout", client |-> w, conn |-> cur[w],
                       user |-> AnyUser, token |-> "mismatch"]
         /\ lwsPc' = "push"
    ELSE UNCHANGED <<lwsPc, lwsMsg>>

(* LWS_CALLBACK_WS_PEER_INITIATED_CLOSE, followed by LWS_CALLBACK_CLOSED. *)
PeerInitiatedClose(w) ==
    /\ lwsPc = "service" /\ state[w] = "open"
    /\ state' = [state EXCEPT ![w] = "closing"]
    /\ AtLogout(w)
    /\ UNCHANGED <<cur, nextConn, clients, messagesIn, mainVars>>

(* After LWS_CALLBACK_CLOSED the library may use the address again. *)
Closed(w) ==
    /\ lwsPc = "service" /\ state[w] # "none"
    /\ state' = [state EXCEPT ![w] = "none"]
    /\ AtLogout(w)
    /\ UNCHANGED <<cur, nextConn, clients, messagesIn, mainVars>>

PushInMessage ==
    /\ lwsPc = "push" /\ mainPc = "idle"
    /\ messagesIn' = Append(messagesIn, lwsMsg)
    /\ lwsPc' = IF lwsMsg.event = "logout" THEN "erase" ELSE "service"
    /\ UNCHANGED <<state, cur, nextConn, clients, lwsMsg, mainVars>>

(* The end of atLogout, under clientsMutex. *)
EraseClient ==
    /\ lwsPc = "erase"
    /\ clients' = clients \ {lwsMsg.client}
    /\ lwsPc' = "service"
    /\ UNCHANGED <<state, cur, nextConn, lwsMsg, messagesIn, mainVars>>

-----------------------------------------------------------------------------
(* The main thread: dispatchClientRequest. *)

(* Called in every pass of the main loop, also when nothing is queued. *)
DispatchBegin ==
    /\ mainPc = "idle"
    /\ mainPc' = "dispatch"
    /\ UNCHANGED <<lwsVars, clients, messagesIn, known, rights, loginConn, decided>>

Decide(m) ==
    decided' = [conn |-> m.conn, event |-> m.event,
                ok |-> CheckRights(m.event, rights[m.client])]

(* Mutant: a known user is enough. *)
PerformLoginNoToken ==
    /\ mainPc = "dispatch" /\ messagesIn # <<>>
    /\ LET m == Head(messagesIn)
       IN /\ m.event = "login"
          /\ known' = known \union {m.client}
          /\ rights' = [rights EXCEPT ![m.client] = UserRights[m.user]]
          /\ loginConn' = [loginConn EXCEPT ![m.client] = m.conn]
          /\ Decide(m)
          /\ mainPc' = "login"
    /\ UNCHANGED <<lwsVars, clients, messagesIn>>

(* performLogin up to the rights.  A rejected login replies and is done. *)
PerformLogin ==
    /\ mainPc = "dispatch" /\ messagesIn # <<>>
    /\ LET m == Head(messagesIn)
           accepted == m.token = "match"
       IN /\ m.event = "login"
          /\ known' = known \union {m.client}
          /\ rights' = [rights EXCEPT ![m.client] =
                           IF accepted THEN UserRights[m.user] ELSE {}]
          /\ loginConn' = [loginConn EXCEPT ![m.client] = m.conn]
          /\ Decide(m)
          /\ mainPc' = IF accepted THEN "login" ELSE "dispatch"
          /\ messagesIn' = IF accepted THEN messagesIn ELSE Tail(messagesIn)
    /\ UNCHANGED <<lwsVars, clients>>

(* The rest of performLogin: setClientType writes clients[w] whether the   *)
(* client is still in the map or not, then the configuration is sent.      *)
SetClientType ==
    /\ mainPc = "login"
    /\ clients' = clients \union {Head(messagesIn).client}
    /\ messagesIn' = Tail(messagesIn)
    /\ mainPc' = "dispatch"
    /\ UNCHANGED <<lwsVars, known, rights, loginConn, decided>>

(* Mutants: the entry stays, with its rights or without. *)
PerformLogoutKeepsRights ==
    /\ mainPc = "dispatch" /\ messagesIn # <<>>
    /\ Head(messagesIn).event = "logout"
    /\ Decide(Head(messagesIn))
    /\ messagesIn' = Tail(messagesIn)
    /\ UNCHANGED <<lwsVars, clients, mainPc, known, rights, loginConn>>

PerformLogoutKeepsEntry ==
    /\ mainPc = "dispatch" /\ messagesIn # <<>>
    /\ LET m == Head(messagesIn)
       IN /\ m.event = "logout"
          /\ rights' = [rights EXCEPT ![m.client] = {}]
          /\ loginConn' = [loginConn EXCEPT ![m.client] = 0]
          /\ Decide(m)
    /\ messagesIn' = Tail(messagesIn)
    /\ UNCHANGED <<lwsVars, clients, mainPc, known>>

PerformLogout ==
    /\ mainPc = "dispatch" /\ messagesIn # <<>>
    /\ LET m == Head(messagesIn)
       IN /\ m.event = "logout"
          /\ known' = known \ {m.client}
          /\ rights' = [rights EXCEPT ![m.client] = {}]
          /\ loginConn' = [loginConn EXCEPT ![m.client] = 0]
          /\ Decide(m)
    /\ messagesIn' = Tail(messagesIn)
    /\ UNCHANGED <<lwsVars, clients, mainPc>>

(* wsClients[client].user creates the entry of a client: in the log of a   *)
(* denied request and where a change of the password compares the users.   *)
NamesUser(m) == m.event = "changepasswd" \/ ~CheckRights(m.event, rights[m.client])

(* Mutant: one request in each pass of the main loop. *)
PerformRequestOnePerPass ==
    /\ mainPc = "dispatch" /\ messagesIn # <<>>
    /\ LET m == Head(messagesIn)
       IN /\ m.event \notin {"login", "logout"}
          /\ Decide(m)
          /\ known' = IF NamesUser(m) THEN known \union {m.client} ELSE known
    /\ messagesIn' = Tail(messagesIn)
    /\ mainPc' = "idle"
    /\ UNCHANGED <<lwsVars, clients, rights, loginConn>>

(* Every other request.  The other handlers read or update the entry of    *)
(* this client, which exists when it has the rights they need.             *)
PerformRequest ==
    /\ mainPc = "dispatch" /\ messagesIn # <<>>
    /\ LET m == Head(messagesIn)
       IN /\ m.event \notin {"login", "logout"}
          /\ Decide(m)
          /\ known' = IF NamesUser(m) THEN known \union {m.client} ELSE known
    /\ messagesIn' = Tail(messagesIn)
    /\ UNCHANGED <<lwsVars, clients, mainPc, rights, loginConn>>

DispatchEnd ==
    /\ mainPc = "dispatch" /\ messagesIn = <<>>
    /\ mainPc' = "idle"
    /\ UNCHANGED <<lwsVars, clients, messagesIn, known, rights, loginConn, decided>>

-----------------------------------------------------------------------------
NoMessage == [event |-> "logout", client |-> CHOOSE w \in Clients : TRUE, conn |-> 0,
              user |-> AnyUser, token |-> "mismatch"]

Init ==
    /\ state = [w \in Clients |-> "none"]
    /\ cur = [w \in Clients |-> 0]
    /\ nextConn = 0
    /\ clients = {}
    /\ lwsPc = "service" /\ lwsMsg = NoMessage
    /\ messagesIn = <<>>
    /\ mainPc = "idle"
    /\ known = {}
    /\ rights = [w \in Clients |-> {}]
    /\ loginConn = [w \in Clients |-> 0]
    /\ decided = [conn |-> 0, event |-> "logout", ok |-> FALSE]

LwsNext ==
    \/ \E w \in Clients :
        \/ Established(w)
        \/ ReceiveLogin(w)
        \/ \E event \in Events : Receive(w, event, AnyUser, "mismatch")
        \/ PeerInitiatedClose(w)
        \/ Closed(w)
    \/ PushInMessage
    \/ EraseClient

MainNext ==
    DispatchBegin \/ PerformLogin \/ SetClientType \/ PerformLogout
    \/ PerformRequest \/ DispatchEnd

Next == LwsNext \/ MainNext

(* Both threads run as long as the daemon does; browsers need not do       *)
(* anything.  The main thread releases messagesInMutex and sleeps between  *)
(* two passes, so a thread that waits for it gets it in one of the passes: *)
(* strong fairness, because the mutex is not free all the time.            *)
Fairness == WF_vars(MainNext) /\ SF_vars(PushInMessage) /\ WF_vars(EraseClient)

Spec == Init /\ [][Next]_vars /\ Fairness

-----------------------------------------------------------------------------
(* The types of the variables. *)
TypeOK ==
    /\ state \in [Clients -> {"none", "open", "closing"}]
    /\ cur \in [Clients -> Nat]
    /\ nextConn \in 0..MaxConn
    /\ clients \subseteq Clients
    /\ lwsPc \in {"service", "push", "erase"}
    /\ lwsMsg \in Message
    /\ messagesIn \in Seq(Message)
    /\ mainPc \in {"idle", "dispatch", "login"}
    /\ known \subseteq Clients
    /\ rights \in [Clients -> SUBSET AllRights]
    /\ loginConn \in [Clients -> Nat]
    /\ decided \in [conn : Nat, event : Events \union {"login", "logout"}, ok : BOOLEAN]

(* When the main thread checks a request, the rights it finds under the    *)
(* address of the sender were given to the connection the request came     *)
(* from, never to an earlier one at the same address (checkRights looks    *)
(* them up by address only).                                               *)
RightsOfSender ==
    mainPc = "dispatch" /\ messagesIn # <<>> =>
        LET m == Head(messagesIn)
        IN m.event # "login" /\ rights[m.client] # {} => loginConn[m.client] = m.conn

(* A session without a connection is one whose logout is still on its way: *)
(* wsClients does not keep entries of clients that are gone.               *)
SessionHasConnectionOrLogout ==
    \A w \in known :
        \/ state[w] = "open"
        \/ lwsPc = "push" /\ lwsMsg.event = "logout" /\ lwsMsg.client = w
        \/ \E i \in 1..Len(messagesIn) :
              messagesIn[i].event = "logout" /\ messagesIn[i].client = w

(* Every session of a closed connection is eventually removed from         *)
(* wsClients, unless the address is used again first.                      *)
ClosedSessionForgotten ==
    \A w \in Clients : []<>(state[w] = "none" => w \notin known)

(* Main gets to the end of the queue however much the browsers send: it     *)
(* keeps messagesInMutex for the whole pass.                               *)
QueueDrained == []<>(messagesIn = <<>>)

(* What the comment at LWS_CALLBACK_CLOSED promises: a connection that is  *)
(* closed and whose messages are all dispatched is not in the client map.  *)
ClosedClientRemoved ==
    \A w \in Clients :
        state[w] = "none" /\ lwsPc = "service" /\ mainPc = "idle" /\ messagesIn = <<>>
        => w \notin clients

-----------------------------------------------------------------------------
(* The promise to the browsers, with the shared queue and the table by     *)
(* address read back as one queue and one set of rights per connection.    *)
(* The message of a login stays at the head of the queue until             *)
(* setClientType is done, its effect on the rights is there already.       *)
SessionRequest(m) == [event |-> m.event, user |-> m.user, token |-> m.token]
SessionRequests == [event : Events \union {"login", "logout"}, user : Users, token : Tokens]

Unhandled == IF mainPc = "login" THEN Tail(messagesIn) ELSE messagesIn

(* The requests of connection c in a queue, in their order. *)
RequestOf(m, c) == IF m.conn = c THEN <<SessionRequest(m)>> ELSE <<>>
RequestsOf(queue, c) == FlattenSeq([i \in 1..Len(queue) |-> RequestOf(queue[i], c)])

GrantedBy(r) == IF r.token = "match" THEN UserRights[r.user] ELSE {}

SessionPhase ==
    [c \in 1..MaxConn |->
        IF c > nextConn THEN "new"
        ELSE IF \E w \in Clients : cur[w] = c /\ state[w] = "open" THEN "open" ELSE "gone"]

SessionPending == [c \in 1..MaxConn |-> RequestsOf(Unhandled, c)]

SessionRights ==
    [c \in 1..MaxConn |-> UNION {rights[w] : w \in {x \in Clients : loginConn[x] = c}}]

Sessions == INSTANCE ClientSessions WITH
    Conns <- 1..MaxConn,
    Requests <- SessionRequests,
    Granted <- GrantedBy,
    Allowed <- CheckRights,
    phase <- SessionPhase,
    pending <- SessionPending,
    granted <- SessionRights,
    decided <- decided

(* Requests of different connections never mix, although all of them go    *)
(* through one queue and addresses are used again: the two threads         *)
(* implement one session per connection.                                   *)
ImplementsSessions == Sessions!SessionSpec
=============================================================================
