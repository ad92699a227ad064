------------------------------ MODULE WebClient ------------------------------
(***************************************************************************)
(* The connection of one page of the web interface, in the browser.        *)
(*                                                                         *)
(* WebSocketClient (websocket.js) keeps a web socket open: it queues what  *)
(* is sent while the socket is not open and reconnects with a timer.       *)
(* main.js logs in on every opening and tells the daemon the page shown;   *)
(* the page `vdr' talks to another server, so that main.js closes one      *)
(* WebSocketClient and creates another when that page is entered or left.  *)
(*                                                                         *)
(* Handlers of JavaScript run one at a time, each is one action.  What     *)
(* they do is written as operators on the state of the page, `tab', so     *)
(* that a handler that calls others is their composition.                  *)
(***************************************************************************)
EXTENDS Naturals, Sequences, FiniteSets

CONSTANTS
    Pages,        \* pages the user may select, besides "dashboard"
    MaxInputs,    \* bound: what the user does, and an administrator to him
    MaxFaults     \* bound: connections lost and attempts that fail

ASSUME WebClientAssumption ==
    /\ MaxInputs \in Nat /\ MaxFaults \in Nat
    /\ "none" \notin Pages

AllPages == Pages \union {"dashboard", "login"}

(* A WebSocketClient that is given up lives on only while its timer runs,  *)
(* so there are never more of them than connections lost, and the current. *)
Sockets == 1..(MaxFaults + 1)

VARIABLES
    tab,          \* the page in the browser: its WebSocketClients and globals
    token,        \* localStorage Token: none, or as the daemon gave it
    revoked,      \* the token was given before the last reset
    inputs,       \* count of inputs, for the bound
    faults        \* count of faults, for the bound

vars == <<tab, token, revoked, inputs, faults>>
credentials == <<token, revoked>>

Login(page, tok) == [kind |-> "login", page |-> page, token |-> tok]
PageChange(page) == [kind |-> "pagechange", page |-> page]
Control(late)    == [kind |-> "control", late |-> late]
GetToken(right)  == [kind |-> "gettoken", right |-> right]

Requests ==
    [kind : {"login"}, page : AllPages, token : {"none", "given"}]
    \union [kind : {"pagechange"}, page : AllPages]
    \union [kind : {"control"}, late : BOOLEAN]
    \union [kind : {"gettoken"}, right : BOOLEAN]

-----------------------------------------------------------------------------
(* One WebSocketClient with its connection.  `held' tells whether queue is *)
(* an array (sends are queued) or null; `up' and `down' are the messages   *)
(* on their way; `sess' and `sessPage' are the entry of the connection in  *)
(* the daemon's wsClients.  The server of the page vdr is left out.        *)
NoConnection == [up |-> <<>>, down |-> <<>>, sess |-> "none", sessPage |-> "none"]
Client(peer, ws) ==
    [peer |-> peer, ws |-> ws, held |-> TRUE, queue |-> <<>>, timer |-> FALSE,
     conn |-> NoConnection]
Unused == Client("daemon", "unused")

Current(t) == t.clients[t.socket]
Transmit(c, msgs) == IF c.peer = "daemon" THEN [c EXCEPT !.conn.up = @ \o msgs] ELSE c

(* WebSocketClient.send; a web socket that is closing or closed discards. *)
Send(t, m) ==
    LET c == Current(t)
    IN [t EXCEPT !.clients[t.socket] =
            IF c.held THEN [c EXCEPT !.queue = Append(@, m)]
            ELSE IF c.ws = "open" THEN Transmit(c, <<m>>) ELSE c]

(* WebSocketClient.close: no handler is called any more, the timer of a    *)
(* reconnect stays.                                                        *)
Close(t) ==
    [t EXCEPT !.clients[t.socket] =
        IF @.timer THEN @ ELSE Unused]

UnusedIn(t) == CHOOSE o \in Sockets : t.clients[o].ws = "unused"

ConnectWebSocket(t, peer) ==
    LET o == UnusedIn(t)
    IN [t EXCEPT !.clients[o] = Client(peer, "connecting"), !.socket = o]

(* Mutants: the login page is remembered; the daemon is not told. *)
MainMenuSelStores(t, what) ==
    Send([t EXCEPT !.page = what, !.stored = what], PageChange(what))

MainMenuSelSilent(t, what) ==
    [t EXCEPT !.page = what, !.stored = IF what = "login" THEN @ ELSE what]

(* mainMenuSel: the new page, another socket if the vdr is entered or left, *)
(* then pagechange and the request of the page, taken as one message.      *)
MainMenuSel(t, what) ==
    LET shown == [t EXCEPT !.page = what,
                           !.stored = IF what = "login" THEN @ ELSE what]
        other == what # t.page /\ "vdr" \in {what, t.page}
        ready == IF other
                 THEN ConnectWebSocket(Close(shown), IF what = "vdr" THEN "vdr" ELSE "daemon")
                 ELSE shown
    IN IF what = "vdr" THEN ready ELSE Send(ready, PageChange(what))

(* onSocketConnect: the login goes out by the global socket, whichever     *)
(* client has opened.                                                      *)
OnSocketConnect(t) == MainMenuSel(Send(t, Login(t.page, token)), t.page)

(* Mutant: the client that has opened sends the login itself. *)
OnSocketConnectOf(t, o) ==
    [OnSocketConnect([t EXCEPT !.socket = o]) EXCEPT !.socket = t.socket]

(* The document is loaded: $('document').ready.  One page is remembered.   *)
Load(stored) ==
    [clients |-> [o \in Sockets |-> IF o = 1 THEN Client("daemon", "connecting") ELSE Unused],
     socket |-> 1, page |-> "dashboard", start |-> stored, stored |-> stored]

-----------------------------------------------------------------------------
(* What happens to a web socket of a client.                               *)

(* Mutants: the login precedes the queue; the opened client logs in. *)
OpenedLoginFirst(t, o) ==
    LET open == [t EXCEPT !.clients[o].ws = "open", !.clients[o].held = FALSE]
        in   == OnSocketConnect(open)
    IN [in EXCEPT !.clients[o] = Transmit([@ EXCEPT !.queue = <<>>], t.clients[o].queue)]

OpenedSendsItself(t, o) ==
    LET c == [t.clients[o] EXCEPT !.ws = "open", !.held = FALSE, !.queue = <<>>]
    IN OnSocketConnectOf([t EXCEPT !.clients[o] = Transmit(c, t.clients[o].queue)], o)

(* ws.onopen: first the queue, then onopen of main.js; isActive is always  *)
(* null there.                                                             *)
Opened(t, o) ==
    LET c == [t.clients[o] EXCEPT !.ws = "open", !.held = FALSE, !.queue = <<>>]
    IN OnSocketConnect([t EXCEPT !.clients[o] = Transmit(c, t.clients[o].queue)])

(* Mutants: no reconnect; queue is left as it is. *)
OnCloseStays(c) == [c EXCEPT !.ws = "closed", !.held = TRUE, !.queue = <<>>]
OnCloseKeepsQueue(c) == [c EXCEPT !.ws = "closed", !.timer = TRUE]

(* ws.onclose: whatever was queued is forgotten, also when an attempt to   *)
(* reconnect fails.  The event is never equal to 1000.                     *)
OnClose(c) == [c EXCEPT !.ws = "closed", !.held = TRUE, !.queue = <<>>, !.timer = TRUE]

WsOpen(o) ==
    /\ tab.clients[o].ws = "connecting"
    /\ tab' = Opened(tab, o)
    /\ UNCHANGED <<credentials, inputs, faults>>

WsFails(o) ==
    /\ tab.clients[o].ws = "connecting" /\ faults < MaxFaults
    /\ tab' = [tab EXCEPT !.clients[o] = OnClose(@)]
    /\ faults' = faults + 1
    /\ UNCHANGED <<credentials, inputs>>

(* The connection breaks: what is under way is lost, the daemon removes    *)
(* the session.  The browser gets to know with the event close.            *)
Drop(o) ==
    /\ tab.clients[o].ws = "open" /\ faults < MaxFaults
    /\ tab' = [tab EXCEPT !.clients[o].ws = "broken", !.clients[o].conn = NoConnection]
    /\ faults' = faults + 1
    /\ UNCHANGED <<credentials, inputs>>

WsClose(o) ==
    /\ tab.clients[o].ws = "broken"
    /\ tab' = [tab EXCEPT !.clients[o] = OnClose(@)]
    /\ UNCHANGED <<credentials, inputs, faults>>

(* The timer of WebSocketClient.reconnect calls open. *)
Reconnect(o) ==
    /\ tab.clients[o].timer
    /\ tab' = [tab EXCEPT !.clients[o].timer = FALSE, !.clients[o].ws = "connecting"]
    /\ UNCHANGED <<credentials, inputs, faults>>

-----------------------------------------------------------------------------
(* dispatchMessage, as far as the page and the session depend on it.       *)

Received(o) == [tab EXCEPT !.clients[o].conn.down = Tail(@)]
Gets(o, event) ==
    /\ tab.clients[o].conn.down # <<>>
    /\ Head(tab.clients[o].conn.down) = event
    /\ UNCHANGED <<inputs, faults>>

GetReady(o) ==
    /\ Gets(o, "ready") /\ tab.page # "vdr"
    /\ tab' = IF tab.start = "none" THEN Received(o)
              ELSE [MainMenuSel(Received(o), tab.start) EXCEPT !.start = "none"]
    /\ UNCHANGED credentials

(* Neither the daemon nor the remembered page get to know of the login page. *)
GetReject(o) ==
    /\ Gets(o, "reject") /\ tab.page # "vdr"
    /\ tab' = [Received(o) EXCEPT !.page = "login"]
    /\ token' = "none" /\ UNCHANGED revoked

(* The token is stored and the document loaded again. *)
GetConfirm(o) ==
    /\ Gets(o, "confirm") /\ tab.page # "vdr"
    /\ tab' = Load("dashboard")
    /\ token' = "given" /\ revoked' = FALSE

(* On the page vdr all messages go to dispatchVdrMessage, which knows none  *)
(* of these.                                                               *)
GetOnVdrPage(o) ==
    /\ tab.page = "vdr" /\ \E event \in {"ready", "reject", "confirm"} : Gets(o, event)
    /\ tab' = Received(o)
    /\ UNCHANGED credentials

-----------------------------------------------------------------------------
(* The user, and an administrator who resets the token.                    *)

Input == inputs < MaxInputs /\ inputs' = inputs + 1 /\ UNCHANGED faults

SelectPage(page) ==
    Input /\ tab' = MainMenuSel(tab, page) /\ UNCHANGED credentials

(* A request that switches something, late when it has to wait.            *)
Switch ==
    /\ Input /\ tab.page \notin {"login", "vdr"}
    /\ tab' = Send(tab, Control(Current(tab).held))
    /\ UNCHANGED credentials

DoLogin(right) ==
    /\ Input /\ tab.page = "login"
    /\ tab' = Send(tab, GetToken(right))
    /\ UNCHANGED credentials

DoLogout ==
    /\ Input /\ token # "none"
    /\ token' = "none" /\ UNCHANGED revoked
    /\ tab' = MainMenuSel(tab, "login")

(* By the user, or by reloadWebif for a new version. *)
Reload ==
    /\ Input
    /\ tab' = Load(tab.stored)
    /\ UNCHANGED credentials

(* Not while another one is on its way to this page. *)
ResetToken ==
    /\ Input /\ token = "given"
    /\ \A o \in Sockets : LET down == tab.clients[o].conn.down
                          IN \A i \in 1..Len(down) : down[i] # "confirm"
    /\ revoked' = TRUE
    /\ UNCHANGED <<tab, token>>

-----------------------------------------------------------------------------
(* The daemon handles the requests of a connection in their order.         *)

Handled(conn) == [conn EXCEPT !.up = Tail(@)]
Handles(o, kind) ==
    /\ tab.clients[o].conn.up # <<>>
    /\ Head(tab.clients[o].conn.up).kind = kind
    /\ UNCHANGED <<credentials, inputs, faults>>

(* performLogin; ready is pushed after a rejected login, too. *)
HandleLogin(o) ==
    /\ Handles(o, "login")
    /\ LET conn == tab.clients[o].conn
           m == Head(conn.up)
           accepted == m.token = "given" /\ ~revoked
       IN tab' = [tab EXCEPT !.clients[o].conn =
                    [Handled(conn) EXCEPT
                        !.sess = IF accepted THEN "ok" ELSE "rejected",
                        !.sessPage = m.page,
                        !.down = @ \o IF accepted THEN <<"ready">> ELSE <<"reject", "ready">>]]

(* performPageChange, denied without a login. *)
HandlePageChange(o) ==
    /\ Handles(o, "pagechange")
    /\ LET conn == tab.clients[o].conn
       IN tab' = [tab EXCEPT !.clients[o].conn =
                    [Handled(conn) EXCEPT
                        !.sessPage = IF conn.sess = "ok" THEN Head(conn.up).page ELSE @]]

HandleControl(o) ==
    /\ Handles(o, "control")
    /\ tab' = [tab EXCEPT !.clients[o].conn = Handled(@)]

(* performTokenRequest, which needs no login. *)
HandleGetToken(o) ==
    /\ Handles(o, "gettoken")
    /\ LET conn == tab.clients[o].conn
       IN tab' = [tab EXCEPT !.clients[o].conn =
                    [Handled(conn) EXCEPT
                        !.down = Append(@, IF Head(conn.up).right THEN "confirm" ELSE "reject")]]

-----------------------------------------------------------------------------
Init ==
    /\ \E stored \in (AllPages \ {"login"}) \union {"none"} : tab = Load(stored)
    /\ token \in {"none", "given"} /\ revoked = FALSE
    /\ inputs = 0 /\ faults = 0

Runs(o) ==
    \/ WsOpen(o) \/ WsClose(o) \/ Reconnect(o)
    \/ GetReady(o) \/ GetReject(o) \/ GetConfirm(o) \/ GetOnVdrPage(o)
    \/ HandleLogin(o) \/ HandlePageChange(o) \/ HandleControl(o) \/ HandleGetToken(o)

User ==
    \/ \E page \in AllPages : SelectPage(page)
    \/ Switch \/ \E right \in BOOLEAN : DoLogin(right)
    \/ DoLogout \/ Reload \/ ResetToken

Next == User \/ \E o \in Sockets : Runs(o) \/ WsFails(o) \/ Drop(o)

(* The browser runs its events and the daemon its requests.  Connections   *)
(* succeed unless they fail, which is bounded; the user need do nothing.   *)
Fairness == \A o \in Sockets : WF_vars(Runs(o))

Spec == Init /\ [][Next]_vars /\ Fairness

-----------------------------------------------------------------------------
ClientType ==
    [peer : {"daemon", "vdr"},
     ws : {"unused", "connecting", "open", "broken", "closed"},
     held : BOOLEAN, queue : Seq(Requests), timer : BOOLEAN,
     conn : [up : Seq(Requests), down : Seq({"ready", "reject", "confirm"}),
             sess : {"none", "ok", "rejected"}, sessPage : AllPages \union {"none"}]]

(* The types of the variables.  The login page is never remembered, a      *)
(* reload must not come back to it.                                        *)
TypeOK ==
    /\ tab.clients \in [Sockets -> ClientType]
    /\ tab.socket \in Sockets
    /\ tab.page \in AllPages
    /\ {tab.start, tab.stored} \subseteq (AllPages \ {"login"}) \union {"none"}
    /\ token \in {"none", "given"} /\ revoked \in BOOLEAN
    /\ inputs \in 0..MaxInputs /\ faults \in 0..MaxFaults

(* send is never called on a web socket that is connecting, which throws   *)
(* and would cut the handler short: queue is an array by then, and after   *)
(* the opening nothing is left in it.                                      *)
QueuedUntilOpen ==
    \A o \in Sockets : LET c == tab.clients[o]
                       IN /\ c.ws = "connecting" => c.held
                          /\ c.ws = "open" => ~c.held /\ c.queue = <<>>

GivenUp == {o \in Sockets : o # tab.socket /\ tab.clients[o].ws # "unused"}

(* Only the connection main.js knows as `socket' is ever logged in: the    *)
(* daemon pushes values and results to a page once, although a client that *)
(* was closed while it waited to reconnect opens another connection.  Two  *)
(* of these together do log in, one queues the login of the other.         *)
OneSessionPerPage ==
    Cardinality(GivenUp) <= 1 =>
        \A o \in Sockets : tab.clients[o].conn.sess = "ok" => o = tab.socket

(* What the user switched while the page was offline is not switched later, *)
(* when it is online again and nobody expects it: the queue goes out ahead *)
(* of the login and is denied.  A closed client that reconnects spoils it. *)
NoLateSwitching ==
    GivenUp = {} =>
    \A o \in Sockets :
        LET conn == tab.clients[o].conn
        IN conn.up # <<>> /\ Head(conn.up).kind = "control" /\ Head(conn.up).late
           => conn.sess # "ok"

(* Once a connection is quiet, the page the daemon has for it, by which it *)
(* chooses what to push, is the page shown, in spite of reconnects, the    *)
(* remembered start page and the order of login, queue and pagechange.     *)
(* The login page after a rejected password is not announced.              *)
Quiet(c) == c.ws = "open" /\ c.conn.up = <<>> /\ c.conn.down = <<>>
PageKnown ==
    LET c == Current(tab)
    IN Quiet(c) /\ c.conn.sess = "ok" => tab.page \in {c.conn.sessPage, "login"}

(* A page whose connection breaks gets a new one, and logs in on it by     *)
(* itself, if it is not on the page of the vdr.                            *)
BackOnline ==
    []<>(\/ tab.page = "vdr"
         \/ Quiet(Current(tab)) /\ Current(tab).conn.sess # "none")
=============================================================================
