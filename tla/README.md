# homectld in TLA+

`homectld` is a home automation daemon: it reads sensors and inputs, switches outputs and
lights, follows time ranges and rules, stores samples in a MariaDB, and serves a web interface
over web sockets. The specifications here model the parts of it whose correctness depends on
the order of things: two threads that share queues, states that lag behind the devices, commands
that get lost, restarts, and pages in several browsers that reconnect and edit the same tables. All paths below are relative to the root of the repository.

1. [The system](#1-the-system)
2. [The modules and the code](#2-the-modules-and-the-code)
3. [What is model-checked](#3-what-is-model-checked)
4. [Fairness](#4-fairness)
5. [What is proved](#5-what-is-proved)
6. [Where the code and its documentation differ](#6-where-the-code-and-its-documentation-differ)
7. [What is not modelled](#7-what-is-not-modelled)
8. [Plan](#8-plan)

## 1. The system

One process with a **main thread** (`HomeCtl::loop`, `src/daemon.c`), a **thread of libwebsockets** (`cWebSock::service`, `src/websock.c`), a thread per
GPIO **input pin** (`src/gpio.c`), an MQTT **refresh thread** (`src/lib/mqtt.c`) and a detached
thread per running **script**. `loop()` calls, once per interval, `process()`, `storeSamples()` and
`updateInputs()`; in between, `meanwhile()` goes round: web requests, pins that changed, light
rules, MQTT, deCONZ. The web interface (`src/htdocs`) is a program of its own in each browser; it talks to the daemon
by one web socket at a time.

| Component | State | Operations | Talks to |
|---|---|---|---|
| Web requests and sessions (`src/websock.c`, `src/wsactions.c`) | `cWebSock::clients`, `messagesIn`, `wsClients` | callbacks of the connections, `dispatchClientRequest`, login, logout, rights | main and lws thread by `messagesIn` |
| Messages to the clients (`src/websock.c`) | `messagesOut`, `msgBuffer`, `msgType`, back-off | `pushOutMessage`, `performData`, writable callback | both threads by the queues |
| Light rules (`src/lightrules.c`) | `lightRuleEvents`, `lightCommands`, `lightRuleTimers` | `performLightRules`, `lightCommand`, checks | deCONZ, `toggleIo` |
| Inputs and outputs (`src/daemon.c`, `src/gpio.c`) | `sensors[..]`, table `iostates`, `triggerGpioPins` | `gpioRead`, `gpioWrite`, `process`, `toggleIo`, `toggleOutputMode`, start and exit | web requests, MQTT, the pin threads |
| LUA values (`processLua`) | last run per script | which script runs when | sensors |
| External scripts (`callScript`, `cmdThread`, `updateScriptSensors`) | `commandThreads` | start, collect | a thread per script |
| MQTT (`src/lib/mqtt.c`, `src/hass.c`) | connection, read queue, watchdog | connect, refresh, disconnect | broker; HASS, Node-RED |
| deCONZ (`src/deconz.c`) | lights, sensors, queue of messages | `toggle`, web socket client, poll | light rules |
| Shading (`src/shade.c`), actor times and sun (`src/sun.c`) | state per blind, last check | open, close, catch up | outputs, HomeMatic |
| HomeMatic (`src/hmservice.c`, `src/homematic/`) | queue of value requests, BidCoS counters | request, answer, timeout | radio, MQTT |
| Alerts | rows of `sensoralert` | `performAlertCheck` with sub rules | mail |
| Samples, peaks, aggregation | tables | `storeSamples`, `aggregate` | database |
| GPS tours, activities, openHASP, LMC | | recording, rendering | |
| Web socket client of the pages (`src/htdocs/websocket.js`, `src/htdocs/main.js`) | `queue`, reconnect timer, `socket`, page shown and remembered, token | open, reconnect, login, change of page, VDR | daemon, VDR |
| Dashboards (`src/htdocs/dashboard.js`, `widgetsetup.js`, `storeDashboards`) | tables `dashboards` and `dashboardwidgets`; a copy in each browser | edit, move, create, delete widgets and dashboards | daemon and other browsers by the tables |
| Other pages (`src/htdocs/setup.js`, ...) | forms, lists, charts | presentation | daemon |
| Satellite services (`src/i2cmqtt.c`, `src/victron.c`, ...) | | poll one bus each | MQTT |

What is hard, and what makes each part correct (each point with its line is in
`PROJECT.json` under `hazards`):

* **Web requests.** A client is the address of a `struct lws`, which is used again. Correct means:
  no request is decided with the rights of another connection, a session ends with its connection,
  requests of one connection are handled in order, and neither thread blocks the other for good.
* **Messages.** The queue, the buffer and the offset are used by callbacks one chunk at a time, and
  the static `msgType` is written by both threads. Correct means: each message arrives once, whole
  and in order, and no message waits for a callback that nobody asks for.
* **Light rules.** The state of a light is known only from reports. Correct means: a repetition never
  undoes a newer command that the daemon knows of, what was commanded last comes true, an off timer switches off what its rule
  switched on.
* **Inputs and outputs.** Start, stop and crash at any step. Correct means: the table holds what the
  outputs should come back to, a start brings it back, inputs are noticed although the queue of the
  pin threads has no lock, automatic outputs follow their ranges.
* **Scripts.** One thread per script at a time; its control block lives as long as the thread.
* **MQTT.** Either connected with a refresh thread, or to be connected again within the retry time; an outage of the
  broker costs neither main nor descriptors for good; no thread waits for its own end.
* **Pages.** A page loses its connection at any time, and users go on clicking. Correct means: it comes back by
  itself and logs in on the connection it uses, the daemon knows which page is shown, and nothing that was clicked
  offline is done later. Clients that were closed while they waited to reconnect come back, too.
* **Dashboards.** Each edit sends the whole list of widgets, taken from a copy that may be old. Correct means:
  an edit changes only what its user edited as long as the copy is the newest, nothing deleted comes back, and
  the browser that edits sees the result.
* **Shading, actor times, alerts, HomeMatic.** One switching per limit of a range also after a stall; no
  alert twice within its interval; an answer is taken for the request it belongs to.

## 2. The modules and the code

| Module | Models | Shown by |
|---|---|---|
| `ClientRequests` | connections, request queue, login, logout, rights | `MCClientRequests`, `ClientRequestsProofs` |
| `ClientSessions` | abstract: each connection with its own requests and rights | refined by `ClientRequests` |
| `ClientQueues` | messages to the browsers, in chunks | `MCClientQueues`, `ClientQueuesProofs` |
| `LightRules` | rules, off timers, checked commands, lights, groups, deCONZ | `MCLightRules`, `LightRulesProofs` |
| `IoState` | GPIO inputs and outputs, time ranges, `iostates`, start and stop | `MCIoState`, `IoStateProofs` |
| `WebClient` | a page in a browser: its web sockets, queue, login, page shown, with the daemon's session | `MCWebClient`, `WebClientProofs` |
| `Dashboards` | the tables of dashboards and their copies in several browsers | `MCDashboards`, `DashboardsProofs` |
| `MqttConnection` | both connections to the broker, their refresh threads, the watchdog | `MCMqttConnection`, `MqttConnectionProofs` |

`PROJECT.json` maps each definition to its lines. Only the correspondence that is not obvious is
explained here.

**ClientRequests.** `lwsPc` is the position of the lws thread: in `service`, before the `push` of a
message, or before the `erase` at the end of `atLogout`. `mainPc` is the position of the main thread;
it holds `messagesInMutex` unless `idle`, which is why `PushInMessage` needs `mainPc = "idle"`. Address
and connection are different things: `cur[w]` is the number of the connection at address `w`, and
messages, logins and decisions remember it in history variables that no guard reads.
`SetClientType` is a step of its own because it takes `clientsMutex` after the rights were set: a close may
fall in between. The 40 handlers of other requests are one action, `PerformRequest`; what they do with
`wsClients` (create an entry when they name the user) is in it. `CheckRights` is the table of
`checkRights` in five sets.

**ClientSessions.** What a browser may rely on: `Open`, `Send`, `Leave`, `Handle`, each on one connection. The
refinement mapping in `ClientRequests` (`SessionPhase`, `SessionPending`, `SessionRights`) picks the messages of a connection out of
the common queue, and the rights of a connection out of the address its login lies at.

**ClientQueues.** A message is its number and how many chunks it takes. `wire` and `owed` are history: the
frames the browser got, and the messages pushed for it and not flushed. `service()` is three steps because
`performData` is called by both threads. `SendChunk` is the normal path of the writable callback,
`WritablePing`, `NothingToSend` and `PipeChoked` its other exits.

**LightRules.** Seconds are ticks. The constants 2 s, 5 s and 80 s keep their order, not their size: what the
code tells apart is whether a command is younger than the skip limit, old enough to be checked, and old enough to be
confirmed. `air` is what deCONZ accepted, `lamp` what the lights really do, `reports` what has been
reported but not dispatched, `state` what the daemon believes. `Tick` may not pass while a state has been outdated for
`MaxDelay` ticks: deCONZ reports "latest after its next poll". `newest` is history: what a light was told or switched to last, and by whom - a rule, the web interface, the
color picker, a group, a switch, or nobody, when deCONZ refused it. A command to a group
goes to all its lights and is neither checked nor repeated, as in the code. deCONZ may refuse each target of its own (`accepted`). The web interface
has two ways: `toggleIo` (toggle and dim) ends the check of the light, `toggleColor` switches it on and does not.
`performLightRules` is split at each event, rule, check and timer so that the properties see each command.

**IoState.** `gpioWrite` and `storeIoState` are two steps, so that the daemon may die between them
(`saving`). `process` goes through the outputs one by one (`todo`) and returns to its caller (`back`).
The pin threads push into `triggerGpioPins` without a lock: while main works on the queue, a pushed pin may be lost, which is a
choice in `OnGpioChange`. `dated` are the sensors with a time stamp, by which the first reading of an input counts as a change.
`OutputOrder` is the order in which `process` meets the outputs in the table of value facts.
`last` is history: what each output was told last, by somebody who was entitled to. Who changes the mode has the state before his eyes and means it,
so it counts as told.

**WebClient.** Handlers of JavaScript run one at a time, so each is one action; what a handler calls is an operator on
`tab`, the state of the page. The global `socket` is the number of a `WebSocketClient`; a client that is given up
(`closeWebsocket`) lives on only while its timer runs. `held` says whether `queue` is an array or null. The queue goes out before `onopen` of
`main.js` sends the login: everything queued offline is denied. `dispatchMessage` is modelled for the
messages that change page or session; on the page `vdr` none of them is known. The daemon's side is
its entry in `wsClients` (`sess`, `sessPage`) and the three answers `ready`, `reject`, `confirm`; that `ready` follows a rejected
login as well is in `HandleLogin`. `token` is what `localStorage` has, `revoked` tells that an administrator has reset the token since it was given;
he does so only while no `confirm` with a token is on its way to the page. `socket.reopen` is not used by any page.

**Dashboards.** `db` are the two tables, `copy[b]` is `dashboards` of `main.js` in browser `b`, `drawn[b]` the widgets in its document. `up` and
`down` are the connection. `ver` of a dashboard grows with each change; `ver`, `whole` and `changed` in a request are history: they
say which version the user saw and what was edited. `storeDashboards` deletes and writes all rows in one step of the model. A move is the only
edit that is not followed by `forcerefresh`; its answer replaces the copy without drawing it. Whether the target of a move exists is
not checked, and a row the target has already is kept. The dialog to add widgets lets several be chosen, also ones the dashboard
has already, which then get their defaults. The order, titles and groups are left out.

**MqttConnection.** `thread[o][t]` is the place of a refresh thread: `run` in its loop, `failed` before its own
`disconnect()`, `stop` waiting there, `ending` after the loop. `close_now` is `closeNow`; the wait of `disconnect()` for 2 ends after 10 s,
which a thread that is able to answer never needs (`WaitOver`). `pthread_cancel` sets `cancelled`, effective at the next
sleep (`Cancelled`) or, for a thread that cancels itself, at `close()` (`ThreadStopped`). A new thread runs before `mqtt_init` and may see `close_now` of
the connection before: `Open` and `MqttInit` are two steps. `recv()` that returns 0 is no error for `mqtt_sync`: the socket is
`silent`, and `broken` when it was reset. What `mqtt_init` sets again is set by `CloseSocket` already, as nobody looks in between.

`OpenSocket` is what `openSocket()` does when a socket is left for each address it tries: it returns the last one, also when all refused, and those before stay
open. So each try in an outage starts a refresh thread on a `broken` socket, counts as connected, and ends with a thread that disconnects itself. `OpenFails` are the ways to -1: the
name is not resolved, or no descriptor is left for the last address. `leaked` counts what is never closed; with the sockets the objects hold it makes up what is in use
of `Descriptors`, the sockets the process may have open. Other uses of descriptors are not counted.

`heard` is the age of `lastMqttRead`: `Read` makes it `lately`, whoever published the message; `Silence` are 300 s without one, which cannot pass while both connections
work, as a ping comes every 30 s; `recovering` are the 60 s of `lastMqttRecover`. With a dead writer and a reader that hears others the watchdog may never bark; the writer is then found by its own errors.

The 20 s between two tries (`PauseEnds`) are long against what a thread does: `Due` names the steps it takes within 100 ms - it looks at `close_now`, answers, gets the
free lock, is cancelled - and the pause does not end before them. This is the one assumption on timing; without any part of it `OneRefresher` fails. A thread that waits for
its own end is not due, it may take longer than the pause. A thread that waits for the lock of an object that is being deleted uses freed memory; `Delete` makes fresh objects. The members of
a new `mqtt_client` have default initializers (`src/lib/mqtt_c.h:1080`, `1085`).

## 3. What is model-checked

Each property has a mutant, a plausible bug in one definition that makes it fail; the mutated definitions stand before
the right ones and are marked as mutants. Deadlock is checked, but for `WebClient` and `Dashboards`: there the bounded user may stop when
everything is answered.

| Run | Properties | Instance | Distinct states |
|---|---|---|---|
| `ClientRequests` | `TypeOK`, `RightsOfSender`, `SessionHasConnectionOrLogout`, `ClosedSessionForgotten`, `QueueDrained`, `ImplementsSessions` | 2 addresses, 2 connections, 2 pending | 340 000 |
| `ClientQueues` | `TypeOK`, `NothingLostOrMixed`, `MessagesSent` | 2 browsers, 2 messages of 1 or 2 chunks | 550 000 |
| `LightRules` | `TypeOK`, `RepeatsNewestCommand`, `CommandTakesEffect` | 1 light in a group, follow with off timer and toggle button, 2 events, 1 by hand, 1 lost or refused | 1 190 000 |
| `IoState` | `TypeOK`, `PersistedWhileRunning`, `StartKeepsState`, `InputSeen`, `TimesKept` | 4 pins, 2 stops, 1 switch, 2 edges, 1 change of the range | 980 000 |
| `WebClient` | `TypeOK`, `QueuedUntilOpen`, `OneSessionPerPage`, `NoLateSwitching`, `PageKnown`, `BackOnline` | 2 more pages, one of them `vdr`, 3 inputs, 2 faults | 429 000 |
| `Dashboards` | `TypeOK`, `EditorSeesTables`, `DeletedStaysDeleted`, `FreshEditKeepsRest` | 2 browsers, 2 widgets, 2 dashboards, 3 edits, 1 lost connection, symmetric | 1 040 000 |
| `MqttConnection` | `TypeOK`, `OneRefresher`, `MainKeepsRunning`, `OnlineAgain` | 2 threads per object, buffer of 2, 3 descriptors, 1 address, 1 fault after a start with or without broker | 822 000 |

Violations, each of a statement of the code's own documentation (section 6): `ClientRequestsGhost`,
`LightRulesRetrigger`, `LightRulesColor`, `IoStateRestart`, `MqttConnectionLeak`.

Why the bounds are enough:

* *Requests.* What can go wrong needs an address used again while something of the connection before is
  still in the queue, or a second client beside it: two addresses and two connections, at the same address one after the other or side
  by side, two pending requests (`MaxPending` bounds only what browsers send, the logout comes on top). With a third connection the run passes as well but takes
  too long to be kept; all but the two liveness properties are proved without bounds.
* *Messages.* Mixing needs two messages, one of them in two chunks; a wrong arming needs a second client that
  is ready while the first is in its back-off. Pings, choking and back-off are not bounded. `NothingLostOrMixed`
  is proved without bounds.
* *Lights.* One failed command and one touch by hand are together as much as the two repetitions make good (`MaxRetries`): what people switch after a command of a rule
  is undone once, as a loss is. `MaxDelay` (2) is smaller than `ConfirmAfter` (3): a state that lags longer than 80 s is taken for a confirmation of the
  command, and nothing repeats it; the code relies on the poll of deCONZ for that. Two events let the sensor switch on and off, or switch on while the timer runs out. One light, alone
  and in a group, since lights share nothing but the rules' targets; `RepeatsNewestCommand` is proved without bounds.
* *Outputs.* One pin of each kind: timed, not timed, impulse (inverted), input. Two stops so that a start that
  breaks off is followed by another one. Two edges so that a pin can be pushed while another entry
  is being popped. One switch is enough to set an output or its mode against its range, while the range and the restarts are the other
  actors; sequences of more switches are covered by the proofs of `PersistedWhileRunning` and `StartKeepsState`.

* *Pages.* Two faults are needed for a client that was given up to reconnect and to fail, and for two of them at a time. Three
  inputs let the user leave the VDR while a timer runs and come back, or log in, be reset and reload. `vdr` stands for pages with
  another server, `list` for all others. All safety properties of the run are proved without bounds.
* *Dashboards.* A lost update needs two browsers and two dashboards or widgets; three edits let a browser edit twice around an
  edit of the other. All properties of the run are proved without bounds.
* *MQTT.* The broker is there from the start or not, so that one fault is a second outage, or a broken connection after a first. The tries in an outage are not bounded. No run needs a third
  thread: a thread that was not joined ends, is cancelled or is the one that waits. A buffer of two overflows. Three descriptors: two connections and one to lose, so that both ends of `OnlineAgain` happen.

What the properties say, in short; each is explained where it is defined:

* `RightsOfSender`: main finds under an address only rights that were given to the connection the request came from.
* `SessionHasConnectionOrLogout`: an entry in `wsClients` has an open connection or a logout on its way.
* `ClosedSessionForgotten`, `QueueDrained`: sessions of closed connections go, the queue is emptied.
* `ImplementsSessions`: refinement of `ClientSessions`.
* `NothingLostOrMixed`: frames on the wire and frames to come are the frames of the messages owed.
* `MessagesSent`: nothing stays in a queue unless the pipe stays choked.
* `RepeatsNewestCommand`: a repetition is of what a rule told the light last, and nothing came after it. Excepted are the newer commands that the check does not know of: of a
  switch, of the color picker, to a group of the light. `WebifEndsCheck` (violated) says of the color picker what the comment promises.
* `CommandTakesEffect`: what rules told a light last comes true.
* `PersistedWhileRunning`: when the daemon dies, the table has the state and mode of every output that is restored.
* `StartKeepsState`: a start, complete or begun again, brings back what an output was told last, unless a
  range interferes with manual mode.
* `InputSeen`, `TimesKept`: inputs and ranges win in the end.
* `QueuedUntilOpen`: `send` never meets a socket that is still connecting, and the queue is empty once it is open.
* `OneSessionPerPage`: only the connection `main.js` uses is logged in, unless two clients that were given up come back together.
* `NoLateSwitching`: what was switched offline is denied, not done late.
* `PageKnown`: on a quiet connection the daemon's page is the page shown, or the login page.
* `BackOnline`: a page always gets its session decided again.
* `EditorSeesTables`, `DeletedStaysDeleted`, `FreshEditKeepsRest`: see section 5.
* `OneRefresher`: no two threads move the bytes of one connection.
* `MainKeepsRunning`: main never hangs, also while every retry of an outage leaves a thread that holds `connectMutex` for 10 s.
* `OnlineAgain`: both connections work again after any fault, as long as the sockets lost leave two.

## 4. Fairness

Every liveness property is under `Spec`, whose `Fairness` names what the code's scheduling gives:

* `ClientRequests`: weak fairness of the main thread (`meanwhile` never stops) and of `EraseClient`; strong fairness of
  `PushInMessage`, since main releases `messagesInMutex` and sleeps between two passes: the mutex is not
  free all the time but is again and again. Browsers need not do anything.
* `ClientQueues`: weak fairness of the loop of the lws thread, of main between push and `performData`, and of time for the back-off.
  Strong fairness of a writable callback while `msgType` is `mtData`: a ping follows at most every second pass of
  `service()`, so that an armed socket that accepts data is served in a data pass too. That a pipe does not stay
  choked is an assumption of the property itself.
* `LightRules`: time passes, main goes round, deCONZ transmits and reports some target that changed; main dispatches some report, which is strongly fair because
  it does so between its calls of `performLightRules`, not during them. That each target gets its turn follows from `Tick`, which waits for the reports. Nobody has to touch a switch.
* `IoState`: systemd starts the daemon again and main runs. `LoopProcess` is strongly fair: `standbyUntil` ends
  once per interval, whatever `meanwhile` does until then. The threads of the pins run. That the daemon does not
  die for ever is an assumption of the properties.

* `WebClient`: the browser runs its events and the daemon its requests; connections succeed unless they fail, which is bounded. The user does nothing.
* `MqttConnection`: each condition is needed, TLC refutes `OnlineAgain` or `MainKeepsRunning` without it.
  Main and the threads go on, the broker comes back. `Ping`: main writes every 30 s while both objects are connected, so that a dead writer meets its errors or fills its buffer. `Silence` is
  fair only while the reader does not hear anything: other publishers may keep it awake. `RecoverEnds`: 60 s pass. `Watchdog` is strongly fair: main tests for it in each
  pass, and the condition lasts while nothing is read. `Read` needs no fairness. TCP resets a connection into which the writer sends in vain (`Reset`); nothing is sent on the
  reader's, so nothing need reset it, and only the watchdog helps. `StartedInTime` is strongly fair for the writer: its new thread does not lose the race with `mqtt_init` each time, as it would
  have to look at `close_now` in the few instructions after `pthread_create`. The reader's race needs no such condition, since the watchdog makes new objects.

## 5. What is proved

`ClientRequestsProofs` proves, with TLAPS, for every set of addresses, users and events, every table
of rights and all bounds (assumption `ConstantsAssumption` in `ClientRequests`, which TLC evaluates in its runs):

* `TypeCorrect`: `Spec => []TypeOK`.
* `RightsCorrect`: `Spec => []RightsOfSender`.
* `SessionsAccounted`: `Spec => []SessionHasConnectionOrLogout`.
* `SessionsImplemented`: `Spec => ImplementsSessions`, the refinement of `ClientSessions`.

`RightsOfSender` is not inductive: it speaks of the head of the queue, and which rights are found when a message has become the
head depends on all that is before it. The inductive invariant `IInv` is

* `TypeOK`,
* `LoginAtHead`: while main is in `performLogin`, the login is at the head of the queue;
* `CallbackState`: an open connection is in `clients`, so that `atLogout` does push a logout; the message about to be
  pushed is of the current connection of its address, and is a logout exactly if that connection is closing;
* `DispatchState`: rights come from a login of some connection;
* `SessionsSeparated`: whatever belongs to different connections at one address, two messages, or the login in
  `wsClients` and a message, has a logout of that address in between; and when the address is not open, all there is of it has a
  logout behind it or about to be pushed.

The last part is the argument: `atLogout` pushes the logout before the library can use the address again, and the
queue keeps its order, so that the rights of the old connection are gone before anything of the new one is handled.
The lemmas on queues (`TailOfQueue` and those behind it) say what `Append` and `Tail` do to the separation. Each part of
`IInv` has a lemma that a step keeps it, with a step of the proof for each action.

`SessionsAccounted` follows from `IInv` and `Accounted`: an entry in `wsClients` whose address has no open connection has a logout of that address in the
queue or about to be pushed, or a request before it whose sender is accounted for in the same way. A logout is popped only after the entry is gone.

`SessionsImplemented` needs `ConnInv` besides `IInv`: each connection number belongs to one address (`OwnedBy`, with the owner as an existential function, since the state does
not remember it) and none is larger than `nextConn`. So a connection that ends is open at no other address, and at most one login lies under its number. `HeadOfConn` combines
both invariants: whatever is at the head of the queue, the rights under its address are those of its connection, also for the logins and logouts that `RightsOfSender` says nothing about.
Each action is one step of one session: `EstablishedStep` an `Open`, `LeaveStep` a `Leave`, `PushStep` a `Send`, and `LoginStep`, `LogoutStep`, `RequestStep` a `Handle`; the others stutter.
The queue of a connection is `RequestsOf`: a message appended adds a request to its own connection only (`RequestsOfAppend`), the head is the first request of its own (`RequestsOfTail`).

`ClientQueuesProofs` proves, for any set of browsers, any number of messages and of chunks in one (`QueuesAssumption`):

* `TypeCorrect`: `Spec => []TypeOK`.
* `DeliveredWhole`: `Spec => []NothingLostOrMixed`. `DeliveryInv` splits the property in two. `QueueIsEnd`: what is queued is the end of `owed`; what comes before is `Sent`, the
  messages whose sending has begun. `SentIsCut`: the wire and the rest of the message in the buffer are together the frames of `Sent`. Pushes and logouts change `owed` at its end and leave
  `Sent` alone; only `SendChunk` moves a message into `Sent` and a frame from the rest to the wire.

`SequenceLemmas` holds what both need about sequences, first of all what `FlattenSeq`, which recurses over its argument, does to `Append`, `\o` and `Tail`. The library's induction theorems have a predicate
as parameter and cannot be used; `SetInduction` says the same of a set of numbers, and follows from `NatLessThanWellFounded`. By it the recursive function in
`FlattenSeq` is shown to exist and to meet its equation (`FlattenExists`, `FlattenSteps`).

`DashboardsProofs` proves all four properties of its run, for any number of browsers, widgets, dashboards, edits and lost connections (`DashboardsAssumption`):

* `TypeCorrect`: `Spec => []TypeOK`.
* `DeletedForGood`: `Spec => DeletedStaysDeleted`. No request adds an id but `new`, and that takes the next number.
* `FreshEditsKeepRest`: `Spec => FreshEditKeepsRest`. What holds when the request is handled was decided when it was sent, so the invariant `Known` carries it along: every
  copy, every store request and every answer on its way agrees with the tables in all dashboards whose version it has, but for what its user changed. Every step makes versions
  grow where it changes rows (`Grows`), and `Known` survives that (`UpToDateGrows`, `RequestGrows`, `EventGrows`).
* `EditorInformedAtLast`: `Spec => []EditorSeesTables`. `Followed`: a store, new or delete is followed in its queue by a refresh. `EditorInformed`: the browser whose request
  changed the tables last has a refresh or login pending, or the newest answer on its way, or none on its way and the tables in its copy. With empty queues only the last is left.

`IoStateProofs` proves, for any pins, modes, time ranges and number of stops, crashes, switches and edges (`PinsAssumption`):

* `TypeCorrect`: `Spec => []TypeOK`.
* `Persisted`: `Spec => []PersistedWhileRunning`.
* `StartRestores`: `Spec => StartKeepsState`.

Both come from one invariant. What the memory holds and what the table holds agree at different times in different parts of a run, so the invariant has one part for each:

* `TypeOK`; `Places`: a write is under way (`saving`) only where a request or `process` leaves it, and `process` returns only to its callers;
* `DefaultMode`: an output without automatic mode keeps the default; `RowsWhole`: a row that was never stored has the defaults;
* `Fresh`: before the table is read (`Beginning`, which includes a `process` called by the first reading of an input) every mode is the default and an output without a row is off;
* `InTable`: afterwards (`Loaded`) the row of every output is what is in memory, but for the write under way;
* `ToldKept`: the row has what the output was told last, or the write under way has it, or a range stands in the way of a manual output (`Excused`).

`InTable` alone would not survive a start: the first `process` may write a row from default modes. `Fresh` says what it can write, and `ToldKept` that
this loses nothing an output was told, but for the excused ones; these are what the run `IoStateRestart` shows.

`LightRulesProofs` proves, for any rules, groups and delays and any finite set of lights (`LightAssumption`; the order in which a rule goes through
its lights is an enumeration of a finite set):

* `TypeCorrect`: `Spec => []TypeOK`. It includes that no command is repeated more often than `MaxRetries`.
* `RepeatsNewest`: `Spec => RepeatsNewestCommand`. The invariant is `TypeOK`, `AtRule` (the number of the rule is one while events are handled) and `TracksNewest`: the
  command that is tracked for a light is what a rule told it last, unless a switch, the color picker or a group came after. `toggleIo` ends the check and a command of a rule replaces it; a repetition keeps both.
  The theorem does not say that no newer command is undone: the color picker's is, see `LightRulesColor`.

`MqttConnectionProofs` proves, for any set of refresh threads, any number of faults, descriptors and addresses and any send buffer of at least two messages (`ThreadsAssumption`, `BoundsAssumption`):

* `TypeCorrect`: `Spec => []TypeOK`.
* `RefresherAlone`: `Spec => []OneRefresher`. `Alone` says a thread that is neither gone nor cancelled (`Busy`) is the one in `handle`. To keep it when a
  connection is opened, no thread may be busy then, and that has a reason in each place of main: `Locks` says who is inside `disconnect()` or `connect()`;
  `Answered`, that `close_now = 2` means the thread is gone, but for a stale answer at the start of a connection; `Told`, that the thread of a connection
  that was given up has been told to end; `Calm`, that no cancelled thread is left that could disconnect the next connection. `Calm` alone does not survive
  a disconnect: a cancelled thread may still want the lock. `Paused` ties it to the 20 s between two tries, in which such a thread ends (`PauseEnds`).
  The theorem covers outages in which each try has its own thread. It rests on the timing that `Due` names, not on the locks alone: if a thread could put off what is due beyond the 20 s, the
  next connection would have two.

`WebClientProofs` proves, for any pages and any number of inputs and faults (`WebClientAssumption`):

* `TypeCorrect`: `Spec => []TypeOK`, `QueuedFirst`: `Spec => []QueuedUntilOpen`.
* `LoggedInOnce`: `Spec => []OneSessionPerPage`, `SwitchedInTime`: `Spec => []NoLateSwitching`.

The invariant is about the page alone (`Good`), so that each operator on `tab` keeps it and a handler that calls several keeps it by citing their lemmas:

* `Whole`: types, and for each client `ClientInv`: its web socket, `held`, its queue, its connection and its timer fit together;
* `Marked`: the clients that are given up, and the current one if its connection broke, each had a fault of their own, so there are at most `faults` of them and
  `ConnectWebSocket` finds a socket that is not in use;
* `Sober`: while no other client is left, no login is queued and a late request under way has no login ahead of it and meets a daemon without login (`LateDenied`).
  `NoLateSwitching` says this of the first request only, which a step of the daemon would not keep;
* `Mute`: a single client that was given up has no login in its queue or under way and no session.

`PageToldAtLast`: `Spec => []PageKnown`, needs a second invariant, `Shown`, beside that one. `Peer`: the page `vdr` is shown exactly while the
current socket belongs to its server, which never gives a session. `KnownTo`, for an open connection to the daemon and any page but the login page: of the requests under way the
last one that tells a page tells the page shown, or there is none and the daemon has it (`Told`); or there is no session and no login to come, so that what is told is denied.
`mainMenuSel` restores all of it whatever was told before, so a step only has to keep `Peer` up to its call; a handled request moves from one side of `Told` to the other.

Only model-checked is liveness under fairness, which is out of the prover's reach: all properties of section 4, and `BackOnline`, `InputSeen`, `TimesKept`. Every other property
of the passing runs is a theorem.

## 6. Where the code and its documentation differ

* `ClientRequestsGhost`: `SetClientType` writes `clients[wsi]` for a connection that was closed after its login
  was queued; the entry comes back and is never erased. The comment at `src/websock.c:440` says why closed clients are to be removed.
* `LightRulesRetrigger`: motion after the timer's `off` was sent and before it was reported switches the light on with an empty list of targets to switch off; the
  light stays on. `src/lightrules.c:33` says how the off timer should work.
* `LightRulesColor`: the color picker switches a light on without ending the check of an earlier `off` of a rule (`src/daemon.c:5515`), which is repeated and switches the light off again;
  `src/lightrules.c:42` says that switching by the web interface ends the check.
* `IoStateRestart`: the first reading of an input during the start runs `process()` with all outputs in the default mode, which
  switches and stores a manual output before `loadIoStates` reads the table; `src/daemon.c:550`.
* `MqttConnectionLeak`: a refresh thread whose socket failed calls `disconnect()` itself, waits 10 s for its own end, cancels itself and ends in `close()`: the socket stays open,
  unlike `src/lib/mqtt.c:212`. In an outage each retry does so, as a refused socket is used like a connected one (`src/lib/mqtt.c:407`): a descriptor is lost every 20 s, and when none is left both connections stay
  down (the second half of `OnlineAgain`).

Seen while modelling, and part of the models without a property that forbids them:

* *Lights.* Toggling a group in the web interface does not end the checks of the lights in it (`src/daemon.c:5543`, `src/lightrules.c:43`), and commands to a group are
  not repeated. An off timer keeps a target that was switched off by hand as long as an `on` command for it is tracked, although it
  may be confirmed already; the comment at `src/lightrules.c:372` intends this while the command is repeated (`RepeatingOn`).
* *Pages.* What is queued offline is sent ahead of the login and denied, and is forgotten at each failed attempt. A client that was closed while it waited to reconnect (`src/htdocs/main.js:1323`)
  opens again and sends a login by the socket used now. `ready` comes after a rejected login, too: with a remembered start page the login page is left again.
* *Dashboards.* A widget dropped on the button of its own dashboard is no longer drawn but stays in the table, and goes with the next edit. A second edit before the answer to the first undoes
  an addition or a reset. Browsers with an old copy take back what others did. A move onto a dashboard that was deleted leaves a row nobody sees. Each edit of a widget resets the group of its dashboard to 0.
* *MQTT.* A new refresh thread may end at once; the connection then counts as connected without anybody moving bytes until its buffer is full or the watchdog deletes both objects. `openSocket()`
  tries every address with the data of the first (`src/lib/mqtt.c:405`).

## 7. What is not modelled

* What requests do to configuration and rows of the database other than dashboards; formatting, translation, logging, HTTP.
* The effects of the data race in `clients` (the callbacks for new connections and for writing use the map without its
  mutex): the outcome is a crash.
* Brightness and transition of lights; targets of rules that are not deCONZ lights; the map of deCONZ devices.
* Outputs at I2C port expanders and their feedback inputs; LUA scripts of outputs; the drivers of the pins.
* Dashboards: their order, titles, groups and settings; drawing, the timers of kiosk mode; a crash in the middle of storing.
* Pages: dialogs, the check for a new version of the interface, the protocol of the VDR, what the other pages show.
* MQTT: received messages and topics, the shutdown of the daemon, failures of `pthread_create`, `mqtt_init` and `mqtt_connect`, `SIGPIPE`, descriptors used by other parts, messages left in the read queue from before a loss; of the vendored `mqtt_c` only the buffer, the error and `close_now`.
* The components of section 1 that section 2 does not name. Those of the plan follow. GPS tours, activities, openHASP and LMC are data
  processing and SQL; the satellite services are bound to hardware; the library has no state of the system. `mqtt_c`, `sol` and
  the JavaScript under `src/htdocs/jquery` and `src/htdocs/lib` are vendored.

## 8. Plan

Done: the modules of section 2, in the order of the table. The order of what follows is by what can go wrong:

1. `Scripts`: `callScript`, `executeCommandAsync`, `cmdThread`, `updateScriptSensors`. Main and one thread per script share a control
   block; the flag `active` is set by the thread itself. Invariant: at most one thread per block, no block is erased while its thread
   may use it. Abstract specification: a script is idle or running. Two scripts, three calls.
2. `HomeMaticRequests`: the queue of value requests with timeouts; an answer belongs to the request it is taken for.
3. `Shade` and `ActorTimes`: switching at the limits of ranges, after a stall and by hand.
4. `Alerts` and LUA scheduling, if there is room: pure functions of rows and times against a reference.
5. A composition of `IoState` and `ClientRequests`: `toggleIo` as a request, with its rights; the progress dialog of the pages.

No module to be proved about declares a RECURSIVE operator.
