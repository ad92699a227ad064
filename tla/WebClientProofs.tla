--------------------------- MODULE WebClientProofs ---------------------------
(***************************************************************************)
(* Proofs about WebClient, for any pages and any number of inputs and      *)
(* faults: the types, that nothing is sent by a web socket that is still   *)
(* connecting, that a page has one session, that nothing is switched late, *)
(* and that the daemon gets to know the page shown.                        *)
(***************************************************************************)
EXTENDS WebClient, FiniteSetTheorems, SequenceTheorems, TLAPS

-----------------------------------------------------------------------------
(* The invariant, as predicates on any state of the page.                  *)

Stored == (AllPages \ {"login"}) \union {"none"}
ConnType == [up : Seq(Requests), down : Seq({"ready", "reject", "confirm"}),
             sess : {"none", "ok", "rejected"}, sessPage : AllPages \union {"none"}]
TabType == [clients : [Sockets -> ClientType], socket : Sockets, page : AllPages,
            start : Stored, stored : Stored]

(* What was switched while the page was offline. *)
Late(m) == m.kind = "control" /\ m.late

(* The state of a web socket and what its client holds fit together. *)
ClientInv(c) ==
    /\ c.ws = "connecting" => c.held
    /\ c.ws = "open" => ~c.held /\ c.queue = <<>>
    /\ c.ws = "closed" => c.held
    /\ c.ws # "open" => c.conn = NoConnection
    /\ c.timer => c.ws = "closed"

(* A late request meets a daemon without a login, and none is ahead of it. *)
LateDenied(up, sess) ==
    \A i \in 1..Len(up) :
        Late(up[i]) => sess # "ok" /\ \A j \in 1..(i - 1) : up[j].kind # "login"
NoLogin(queue) == \A i \in 1..Len(queue) : queue[i].kind # "login"
Denied(c) == NoLogin(c.queue) /\ LateDenied(c.conn.up, c.conn.sess)

(* The sockets in use besides the current one. *)
Used(t) == {o \in Sockets : t.clients[o].ws # "unused"}
Others(t) == Used(t) \ {t.socket}

(* The sockets each of which has had a fault of its own. *)
Struck(c) == c.timer \/ c.ws = "broken"
Marked(t) == {o \in Used(t) : o = t.socket => Struck(t.clients[o])}

Whole(t) == t \in TabType /\ \A o \in Sockets : ClientInv(t.clients[o])
Sober(t) == Others(t) = {} => \A o \in Sockets : Denied(t.clients[o])

(* The first socket that was given up never logs in. *)
Silent(c) == NoLogin(c.queue) /\ NoLogin(c.conn.up) /\ c.conn.sess # "ok"
Mute(t) == Cardinality(Others(t)) <= 1 => \A o \in Others(t) : Silent(t.clients[o])

Good(t, n) == Whole(t) /\ Sober(t) /\ Mute(t) /\ Cardinality(Marked(t)) <= n

KnownCredentials == token \in {"none", "given"} /\ revoked \in BOOLEAN

IInv == /\ KnownCredentials
        /\ inputs \in 0..MaxInputs /\ faults \in 0..MaxFaults
        /\ Good(tab, faults)

-----------------------------------------------------------------------------
(* Requests and clients. *)

LEMMA LoginType ==
    ASSUME NEW page \in AllPages, NEW tok \in {"none", "given"}
    PROVE  Login(page, tok) \in Requests /\ ~Late(Login(page, tok))
  BY DEF Login, Requests, Late

LEMMA PageChangeType ==
    ASSUME NEW page \in AllPages
    PROVE  /\ PageChange(page) \in Requests /\ ~Late(PageChange(page))
           /\ PageChange(page).kind # "login"
  BY DEF PageChange, Requests, Late

LEMMA SwitchTypes ==
    ASSUME NEW b \in BOOLEAN
    PROVE  /\ Control(b) \in Requests /\ (Late(Control(b)) <=> b) /\ Control(b).kind # "login"
           /\ GetToken(b) \in Requests /\ ~Late(GetToken(b)) /\ GetToken(b).kind # "login"
  BY DEF Control, GetToken, Requests, Late

LEMMA NoConnectionType ==
    /\ NoConnection \in ConnType /\ NoConnection.up = <<>> /\ NoConnection.sess = "none"
    /\ NoConnection.down = <<>>
  BY DEF NoConnection, ConnType

LEMMA NewClient ==
    ASSUME NEW peer \in {"daemon", "vdr"}, NEW ws \in {"unused", "connecting"}
    PROVE  /\ Client(peer, ws) \in ClientType /\ ClientInv(Client(peer, ws))
           /\ Denied(Client(peer, ws)) /\ Client(peer, ws).ws = ws
           /\ ~Struck(Client(peer, ws))
  BY NoConnectionType
     DEF Client, ClientType, ConnType, ClientInv, Denied, NoLogin, LateDenied, Struck

(* A request less, or one more that is not late. *)
LEMMA LateTail ==
    ASSUME NEW up \in Seq(Requests), up # <<>>, NEW sess, LateDenied(up, sess)
    PROVE  /\ LateDenied(Tail(up), sess)
           /\ Head(up).kind = "login" => \A other : LateDenied(Tail(up), other)
  <1>1. Len(Tail(up)) = Len(up) - 1 /\ Len(up) \in Nat /\ Len(up) > 0 /\ Head(up) = up[1]
    BY HeadTailProperties, LenProperties, EmptySeq
  <1>2. \A i \in 1..Len(Tail(up)) : Tail(up)[i] = up[i + 1] /\ i + 1 \in 1..Len(up)
    BY <1>1, HeadTailProperties
  <1>3. ASSUME NEW i \in 1..Len(Tail(up)), Late(Tail(up)[i])
        PROVE  sess # "ok" /\ up[1].kind # "login" /\ \A j \in 1..(i - 1) : Tail(up)[j].kind # "login"
    <2>1. /\ sess # "ok" /\ \A j \in 1..i : up[j].kind # "login"
      <3>1. Late(up[i + 1]) /\ i + 1 \in 1..Len(up) /\ (i + 1) - 1 = i
        BY <1>1, <1>2, <1>3
      <3> QED
        BY <3>1 DEF LateDenied
    <2>2. \A j \in 1..(i - 1) : j + 1 \in 1..i /\ Tail(up)[j] = up[j + 1]
      BY <1>1, <1>2
    <2> QED
      BY <1>1, <2>1, <2>2
  <1> QED
    BY <1>1, <1>3 DEF LateDenied

LEMMA LoginTail ==
    ASSUME NEW up \in Seq(Requests), up # <<>>, NoLogin(up)
    PROVE  NoLogin(Tail(up)) /\ Head(up).kind # "login"
  <1>1. Len(Tail(up)) = Len(up) - 1 /\ Len(up) \in Nat /\ Len(up) > 0 /\ Head(up) = up[1]
    BY HeadTailProperties, LenProperties, EmptySeq
  <1>2. \A i \in 1..Len(Tail(up)) : Tail(up)[i] = up[i + 1] /\ i + 1 \in 1..Len(up)
    BY <1>1, HeadTailProperties
  <1> QED
    BY <1>1, <1>2 DEF NoLogin

LEMMA LateAppend ==
    ASSUME NEW up \in Seq(Requests), NEW m \in Requests, ~Late(m), NEW sess, LateDenied(up, sess)
    PROVE  up \o <<m>> \in Seq(Requests) /\ LateDenied(up \o <<m>>, sess)
  <1>1. /\ up \o <<m>> \in Seq(Requests) /\ Len(up \o <<m>>) = Len(up) + 1 /\ Len(up) \in Nat
        /\ \A i \in 1..Len(up) : (up \o <<m>>)[i] = up[i]
        /\ (up \o <<m>>)[Len(up) + 1] = m
    OBVIOUS
  <1> DEFINE more == up \o <<m>>
  <1> HIDE DEF more
  <1>2. ASSUME NEW i \in 1..Len(more), Late(more[i])
        PROVE  sess # "ok" /\ \A j \in 1..(i - 1) : more[j].kind # "login"
    <2>1. i \in 1..Len(up)
      BY <1>1, <1>2 DEF more
    <2>2. more[i] = up[i] /\ \A j \in 1..(i - 1) : j \in 1..Len(up) /\ more[j] = up[j]
      BY <1>1, <2>1 DEF more
    <2> QED
      BY <1>2, <2>1, <2>2 DEF LateDenied
  <1> QED
    BY <1>1, <1>2 DEF LateDenied, more

LEMMA LateQueue ==
    ASSUME NEW queue \in Seq(Requests), NoLogin(queue)
    PROVE  <<>> \o queue \in Seq(Requests) /\ LateDenied(<<>> \o queue, "none")
  <1>1. <<>> \o queue = queue /\ Len(queue) \in Nat
    BY ConcatEmptySeq, LenProperties
  <1>2. \A i \in 1..Len(queue) : \A j \in 1..(i - 1) : j \in 1..Len(queue)
    BY <1>1
  <1> QED
    BY <1>1, <1>2 DEF NoLogin, LateDenied

LEMMA AppendOne ==
    ASSUME NEW queue \in Seq(Requests), NEW m \in Requests
    PROVE  LET q == Append(queue, m)
           IN q \in Seq(Requests) /\ Len(q) = Len(queue) + 1 /\ Len(queue) \in Nat
              /\ (\A i \in 1..Len(queue) : q[i] = queue[i]) /\ q[Len(queue) + 1] = m
  OBVIOUS

LEMMA TransmitEffect ==
    ASSUME NEW c \in ClientType, NEW msgs \in Seq(Requests)
    PROVE  LET d == Transmit(c, msgs)
           IN /\ d \in ClientType
              /\ d.ws = c.ws /\ d.held = c.held /\ d.queue = c.queue /\ d.timer = c.timer
              /\ d.conn.sess = c.conn.sess
              /\ d.conn.up = c.conn.up \/ d.conn.up = c.conn.up \o msgs
              /\ msgs = <<>> => d.conn = c.conn
  <1>1. c.conn \in ConnType /\ c.conn.up \o msgs \in Seq(Requests)
    BY ConcatProperties DEF ClientType, ConnType
  <1> DEFINE k == [c.conn EXCEPT !.up = @ \o msgs]
             d == [c EXCEPT !.conn = k]
  <1>2. k \in ConnType /\ k.sess = c.conn.sess /\ k.up = c.conn.up \o msgs
    BY <1>1 DEF ConnType
  <1>3. /\ d \in ClientType /\ d.conn = k
        /\ d.ws = c.ws /\ d.held = c.held /\ d.queue = c.queue /\ d.timer = c.timer
    <2> HIDE DEF k
    <2> QED
      BY <1>2 DEF ClientType, ConnType
  <1>4. Transmit(c, msgs) = d \/ Transmit(c, msgs) = c
    BY DEF Transmit
  <1>5. msgs = <<>> => k = c.conn
    BY <1>1, ConcatEmptySeq DEF ConnType
  <1> HIDE DEF d, k
  <1> QED
    BY <1>2, <1>3, <1>4, <1>5

-----------------------------------------------------------------------------
(* One client of a page is changed. *)
Changed(u, t, o, d) == u = [t EXCEPT !.clients[o] = d]

LEMMA ChangedClient ==
    ASSUME NEW t \in TabType, NEW o \in Sockets, NEW d \in ClientType,
           d.ws = "unused" <=> t.clients[o].ws = "unused",
           NEW u, Changed(u, t, o, d)
    PROVE  /\ u \in TabType /\ u.clients[o] = d
           /\ \A p \in Sockets : p # o => u.clients[p] = t.clients[p]
           /\ u.socket = t.socket /\ u.page = t.page /\ u.start = t.start /\ u.stored = t.stored
           /\ Used(u) = Used(t) /\ Others(u) = Others(t)
           /\ Whole(t) /\ ClientInv(d) => Whole(u)
           /\ Sober(t) /\ (Others(t) = {} => Denied(d)) => Sober(u)
           /\ Mute(t) /\ (o = t.socket \/ (Silent(t.clients[o]) => Silent(d))) => Mute(u)
           /\ Marked(u) \subseteq Marked(t) \union {o}
           /\ (Struck(d) => Struck(t.clients[o])) => Marked(u) \subseteq Marked(t)
  <1>1. /\ u \in TabType /\ u.clients = [t.clients EXCEPT ![o] = d]
        /\ u.socket = t.socket /\ u.page = t.page /\ u.start = t.start /\ u.stored = t.stored
    BY DEF TabType, Changed
  <1>2. u.clients[o] = d /\ \A p \in Sockets : p # o => u.clients[p] = t.clients[p]
    BY <1>1 DEF TabType
  <1>3. Used(u) = Used(t) /\ Others(u) = Others(t)
    BY <1>1, <1>2 DEF Used, Others
  <1>4. Whole(t) /\ ClientInv(d) => Whole(u)
    BY <1>1, <1>2 DEF Whole
  <1>5. Sober(t) /\ (Others(t) = {} => Denied(d)) => Sober(u)
    BY <1>2, <1>3 DEF Sober
  <1>6. /\ Marked(u) \subseteq Marked(t) \union {o}
        /\ (Struck(d) => Struck(t.clients[o])) => Marked(u) \subseteq Marked(t)
    BY <1>1, <1>2, <1>3 DEF Marked, Used
  <1>7. Mute(t) /\ (o = t.socket \/ (Silent(t.clients[o]) => Silent(d))) => Mute(u)
    BY <1>2, <1>3 DEF Mute, Others, Used
  <1> QED
    BY <1>1, <1>2, <1>3, <1>4, <1>5, <1>6, <1>7

-----------------------------------------------------------------------------
(* Counting the faults of the sockets. *)

LEMMA SocketsFinite == IsFiniteSet(Sockets) /\ Cardinality(Sockets) = MaxFaults + 1
  <1>1. MaxFaults \in Nat
    BY WebClientAssumption
  <1> QED
    BY <1>1, FS_Interval DEF Sockets

LEMMA MarkedFinite ==
    ASSUME NEW t
    PROVE  IsFiniteSet(Marked(t)) /\ Cardinality(Marked(t)) \in Nat
  <1>1. Marked(t) \subseteq Sockets
    BY DEF Marked, Used
  <1>2. IsFiniteSet(Marked(t))
    BY <1>1, SocketsFinite, FS_Subset
  <1> QED
    BY <1>2, FS_CardinalityType

LEMMA MarkedNoMore ==
    ASSUME NEW t, NEW u, NEW n \in Nat, Marked(u) \subseteq Marked(t), Cardinality(Marked(t)) <= n
    PROVE  Cardinality(Marked(u)) <= n
  <1>1. Cardinality(Marked(u)) <= Cardinality(Marked(t))
    BY MarkedFinite, FS_Subset
  <1> QED
    BY <1>1, MarkedFinite

LEMMA MarkedOneMore ==
    ASSUME NEW t, NEW u, NEW n \in Nat, NEW o, Marked(u) \subseteq Marked(t) \union {o},
           Cardinality(Marked(t)) <= n
    PROVE  Cardinality(Marked(u)) <= n + 1
  <1>1. /\ IsFiniteSet(Marked(t) \union {o})
        /\ Cardinality(Marked(t) \union {o}) \in {Cardinality(Marked(t)), Cardinality(Marked(t)) + 1}
    BY MarkedFinite, FS_AddElement
  <1>2. Cardinality(Marked(u)) <= Cardinality(Marked(t) \union {o})
    BY <1>1, FS_Subset
  <1> QED
    BY <1>1, <1>2, MarkedFinite

LEMMA OnlyOne ==
    ASSUME NEW S, IsFiniteSet(S), Cardinality(S) <= 1, NEW x \in S
    PROVE  S = {x}
  <1>1. Cardinality({x}) = 1 /\ {x} \in SUBSET S /\ Cardinality(S) \in Nat
    BY FS_Singleton, FS_CardinalityType
  <1>2. Cardinality({x}) <= Cardinality(S) /\ (Cardinality(S) = Cardinality({x}) => S = {x})
    BY <1>1, FS_Subset
  <1> QED
    BY <1>1, <1>2

(* A client may change as it keeps the parts that are about it. *)
LEMMA GoodChange ==
    ASSUME NEW n \in Nat, NEW t, Good(t, n), NEW o \in Sockets, NEW d \in ClientType,
           d.ws = "unused" <=> t.clients[o].ws = "unused",
           ClientInv(d), Others(t) = {} => Denied(d), Struck(d) => Struck(t.clients[o]),
           o = t.socket \/ (Silent(t.clients[o]) => Silent(d)),
           NEW u, Changed(u, t, o, d)
    PROVE  /\ Good(u, n) /\ Others(u) = Others(t) /\ u.clients[o] = d
           /\ u.socket = t.socket /\ u.page = t.page /\ u.start = t.start /\ u.stored = t.stored
  <1>1. t \in TabType /\ Whole(t) /\ Sober(t) /\ Mute(t) /\ Cardinality(Marked(t)) <= n
    BY DEF Good, Whole
  <1>2. /\ Others(u) = Others(t) /\ u.clients[o] = d
        /\ u.socket = t.socket /\ u.page = t.page /\ u.start = t.start /\ u.stored = t.stored
    BY <1>1, ChangedClient
  <1>3. Whole(u) /\ Marked(u) \subseteq Marked(t)
    BY <1>1, ChangedClient
  <1>4. Sober(u)
    BY <1>1, ChangedClient
  <1>5. Mute(u)
    BY <1>1, ChangedClient
  <1> QED
    BY <1>1, <1>2, <1>3, <1>4, <1>5, MarkedNoMore DEF Good

LEMMA GoodStruck ==
    ASSUME NEW n \in Nat, NEW t, Good(t, n), NEW o \in Sockets, NEW d \in ClientType,
           d.ws = "unused" <=> t.clients[o].ws = "unused",
           ClientInv(d), Others(t) = {} => Denied(d),
           o = t.socket \/ (Silent(t.clients[o]) => Silent(d)),
           NEW u, Changed(u, t, o, d)
    PROVE  Good(u, n + 1)
  <1>1. t \in TabType /\ Whole(t) /\ Sober(t) /\ Mute(t) /\ Cardinality(Marked(t)) <= n
    BY DEF Good, Whole
  <1>2. Whole(u) /\ Marked(u) \subseteq Marked(t) \union {o}
    BY <1>1, ChangedClient
  <1>3. Sober(u)
    BY <1>1, ChangedClient
  <1>4. Mute(u)
    BY <1>1, ChangedClient
  <1> QED
    BY <1>1, <1>2, <1>3, <1>4, MarkedOneMore DEF Good

-----------------------------------------------------------------------------
(* send, and the changes of the page. *)

(* No login is queued by the only client, and no late request is sent at once. *)
Fits(t, m) == Others(t) = {} => /\ m.kind = "login" => ~Current(t).held
                                /\ Late(m) => Current(t).held

LEMMA SendGood ==
    ASSUME NEW n \in Nat, NEW t, Good(t, n), NEW m \in Requests, Fits(t, m)
    PROVE  /\ Good(Send(t, m), n) /\ Send(t, m).page = t.page
           /\ Send(t, m).start = t.start
  <1> DEFINE o == t.socket
             c == t.clients[o]
  <1>1. t \in TabType /\ o \in Sockets /\ c \in ClientType /\ ClientInv(c) /\ c = Current(t)
    BY DEF Good, Whole, TabType, Current
  <1>2. Others(t) = {} => Denied(c)
    BY <1>1 DEF Good, Sober
  <1>3. c.queue \in Seq(Requests) /\ <<m>> \in Seq(Requests) /\ c.conn.up \in Seq(Requests)
    BY <1>1 DEF ClientType
  <1>4. CASE c.held
    <2> DEFINE q == Append(c.queue, m)
               d == [c EXCEPT !.queue = q]
    <2>1. q \in Seq(Requests) /\ Len(q) = Len(c.queue) + 1 /\ Len(c.queue) \in Nat
          /\ (\A i \in 1..Len(c.queue) : q[i] = c.queue[i]) /\ q[Len(c.queue) + 1] = m
      BY <1>3, AppendOne
    <2>2. NoLogin(c.queue) /\ m.kind # "login" => NoLogin(q)
      <3> HIDE DEF q
      <3>1. \A i \in 1..Len(q) : i \in 1..Len(c.queue) \/ i = Len(c.queue) + 1
        BY <2>1
      <3> QED
        BY <2>1, <3>1 DEF NoLogin
    <2>3. /\ d \in ClientType /\ d.queue = q /\ d.ws = c.ws /\ d.held = c.held /\ d.timer = c.timer
          /\ d.conn = c.conn
      <3> HIDE DEF q
      <3> QED
        BY <1>1, <2>1 DEF ClientType
    <2>4. Changed(Send(t, m), t, o, d)
      BY <1>1, <1>4 DEF Send, Changed
    <2> HIDE DEF d, q
    <2>5. ClientInv(d) /\ (Struck(d) => Struck(c))
      BY <1>1, <1>4, <2>3 DEF ClientInv, Struck
    <2>6. Others(t) = {} => Denied(d)
      BY <1>1, <1>2, <1>4, <2>2, <2>3 DEF Denied, Fits
    <2> QED
      BY <1>1, <2>3, <2>4, <2>5, <2>6, GoodChange
  <1>5. CASE ~c.held /\ c.ws = "open"
    <2> DEFINE d == Transmit(c, <<m>>)
    <2>1. Changed(Send(t, m), t, o, d)
      BY <1>1, <1>5 DEF Send, Changed
    <2>2. /\ d \in ClientType
          /\ d.ws = c.ws /\ d.held = c.held /\ d.queue = c.queue /\ d.timer = c.timer
          /\ d.conn.sess = c.conn.sess
          /\ d.conn.up = c.conn.up \/ d.conn.up = c.conn.up \o <<m>>
      BY <1>1, <1>3, TransmitEffect
    <2> HIDE DEF d
    <2>3. ClientInv(d) /\ (Struck(d) => Struck(c))
      BY <1>1, <1>5, <2>2 DEF ClientInv, Struck
    <2>4. Others(t) = {} => Denied(d)
      BY <1>1, <1>2, <1>3, <1>5, <2>2, LateAppend DEF Denied, Fits
    <2> QED
      BY <1>1, <2>1, <2>2, <2>3, <2>4, GoodChange
  <1>6. CASE ~c.held /\ c.ws # "open"
    <2>1. Changed(Send(t, m), t, o, c)
      BY <1>1, <1>6 DEF Send, Changed
    <2> QED
      BY <1>1, <1>2, <2>1, GoodChange
  <1> QED
    BY <1>4, <1>5, <1>6

(* close and the socket opened instead: there is one that is not in use,   *)
(* as each of those given up had a fault.                                  *)
LEMMA OtherSocket ==
    ASSUME NEW n \in 0..MaxFaults, NEW t, Good(t, n), NEW peer \in {"daemon", "vdr"}
    PROVE  LET v == ConnectWebSocket(Close(t), peer)
           IN Good(v, n) /\ v.page = t.page /\ v.start = t.start
  <1> DEFINE s == t.socket
             c == t.clients[s]
             d == IF c.timer THEN c ELSE Unused
             u == [t EXCEPT !.clients[s] = d]
  <1>1. /\ t \in TabType /\ s \in Sockets /\ c \in ClientType
        /\ \A o \in Sockets : ClientInv(t.clients[o])
    BY DEF Good, Whole, TabType
  <1>2. n \in Nat /\ n <= MaxFaults /\ MaxFaults \in Nat
    BY WebClientAssumption
  <1>3. Unused \in ClientType /\ ClientInv(Unused) /\ Denied(Unused) /\ Unused.ws = "unused"
    BY NewClient DEF Unused
  <1>4. Close(t) = u
    BY DEF Close
  <1>5. d \in ClientType /\ ClientInv(d) /\ (d.ws # "unused" => d = c /\ c.timer)
        /\ d \in {c, Unused}
    BY <1>1, <1>3
  <1> HIDE DEF d
  <1>6. /\ u \in TabType /\ u.clients[s] = d /\ u.clients \in [Sockets -> ClientType]
        /\ \A o \in Sockets : o # s => u.clients[o] = t.clients[o]
        /\ u.page = t.page /\ u.start = t.start
    BY <1>1, <1>5 DEF TabType
  <1> HIDE DEF u
  <1>7. Used(u) \subseteq Marked(t)
    BY <1>5, <1>6 DEF Used, Marked, Struck
  <1>8. IsFiniteSet(Used(u)) /\ Cardinality(Used(u)) <= n /\ Cardinality(Used(u)) \in Nat
    <2>1. IsFiniteSet(Used(u)) /\ Cardinality(Used(u)) <= Cardinality(Marked(t))
      BY <1>7, MarkedFinite, FS_Subset
    <2>2. Cardinality(Used(u)) \in Nat
      BY <2>1, FS_CardinalityType
    <2> QED
      BY <1>2, <2>1, <2>2, MarkedFinite DEF Good
  <1>9. \E o \in Sockets : u.clients[o].ws = "unused"
    <2>1. SUFFICES ASSUME Used(u) = Sockets PROVE FALSE
      BY DEF Used
    <2> QED
      BY <1>2, <1>8, <2>1, SocketsFinite
  <1> DEFINE f == UnusedIn(u)
             k == Client(peer, "connecting")
             v == [u EXCEPT !.clients[f] = k, !.socket = f]
  <1>10. f \in Sockets /\ u.clients[f].ws = "unused"
    BY <1>9 DEF UnusedIn
  <1>11. k \in ClientType /\ ClientInv(k) /\ Denied(k) /\ k.ws = "connecting" /\ ~Struck(k)
    BY NewClient
  <1>12. ConnectWebSocket(Close(t), peer) = v
    BY <1>4 DEF ConnectWebSocket
  <1> HIDE DEF f, k
  <1>13. /\ v \in TabType /\ v.socket = f /\ v.clients = [u.clients EXCEPT ![f] = k]
         /\ v.page = t.page /\ v.start = t.start
    BY <1>6, <1>10, <1>11 DEF TabType
  <1> HIDE DEF v
  <1>14. v.clients[f] = k /\ \A o \in Sockets : o # f => v.clients[o] = u.clients[o]
    BY <1>6, <1>10, <1>13
  <1>15. Whole(v)
    BY <1>1, <1>5, <1>6, <1>11, <1>13, <1>14 DEF Whole
  <1>16. Others(v) = Used(u) /\ Marked(v) \subseteq Used(u)
    BY <1>10, <1>11, <1>13, <1>14 DEF Others, Used, Marked
  <1>17. Sober(v)
    <2> SUFFICES ASSUME Used(u) = {} PROVE \A o \in Sockets : Denied(v.clients[o])
      BY <1>16 DEF Sober
    <2>1. Others(t) = {}
      BY <1>6 DEF Others, Used
    <2>2. \A o \in Sockets : Denied(t.clients[o])
      BY <2>1 DEF Good, Sober
    <2> QED
      BY <1>1, <1>3, <1>5, <1>6, <1>11, <1>14, <2>2
  <1>18. Mute(v)
    <2> SUFFICES ASSUME Cardinality(Used(u)) <= 1, NEW o \in Used(u)
                 PROVE  Silent(v.clients[o])
      BY <1>16 DEF Mute
    <2>1. v.clients[o] = u.clients[o] /\ o \in Sockets /\ o # f
      BY <1>10, <1>14 DEF Used
    <2>2. CASE s \in Used(u)
      <3>1. Used(u) = {s}
        BY <1>8, <2>2, OnlyOne
      <3>2. Others(t) = {} /\ o = s /\ u.clients[s] = c /\ c.ws # "open"
        BY <1>1, <1>5, <1>6, <2>2, <3>1 DEF Others, Used, ClientInv
      <3>3. Denied(c) /\ c.conn = NoConnection
        BY <1>1, <3>2 DEF Good, Sober, ClientInv
      <3> QED
        BY <2>1, <3>2, <3>3, NoConnectionType DEF Silent, Denied, NoLogin
    <2>3. CASE s \notin Used(u)
      <3>1. Used(u) = Others(t) /\ o # s /\ u.clients[o] = t.clients[o]
        BY <1>6, <2>1, <2>3 DEF Others, Used
      <3> QED
        BY <2>1, <3>1 DEF Good, Mute
    <2> QED
      BY <2>2, <2>3
  <1>19. Cardinality(Marked(v)) <= n
    <2>1. Marked(v) \subseteq Marked(t)
      BY <1>7, <1>16
    <2> QED
      BY <1>2, <2>1, MarkedNoMore DEF Good
  <1> QED
    BY <1>12, <1>13, <1>15, <1>17, <1>19, <1>18 DEF Good

(* The clients stay. *)
LEMMA SameClients ==
    ASSUME NEW n \in Nat, NEW t, Good(t, n), NEW u \in TabType,
           u.clients = t.clients, u.socket = t.socket
    PROVE  Good(u, n)
  <1>1. Others(u) = Others(t) /\ Marked(u) = Marked(t)
    BY DEF Others, Used, Marked
  <1> QED
    BY <1>1 DEF Good, Whole, Sober, Mute

LEMMA MainMenuSelGood ==
    ASSUME NEW n \in 0..MaxFaults, NEW t, Good(t, n), NEW what \in AllPages
    PROVE  Good(MainMenuSel(t, what), n)
  <1> DEFINE shown == [t EXCEPT !.page = what, !.stored = IF what = "login" THEN @ ELSE what]
             other == what # t.page /\ "vdr" \in {what, t.page}
             peer  == IF what = "vdr" THEN "vdr" ELSE "daemon"
             ready == IF other THEN ConnectWebSocket(Close(shown), peer) ELSE shown
  <1>1. n \in Nat /\ t \in TabType /\ t.stored \in Stored /\ (what # "login" => what \in Stored)
    BY WebClientAssumption DEF Good, Whole, TabType, Stored
  <1>2. shown \in TabType /\ shown.clients = t.clients /\ shown.socket = t.socket
    BY <1>1 DEF TabType
  <1>3. Good(shown, n)
    <2> HIDE DEF shown
    <2> QED
      BY <1>1, <1>2, SameClients
  <1>4. peer \in {"daemon", "vdr"}
    OBVIOUS
  <1>5. Good(ready, n)
    <2> HIDE DEF shown, peer
    <2> QED
      BY <1>3, <1>4, OtherSocket
  <1>6. MainMenuSel(t, what) = IF what = "vdr" THEN ready ELSE Send(ready, PageChange(what))
    BY DEF MainMenuSel
  <1> HIDE DEF ready
  <1>7. /\ PageChange(what) \in Requests /\ ~Late(PageChange(what))
        /\ PageChange(what).kind # "login"
    BY PageChangeType
  <1>8. Good(Send(ready, PageChange(what)), n)
    BY <1>1, <1>5, <1>7, SendGood DEF Fits
  <1> QED
    BY <1>5, <1>6, <1>8

LEMMA OnSocketConnectGood ==
    ASSUME NEW n \in 0..MaxFaults, NEW t, Good(t, n), token \in {"none", "given"},
           Others(t) = {} => ~Current(t).held
    PROVE  Good(OnSocketConnect(t), n)
  <1>1. n \in Nat /\ t.page \in AllPages
    BY WebClientAssumption DEF Good, Whole, TabType
  <1>2. Login(t.page, token) \in Requests /\ ~Late(Login(t.page, token))
    BY <1>1, LoginType
  <1>3. Good(Send(t, Login(t.page, token)), n)
    BY <1>1, <1>2, SendGood DEF Fits
  <1> QED
    BY <1>1, <1>3, MainMenuSelGood DEF OnSocketConnect

LEMMA LoadGood ==
    ASSUME NEW n \in Nat, NEW stored \in Stored
    PROVE  Good(Load(stored), n)
  <1> DEFINE t == Load(stored)
             k == Client("daemon", "connecting")
  <1>1. /\ k \in ClientType /\ ClientInv(k) /\ Denied(k) /\ k.ws = "connecting" /\ ~Struck(k)
        /\ Unused \in ClientType /\ ClientInv(Unused) /\ Denied(Unused) /\ Unused.ws = "unused"
    BY NewClient DEF Unused
  <1>2. 1 \in Sockets
    BY WebClientAssumption DEF Sockets
  <1>3. /\ t.clients = [o \in Sockets |-> IF o = 1 THEN k ELSE Unused] /\ t.socket = 1
        /\ t = [clients |-> t.clients, socket |-> 1, page |-> "dashboard", start |-> stored,
                stored |-> stored]
    BY DEF Load
  <1> HIDE DEF t, k
  <1>4. /\ t.clients \in [Sockets -> ClientType]
        /\ \A o \in Sockets : (t.clients[o] = k /\ o = 1) \/ t.clients[o] = Unused
    BY <1>1, <1>3
  <1>5. t \in TabType
    BY <1>2, <1>3, <1>4 DEF TabType, AllPages
  <1>6. Whole(t) /\ Sober(t)
    BY <1>1, <1>4, <1>5 DEF Whole, Sober
  <1>7. Marked(t) = {} /\ Others(t) = {}
    BY <1>1, <1>3, <1>4 DEF Marked, Others, Used
  <1>8. Mute(t)
    BY <1>7 DEF Mute
  <1> QED
    BY <1>6, <1>7, <1>8, FS_EmptySet DEF Good, t

-----------------------------------------------------------------------------
(* The connection of a client changes. *)
LEMMA ConnChange ==
    ASSUME NEW n \in Nat, NEW t, Good(t, n), NEW o \in Sockets, t.clients[o].ws = "open",
           NEW k \in ConnType,
           Others(t) = {} => LateDenied(k.up, k.sess),
           Silent(t.clients[o]) => NoLogin(k.up) /\ k.sess # "ok",
           NEW u, Changed(u, t, o, [t.clients[o] EXCEPT !.conn = k])
    PROVE  Good(u, n) /\ u \in TabType /\ u.start = t.start
  <1> DEFINE c == t.clients[o]
             d == [c EXCEPT !.conn = k]
  <1>1. c \in ClientType /\ ClientInv(c)
    BY DEF Good, Whole, TabType
  <1>2. /\ d \in ClientType /\ d.conn = k
        /\ d.ws = c.ws /\ d.held = c.held /\ d.queue = c.queue /\ d.timer = c.timer
    BY <1>1 DEF ClientType, ConnType
  <1>3. Others(t) = {} => Denied(c)
    BY DEF Good, Sober
  <1>4. Changed(u, t, o, d)
    OBVIOUS
  <1> HIDE DEF d
  <1>5. ClientInv(d) /\ (Struck(d) => Struck(c)) /\ (Others(t) = {} => Denied(d))
    BY <1>1, <1>2, <1>3 DEF ClientInv, Struck, Denied
  <1>6. Silent(c) => Silent(d)
    BY <1>2 DEF Silent
  <1>7. d.ws = "unused" <=> t.clients[o].ws = "unused"
    BY <1>2
  <1>8. Good(u, n) /\ u.start = t.start
    BY <1>4, <1>2, <1>5, <1>7, <1>6, GoodChange
  <1> QED
    BY <1>8 DEF Good, Whole

(* What the steps know of the state before. *)
LEMMA Before ==
    ASSUME IInv
    PROVE  /\ faults \in 0..MaxFaults /\ faults \in Nat /\ Good(tab, faults)
           /\ token \in {"none", "given"} /\ KnownCredentials /\ tab \in TabType
  BY WebClientAssumption DEF IInv, KnownCredentials, Good, Whole

(* What the steps of the web sockets and of the daemon have left to show. *)
LEMMA After ==
    ASSUME IInv, UNCHANGED <<credentials, inputs>>, faults' \in 0..MaxFaults, Good(tab', faults')
    PROVE  IInv'
  BY DEF IInv, KnownCredentials, credentials

LEMMA ClientBefore ==
    ASSUME IInv, NEW o \in Sockets
    PROVE  /\ tab.clients[o] \in ClientType /\ ClientInv(tab.clients[o])
           /\ tab.clients[o].conn \in ConnType
           /\ Others(tab) = {} => Denied(tab.clients[o])
  <1>1. tab \in TabType /\ tab.clients[o] \in ClientType
    BY DEF IInv, Good, Whole, TabType
  <1>2. tab.clients[o].conn \in ConnType
    BY <1>1 DEF ClientType, ConnType
  <1> QED
    BY <1>1, <1>2 DEF IInv, Good, Whole, Sober

(* A message more or less on its way to the browser. *)
LEMMA ReceivedGood ==
    ASSUME IInv, NEW o \in Sockets, tab.clients[o].conn.down # <<>>
    PROVE  Good(Received(o), faults) /\ Received(o) \in TabType /\ Received(o).start = tab.start
  <1> DEFINE c == tab.clients[o]
             k == [c.conn EXCEPT !.down = Tail(@)]
             d == [c EXCEPT !.conn = k]
  <1>1. c.conn \in ConnType /\ c.conn.down # <<>> /\ (Others(tab) = {} => Denied(c))
    BY ClientBefore
  <1>2. c.ws = "open"
    BY <1>1, ClientBefore, NoConnectionType DEF ClientInv
  <1>3. Tail(c.conn.down) \in Seq({"ready", "reject", "confirm"})
    BY <1>1, HeadTailProperties DEF ConnType
  <1>4. k \in ConnType /\ k.up = c.conn.up /\ k.sess = c.conn.sess
    BY <1>1, <1>3 DEF ConnType
  <1>5. Changed(Received(o), tab, o, d)
    BY DEF Received, Changed
  <1>6. Others(tab) = {} => LateDenied(k.up, k.sess)
    BY <1>1, <1>4 DEF Denied
  <1>7. Silent(c) => NoLogin(k.up) /\ k.sess # "ok"
    BY <1>4 DEF Silent
  <1> HIDE DEF k
  <1> QED
    BY <1>2, <1>4, <1>5, <1>6, <1>7, Before, ConnChange

-----------------------------------------------------------------------------
(* The steps of the web sockets. *)

(* The queue is sent, before onSocketConnect. *)
Opening(o) ==
    LET c == tab.clients[o]
    IN [tab EXCEPT !.clients[o] =
            Transmit([c EXCEPT !.ws = "open", !.held = FALSE, !.queue = <<>>], c.queue)]

LEMMA OpeningGood ==
    ASSUME IInv, NEW o \in Sockets, WsOpen(o)
    PROVE  LET u == Opening(o)
           IN /\ Good(u, faults) /\ (Others(u) = {} => ~Current(u).held)
              /\ tab' = OnSocketConnect(u) /\ UNCHANGED <<credentials, inputs, faults>>
  <1> DEFINE c == tab.clients[o]
             b == [c EXCEPT !.ws = "open", !.held = FALSE, !.queue = <<>>]
             d == Transmit(b, c.queue)
             u == [tab EXCEPT !.clients[o] = d]
  <1>1. /\ c \in ClientType /\ ClientInv(c) /\ (Others(tab) = {} => Denied(c))
        /\ c.ws = "connecting" /\ c.queue \in Seq(Requests)
    BY ClientBefore DEF WsOpen, ClientType
  <1>2. c.conn = NoConnection /\ ~c.timer
    BY <1>1 DEF ClientInv
  <1>3. <<>> \in Seq(Requests)
    OBVIOUS
  <1>4. /\ b \in ClientType /\ b.ws = "open" /\ ~b.held /\ b.queue = <<>> /\ b.timer = c.timer
        /\ b.conn = c.conn
    <2> DEFINE a == [c EXCEPT !.ws = "open"]
               e == [a EXCEPT !.held = FALSE]
    <2>1. a \in ClientType /\ a.ws = "open" /\ a.timer = c.timer /\ a.conn = c.conn
      BY <1>1 DEF ClientType
    <2>2. /\ e \in ClientType /\ e.ws = "open" /\ ~e.held /\ e.timer = c.timer /\ e.conn = c.conn
      <3> HIDE DEF a
      <3> QED
        BY <2>1 DEF ClientType
    <2>3. b = [e EXCEPT !.queue = <<>>]
      OBVIOUS
    <2> HIDE DEF a, e, b
    <2> QED
      BY <1>3, <2>2, <2>3 DEF ClientType
  <1> HIDE DEF b
  <1>5. /\ d \in ClientType /\ d.ws = "open" /\ ~d.held /\ d.queue = <<>> /\ ~d.timer
        /\ d.conn.sess = "none" /\ d.conn.up \in {<<>>, <<>> \o c.queue}
    <2>1. /\ d \in ClientType
          /\ d.ws = b.ws /\ d.held = b.held /\ d.queue = b.queue /\ d.timer = b.timer
          /\ d.conn.sess = b.conn.sess
          /\ d.conn.up = b.conn.up \/ d.conn.up = b.conn.up \o c.queue
      BY <1>1, <1>4, TransmitEffect
    <2>2. b.conn.sess = "none" /\ b.conn.up = <<>>
      BY <1>2, <1>4, NoConnectionType
    <2> HIDE DEF d
    <2> QED
      BY <1>2, <1>4, <2>1, <2>2
  <1> HIDE DEF d
  <1>6. ClientInv(d) /\ ~Struck(d)
    BY <1>5 DEF ClientInv, Struck
  <1>7. Others(tab) = {} => Denied(d)
    <2> SUFFICES ASSUME Others(tab) = {} PROVE Denied(d)
      OBVIOUS
    <2>1. NoLogin(c.queue)
      BY <1>1 DEF Denied
    <2>2. LateDenied(<<>> \o c.queue, "none")
      BY <1>1, <2>1, LateQueue
    <2>3. LateDenied(<<>>, "none") /\ NoLogin(<<>>)
      BY DEF LateDenied, NoLogin
    <2> QED
      BY <1>5, <2>2, <2>3 DEF Denied
  <1>8. /\ Changed(u, tab, o, d) /\ tab' = OnSocketConnect(u)
        /\ UNCHANGED <<credentials, inputs, faults>>
    BY DEF Changed, WsOpen, Opened, d, b
  <1> HIDE DEF u
  <1>9. Silent(c) => Silent(d)
    <2>1. c.queue \in Seq(Requests) => <<>> \o c.queue = c.queue
      BY ConcatEmptySeq
    <2> QED
      BY <1>1, <1>5, <2>1 DEF Silent, NoLogin
  <1>10. /\ Good(u, faults) /\ Others(u) = Others(tab) /\ u.clients[o] = d /\ u.socket = tab.socket
    BY <1>1, <1>5, <1>6, <1>7, <1>8, <1>9, Before, GoodChange
  <1>11. Others(u) = {} => ~Current(u).held
    BY <1>1, <1>5, <1>10 DEF Others, Used, Current
  <1>12. u = Opening(o)
    BY DEF u, d, b, Opening
  <1> QED
    BY <1>8, <1>10, <1>11, <1>12

LEMMA WsOpenStep == ASSUME IInv, NEW o \in Sockets, WsOpen(o) PROVE IInv'
  <1>1. /\ Good(Opening(o), faults) /\ (Others(Opening(o)) = {} => ~Current(Opening(o)).held)
        /\ tab' = OnSocketConnect(Opening(o)) /\ UNCHANGED <<credentials, inputs, faults>>
    BY OpeningGood
  <1>2. Good(tab', faults)
    BY <1>1, Before, OnSocketConnectGood
  <1> QED
    BY <1>1, <1>2, Before, After

LEMMA OnCloseEffect ==
    ASSUME NEW c \in ClientType, c.conn = NoConnection
    PROVE  /\ OnClose(c) \in ClientType /\ OnClose(c).ws = "closed" /\ Struck(OnClose(c))
           /\ ClientInv(OnClose(c)) /\ Denied(OnClose(c)) /\ Silent(OnClose(c))
  <1> DEFINE a == [c EXCEPT !.ws = "closed", !.held = TRUE]
             b == [a EXCEPT !.queue = <<>>]
             d == [b EXCEPT !.timer = TRUE]
  <1>1. /\ a \in ClientType /\ a.ws = "closed" /\ a.held /\ a.conn = c.conn
    <2> DEFINE e == [c EXCEPT !.ws = "closed"]
    <2>1. e \in ClientType /\ e.ws = "closed" /\ e.conn = c.conn
      BY DEF ClientType
    <2>2. a = [e EXCEPT !.held = TRUE]
      OBVIOUS
    <2> HIDE DEF e, a
    <2> QED
      BY <2>1, <2>2 DEF ClientType
  <1>2. /\ b \in ClientType /\ b.ws = "closed" /\ b.held /\ b.conn = c.conn /\ b.queue = <<>>
    <2>1. <<>> \in Seq(Requests)
      OBVIOUS
    <2> HIDE DEF a
    <2> QED
      BY <1>1, <2>1 DEF ClientType
  <1>3. /\ d \in ClientType /\ d.ws = "closed" /\ d.held /\ d.conn = c.conn /\ d.queue = <<>>
        /\ d.timer
    <2> HIDE DEF b
    <2> QED
      BY <1>2 DEF ClientType
  <1>4. OnClose(c) = d
    BY DEF OnClose
  <1> HIDE DEF d
  <1>5. ClientInv(d) /\ Struck(d)
    BY <1>3 DEF ClientInv, Struck
  <1>6. Denied(d) /\ Silent(d)
    BY <1>3, NoConnectionType DEF Denied, Silent, NoLogin, LateDenied
  <1> QED
    BY <1>3, <1>4, <1>5, <1>6

LEMMA FaultTypes == IInv /\ faults < MaxFaults => faults + 1 \in 0..MaxFaults
  BY WebClientAssumption DEF IInv

LEMMA WsFailsStep == ASSUME IInv, NEW o \in Sockets, WsFails(o) PROVE IInv'
  <1> DEFINE c == tab.clients[o]
             d == OnClose(c)
  <1>1. c \in ClientType /\ ClientInv(c) /\ c.ws = "connecting"
    BY ClientBefore DEF WsFails
  <1>2. c.conn = NoConnection
    BY <1>1 DEF ClientInv
  <1>3. d \in ClientType /\ d.ws = "closed" /\ ClientInv(d) /\ Denied(d) /\ Silent(d)
    BY <1>1, <1>2, OnCloseEffect
  <1>4. Changed(tab', tab, o, d) /\ faults' = faults + 1 /\ UNCHANGED <<credentials, inputs>>
    BY DEF WsFails, Changed
  <1> HIDE DEF d
  <1>5. Good(tab', faults + 1)
    BY <1>1, <1>3, <1>4, Before, GoodStruck
  <1>6. faults' \in 0..MaxFaults
    BY <1>4, FaultTypes DEF WsFails
  <1> QED
    BY <1>4, <1>5, <1>6, Before, After

LEMMA DropStep == ASSUME IInv, NEW o \in Sockets, Drop(o) PROVE IInv'
  <1> DEFINE c == tab.clients[o]
             a == [c EXCEPT !.ws = "broken"]
             d == [a EXCEPT !.conn = NoConnection]
  <1>1. /\ c \in ClientType /\ ClientInv(c) /\ c.ws = "open"
        /\ (Others(tab) = {} => Denied(c))
    BY ClientBefore DEF Drop
  <1>2. /\ a \in ClientType /\ a.ws = "broken" /\ a.held = c.held /\ a.timer = c.timer
        /\ a.queue = c.queue
    BY <1>1 DEF ClientType
  <1>3. /\ d \in ClientType /\ d.ws = "broken" /\ d.held = c.held /\ d.timer = c.timer
        /\ d.queue = c.queue /\ d.conn = NoConnection
    <2> HIDE DEF a
    <2> QED
      BY <1>2, NoConnectionType DEF ClientType, ConnType
  <1>4. Changed(tab', tab, o, d) /\ faults' = faults + 1 /\ UNCHANGED <<credentials, inputs>>
    BY DEF Drop, Changed
  <1> HIDE DEF d
  <1>5. ClientInv(d) /\ (Others(tab) = {} => Denied(d))
    BY <1>1, <1>3, NoConnectionType DEF ClientInv, Denied, LateDenied
  <1>6. Silent(c) => Silent(d)
    BY <1>3, NoConnectionType DEF Silent, NoLogin
  <1>7. Good(tab', faults + 1)
    BY <1>1, <1>3, <1>4, <1>5, <1>6, Before, GoodStruck
  <1>8. faults' \in 0..MaxFaults
    BY <1>4, FaultTypes DEF Drop
  <1> QED
    BY <1>4, <1>7, <1>8, Before, After

LEMMA WsCloseStep == ASSUME IInv, NEW o \in Sockets, WsClose(o) PROVE IInv'
  <1> DEFINE c == tab.clients[o]
             d == OnClose(c)
  <1>1. c \in ClientType /\ ClientInv(c) /\ c.ws = "broken" /\ Struck(c)
    BY ClientBefore DEF WsClose, Struck
  <1>2. c.conn = NoConnection
    BY <1>1 DEF ClientInv
  <1>3. d \in ClientType /\ d.ws = "closed" /\ ClientInv(d) /\ Denied(d) /\ Silent(d)
    BY <1>1, <1>2, OnCloseEffect
  <1>4. Changed(tab', tab, o, d) /\ UNCHANGED <<credentials, inputs, faults>>
    BY DEF WsClose, Changed
  <1> HIDE DEF d
  <1>5. Good(tab', faults)
    BY <1>1, <1>3, <1>4, Before, GoodChange
  <1> QED
    BY <1>4, <1>5, Before, After

LEMMA ReconnectStep == ASSUME IInv, NEW o \in Sockets, Reconnect(o) PROVE IInv'
  <1> DEFINE c == tab.clients[o]
             a == [c EXCEPT !.timer = FALSE]
             d == [a EXCEPT !.ws = "connecting"]
  <1>1. /\ c \in ClientType /\ ClientInv(c) /\ c.timer
        /\ (Others(tab) = {} => Denied(c))
    BY ClientBefore DEF Reconnect
  <1>2. c.ws = "closed" /\ c.held /\ c.conn = NoConnection
    BY <1>1 DEF ClientInv
  <1>3. /\ a \in ClientType /\ ~a.timer /\ a.held = c.held /\ a.conn = c.conn /\ a.queue = c.queue
    BY <1>1 DEF ClientType
  <1>4. /\ d \in ClientType /\ d.ws = "connecting" /\ ~d.timer /\ d.held = c.held
        /\ d.conn = c.conn /\ d.queue = c.queue
    <2> HIDE DEF a
    <2> QED
      BY <1>3 DEF ClientType
  <1>5. Changed(tab', tab, o, d) /\ UNCHANGED <<credentials, inputs, faults>>
    BY DEF Reconnect, Changed
  <1> HIDE DEF d
  <1>6. /\ ClientInv(d) /\ ~Struck(d) /\ (Others(tab) = {} => Denied(d))
        /\ (Silent(c) => Silent(d))
    BY <1>1, <1>2, <1>4 DEF ClientInv, Struck, Denied, Silent
  <1>7. Good(tab', faults)
    BY <1>2, <1>4, <1>5, <1>6, Before, GoodChange
  <1> QED
    BY <1>5, <1>7, Before, After

-----------------------------------------------------------------------------
(* The steps of dispatchMessage. *)

LEMMA ReadyStep == ASSUME IInv, NEW o \in Sockets, GetReady(o) PROVE IInv'
  <1>1. tab.clients[o].conn.down # <<>> /\ UNCHANGED <<credentials, inputs, faults>>
    BY DEF GetReady, Gets
  <1> DEFINE r == Received(o)
             u == MainMenuSel(r, tab.start)
             v == [u EXCEPT !.start = "none"]
  <1>2. Good(r, faults) /\ tab.start \in Stored
    BY <1>1, Before, ReceivedGood DEF TabType
  <1>3. CASE tab.start = "none"
    <2>1. tab' = r
      BY <1>3 DEF GetReady
    <2> HIDE DEF r
    <2> QED
      BY <1>1, <1>2, <2>1, Before, After
  <1>4. CASE tab.start # "none"
    <2>1. tab.start \in AllPages
      BY <1>2, <1>4 DEF Stored
    <2>2. tab' = v
      BY <1>4 DEF GetReady
    <2> HIDE DEF r
    <2>3. Good(u, faults)
      BY <1>2, <2>1, Before, MainMenuSelGood
    <2> HIDE DEF u
    <2>4. u \in TabType /\ v \in TabType /\ v.clients = u.clients /\ v.socket = u.socket
      BY <2>3 DEF Good, Whole, TabType, Stored
    <2> HIDE DEF v
    <2>5. Good(v, faults)
      BY <2>3, <2>4, Before, SameClients
    <2> QED
      BY <1>1, <2>2, <2>5, Before, After
  <1> QED
    BY <1>3, <1>4

LEMMA RejectStep == ASSUME IInv, NEW o \in Sockets, GetReject(o) PROVE IInv'
  <1>1. tab.clients[o].conn.down # <<>> /\ KnownCredentials' /\ UNCHANGED <<inputs, faults>>
    BY Before DEF GetReject, Gets, KnownCredentials
  <1> DEFINE r == Received(o)
             v == [r EXCEPT !.page = "login"]
  <1>2. Good(r, faults) /\ r \in TabType
    BY <1>1, ReceivedGood
  <1>3. tab' = v
    BY DEF GetReject
  <1> HIDE DEF r
  <1>4. v \in TabType /\ v.clients = r.clients /\ v.socket = r.socket
    BY <1>2 DEF TabType, AllPages
  <1> HIDE DEF v
  <1>5. Good(v, faults)
    BY <1>2, <1>4, Before, SameClients
  <1> QED
    BY <1>1, <1>3, <1>5 DEF IInv

LEMMA ConfirmStep == ASSUME IInv, NEW o \in Sockets, GetConfirm(o) PROVE IInv'
  <1>1. tab' = Load("dashboard") /\ KnownCredentials' /\ UNCHANGED <<inputs, faults>>
    BY DEF GetConfirm, Gets, KnownCredentials
  <1>2. "dashboard" \in Stored
    BY DEF Stored, AllPages
  <1>3. Good(tab', faults)
    BY <1>1, <1>2, Before, LoadGood
  <1> QED
    BY <1>1, <1>3 DEF IInv

LEMMA VdrPageStep == ASSUME IInv, NEW o \in Sockets, GetOnVdrPage(o) PROVE IInv'
  <1>1. /\ tab.clients[o].conn.down # <<>> /\ tab' = Received(o)
        /\ UNCHANGED <<credentials, inputs, faults>>
    BY DEF GetOnVdrPage, Gets
  <1>2. Good(tab', faults)
    BY <1>1, ReceivedGood
  <1> QED
    BY <1>1, <1>2, Before, After

-----------------------------------------------------------------------------
(* The steps of the daemon: each takes the first request. *)

LEMMA HandledEffect ==
    ASSUME IInv, NEW o \in Sockets, tab.clients[o].conn.up # <<>>
    PROVE  LET c == tab.clients[o]
               k == Handled(c.conn)
           IN /\ c.ws = "open" /\ c.conn \in ConnType /\ k \in ConnType
              /\ Head(c.conn.up) \in Requests
              /\ k.up = Tail(c.conn.up) /\ k.sess = c.conn.sess
              /\ k.down = c.conn.down /\ k.sessPage = c.conn.sessPage
              /\ Others(tab) = {} => LateDenied(k.up, k.sess)
              /\ Others(tab) = {} /\ Head(c.conn.up).kind = "login" =>
                     \A other : LateDenied(k.up, other)
              /\ Silent(c) => NoLogin(k.up) /\ k.sess # "ok" /\ Head(c.conn.up).kind # "login"
  <1> DEFINE c == tab.clients[o]
             k == Handled(c.conn)
  <1>1. ClientInv(c) /\ c.conn \in ConnType /\ (Others(tab) = {} => Denied(c))
    BY ClientBefore
  <1>2. c.conn # NoConnection /\ c.conn.up # <<>>
    BY NoConnectionType
  <1>3. c.ws = "open"
    BY <1>1, <1>2 DEF ClientInv
  <1>4. c.conn.up \in Seq(Requests)
    BY <1>1 DEF ConnType
  <1>5. Tail(c.conn.up) \in Seq(Requests) /\ Head(c.conn.up) \in Requests
    BY <1>2, <1>4, HeadTailProperties
  <1>6. /\ k \in ConnType /\ k.up = Tail(c.conn.up) /\ k.sess = c.conn.sess
        /\ k.down = c.conn.down /\ k.sessPage = c.conn.sessPage
    BY <1>1, <1>5 DEF ConnType, Handled
  <1>7. Others(tab) = {} => LateDenied(c.conn.up, c.conn.sess)
    BY <1>1 DEF Denied
  <1> HIDE DEF k
  <1>8. /\ Others(tab) = {} => LateDenied(k.up, k.sess)
        /\ Others(tab) = {} /\ Head(c.conn.up).kind = "login" =>
               \A other : LateDenied(k.up, other)
    BY <1>2, <1>4, <1>6, <1>7, LateTail
  <1>9. Silent(c) => NoLogin(k.up) /\ k.sess # "ok" /\ Head(c.conn.up).kind # "login"
    <2>1. NoLogin(c.conn.up) => NoLogin(k.up) /\ Head(c.conn.up).kind # "login"
      BY <1>2, <1>4, <1>6, LoginTail
    <2> QED
      BY <1>6, <2>1 DEF Silent
  <1> QED
    BY <1>1, <1>3, <1>5, <1>6, <1>8, <1>9 DEF k

(* The connection becomes k. *)
LEMMA HandledStep ==
    ASSUME IInv, NEW o \in Sockets, tab.clients[o].ws = "open", NEW k \in ConnType,
           Others(tab) = {} => LateDenied(k.up, k.sess),
           Silent(tab.clients[o]) => NoLogin(k.up) /\ k.sess # "ok",
           tab' = [tab EXCEPT !.clients[o].conn = k], UNCHANGED <<credentials, inputs, faults>>
    PROVE  IInv'
  <1> DEFINE d == [tab.clients[o] EXCEPT !.conn = k]
  <1>1. Changed(tab', tab, o, d)
    BY DEF Changed
  <1>2. Good(tab', faults)
    BY <1>1, Before, ConnChange
  <1> QED
    BY <1>2, Before, After

LEMMA ControlStep == ASSUME IInv, NEW o \in Sockets, HandleControl(o) PROVE IInv'
  <1> DEFINE c == tab.clients[o]
             k == Handled(c.conn)
  <1>1. c.conn.up # <<>> /\ UNCHANGED <<credentials, inputs, faults>>
    BY DEF HandleControl, Handles
  <1>2. c.ws = "open" /\ k \in ConnType /\ (Others(tab) = {} => LateDenied(k.up, k.sess))
        /\ (Silent(c) => NoLogin(k.up) /\ k.sess # "ok")
    BY <1>1, HandledEffect
  <1>3. tab' = [tab EXCEPT !.clients[o].conn = k]
    BY DEF HandleControl
  <1> HIDE DEF k
  <1> QED
    BY <1>1, <1>2, <1>3, HandledStep

LEMMA PageChangeStep == ASSUME IInv, NEW o \in Sockets, HandlePageChange(o) PROVE IInv'
  <1> DEFINE c == tab.clients[o]
             h == Handled(c.conn)
             page == IF c.conn.sess = "ok" THEN Head(c.conn.up).page ELSE h.sessPage
             k == [h EXCEPT !.sessPage = page]
  <1>1. /\ c.conn.up # <<>> /\ Head(c.conn.up).kind = "pagechange"
        /\ UNCHANGED <<credentials, inputs, faults>>
    BY DEF HandlePageChange, Handles
  <1>2. /\ c.ws = "open" /\ h \in ConnType /\ Head(c.conn.up) \in Requests
        /\ (Others(tab) = {} => LateDenied(h.up, h.sess))
        /\ (Silent(c) => NoLogin(h.up) /\ h.sess # "ok")
    BY <1>1, HandledEffect
  <1>3. tab' = [tab EXCEPT !.clients[o].conn = k]
    BY DEF HandlePageChange
  <1> HIDE DEF h
  <1>4. Head(c.conn.up).page \in AllPages
    BY <1>1, <1>2 DEF Requests
  <1>5. page \in AllPages \union {"none"}
    BY <1>2, <1>4 DEF ConnType
  <1> HIDE DEF page
  <1>6. k \in ConnType /\ k.up = h.up /\ k.sess = h.sess
    BY <1>2, <1>5 DEF ConnType
  <1> HIDE DEF k
  <1> QED
    BY <1>1, <1>2, <1>3, <1>6, HandledStep

LEMMA GetTokenStep == ASSUME IInv, NEW o \in Sockets, HandleGetToken(o) PROVE IInv'
  <1> DEFINE c == tab.clients[o]
             h == Handled(c.conn)
             event == IF Head(c.conn.up).right THEN "confirm" ELSE "reject"
             k == [h EXCEPT !.down = Append(@, event)]
  <1>1. c.conn.up # <<>> /\ UNCHANGED <<credentials, inputs, faults>>
    BY DEF HandleGetToken, Handles
  <1>2. /\ c.ws = "open" /\ h \in ConnType /\ (Others(tab) = {} => LateDenied(h.up, h.sess))
        /\ (Silent(c) => NoLogin(h.up) /\ h.sess # "ok")
    BY <1>1, HandledEffect
  <1>3. tab' = [tab EXCEPT !.clients[o].conn = k]
    BY DEF HandleGetToken
  <1> HIDE DEF h
  <1>4. event \in {"ready", "reject", "confirm"}
    OBVIOUS
  <1> HIDE DEF event
  <1>5. Append(h.down, event) \in Seq({"ready", "reject", "confirm"})
    BY <1>2, <1>4 DEF ConnType
  <1>6. k \in ConnType /\ k.up = h.up /\ k.sess = h.sess
    BY <1>2, <1>5 DEF ConnType
  <1> HIDE DEF k
  <1> QED
    BY <1>1, <1>2, <1>3, <1>6, HandledStep

LEMMA LoginStep == ASSUME IInv, NEW o \in Sockets, HandleLogin(o) PROVE IInv'
  <1> DEFINE c == tab.clients[o]
             h == Handled(c.conn)
             m == Head(c.conn.up)
             accepted == m.token = "given" /\ ~revoked
             sess == IF accepted THEN "ok" ELSE "rejected"
             events == IF accepted THEN <<"ready">> ELSE <<"reject", "ready">>
             a == [h EXCEPT !.sess = sess]
             b == [a EXCEPT !.sessPage = m.page]
             k == [b EXCEPT !.down = @ \o events]
  <1>1. c.conn.up # <<>> /\ m.kind = "login" /\ UNCHANGED <<credentials, inputs, faults>>
    BY DEF HandleLogin, Handles
  <1>2. /\ c.ws = "open" /\ h \in ConnType /\ m \in Requests
        /\ (Others(tab) = {} => \A other : LateDenied(h.up, other)) /\ ~Silent(c)
    BY <1>1, HandledEffect
  <1>3. tab' = [tab EXCEPT !.clients[o].conn = k]
    BY DEF HandleLogin
  <1> HIDE DEF h
  <1>4. m.page \in AllPages
    BY <1>1, <1>2 DEF Requests
  <1>5. sess \in {"none", "ok", "rejected"} /\ events \in Seq({"ready", "reject", "confirm"})
    <2>1. /\ <<"ready">> \in Seq({"ready", "reject", "confirm"})
          /\ <<"reject", "ready">> \in Seq({"ready", "reject", "confirm"})
      OBVIOUS
    <2> HIDE DEF accepted
    <2> QED
      BY <2>1
  <1> HIDE DEF accepted, sess, events, m
  <1>6. a \in ConnType /\ a.up = h.up
    BY <1>2, <1>5 DEF ConnType
  <1> HIDE DEF a
  <1>7. b \in ConnType /\ b.up = h.up
    BY <1>4, <1>6 DEF ConnType
  <1> HIDE DEF b
  <1>8. b.down \o events \in Seq({"ready", "reject", "confirm"})
    BY <1>5, <1>7 DEF ConnType
  <1>9. k \in ConnType /\ k.up = h.up
    BY <1>7, <1>8 DEF ConnType
  <1> HIDE DEF k
  <1>10. Others(tab) = {} => LateDenied(k.up, k.sess)
    BY <1>2, <1>9
  <1> QED
    BY <1>1, <1>2, <1>3, <1>9, <1>10, HandledStep

-----------------------------------------------------------------------------
(* The steps of the user. *)

LEMMA InputTypes == IInv /\ Input => inputs' \in 0..MaxInputs /\ UNCHANGED faults
  BY WebClientAssumption DEF IInv, Input

LEMMA UserStep == ASSUME IInv, User PROVE IInv'
  <1>1. Input /\ inputs' \in 0..MaxInputs /\ UNCHANGED faults
    BY InputTypes DEF User, SelectPage, Switch, DoLogin, DoLogout, Reload, ResetToken
  <1>2. ASSUME NEW page \in AllPages, SelectPage(page)
        PROVE  Good(tab', faults) /\ KnownCredentials'
    BY <1>2, Before, MainMenuSelGood DEF SelectPage, KnownCredentials, credentials
  <1>3. ASSUME Switch
        PROVE  Good(tab', faults) /\ KnownCredentials'
    <2> DEFINE m == Control(Current(tab).held)
    <2>1. Current(tab).held \in BOOLEAN
      BY Before DEF Current, TabType, ClientType
    <2>2. m \in Requests /\ m.kind # "login" /\ (Late(m) <=> Current(tab).held)
      BY <2>1, SwitchTypes
    <2>3. tab' = Send(tab, m) /\ KnownCredentials'
      BY <1>3, Before DEF Switch, KnownCredentials, credentials
    <2> HIDE DEF m
    <2>4. Good(tab', faults)
      BY <2>2, <2>3, Before, SendGood DEF Fits
    <2> QED
      BY <2>3, <2>4, Before
  <1>4. ASSUME NEW right \in BOOLEAN, DoLogin(right)
        PROVE  Good(tab', faults) /\ KnownCredentials'
    <2> DEFINE m == GetToken(right)
    <2>1. m \in Requests /\ m.kind # "login" /\ ~Late(m)
      BY SwitchTypes
    <2>2. tab' = Send(tab, m) /\ KnownCredentials'
      BY <1>4, Before DEF DoLogin, KnownCredentials, credentials
    <2> HIDE DEF m
    <2>3. Good(tab', faults)
      BY <2>1, <2>2, Before, SendGood DEF Fits
    <2> QED
      BY <2>2, <2>3, Before
  <1>5. ASSUME DoLogout
        PROVE  Good(tab', faults) /\ KnownCredentials'
    <2>1. "login" \in AllPages
      BY DEF AllPages
    <2>2. tab' = MainMenuSel(tab, "login") /\ KnownCredentials'
      BY <1>5, Before DEF DoLogout, KnownCredentials
    <2> QED
      BY <2>1, <2>2, Before, MainMenuSelGood
  <1>6. ASSUME Reload
        PROVE  Good(tab', faults) /\ KnownCredentials'
    <2>1. tab' = Load(tab.stored) /\ KnownCredentials'
      BY <1>6, Before DEF Reload, KnownCredentials, credentials
    <2>2. tab.stored \in Stored
      BY Before DEF TabType
    <2> QED
      BY <2>1, <2>2, Before, LoadGood
  <1>7. ASSUME ResetToken
        PROVE  Good(tab', faults) /\ KnownCredentials'
    BY <1>7, Before DEF ResetToken, KnownCredentials
  <1>8. Good(tab', faults) /\ KnownCredentials'
    BY <1>2, <1>3, <1>4, <1>5, <1>6, <1>7 DEF User
  <1> QED
    BY <1>1, <1>8 DEF IInv

-----------------------------------------------------------------------------
(* The theorems. *)

LEMMA InitInv == Init => IInv
  <1> SUFFICES ASSUME Init PROVE IInv
    OBVIOUS
  <1>1. PICK stored \in (AllPages \ {"login"}) \union {"none"} : tab = Load(stored)
    BY DEF Init
  <1>2. stored \in Stored /\ 0 \in Nat
    BY DEF Stored
  <1>3. Good(tab, 0)
    BY <1>1, <1>2, LoadGood
  <1>4. KnownCredentials /\ inputs = 0 /\ faults = 0
    BY DEF Init, KnownCredentials
  <1> QED
    BY <1>3, <1>4, WebClientAssumption DEF IInv

LEMMA NextStep == ASSUME IInv, [Next]_vars PROVE IInv'
  <1>1. ASSUME NEW o \in Sockets, Runs(o) PROVE IInv'
    BY <1>1, WsOpenStep, WsCloseStep, ReconnectStep, ReadyStep, RejectStep, ConfirmStep,
       VdrPageStep, LoginStep, PageChangeStep, ControlStep, GetTokenStep DEF Runs
  <1>2. ASSUME NEW o \in Sockets, WsFails(o) \/ Drop(o) PROVE IInv'
    BY <1>2, WsFailsStep, DropStep
  <1>3. CASE UNCHANGED vars
    BY <1>3 DEF vars, IInv, KnownCredentials
  <1> QED
    BY <1>1, <1>2, <1>3, UserStep DEF Next

LEMMA Inductive == Spec => []IInv
  BY InitInv, NextStep, PTL DEF Spec

(* The variables keep their types; a socket that is not in use is found    *)
(* whenever the page changes between the daemon and the vdr.               *)
THEOREM TypeCorrect == Spec => []TypeOK
  <1>1. IInv => TypeOK
    BY DEF IInv, KnownCredentials, Good, Whole, TabType, Stored, TypeOK
  <1> QED
    BY <1>1, Inductive, PTL

(* Whatever is lost, closed and opened again, send is never called on a    *)
(* web socket that is connecting, and an open one has nothing queued.      *)
THEOREM QueuedFirst == Spec => []QueuedUntilOpen
  <1>1. IInv => QueuedUntilOpen
    BY DEF IInv, Good, Whole, ClientInv, QueuedUntilOpen
  <1> QED
    BY <1>1, Inductive, PTL

(* The first client that is given up while it waits to reconnect never     *)
(* logs in, however often it connects again: a page has one session.       *)
THEOREM LoggedInOnce == Spec => []OneSessionPerPage
  <1>1. IInv => OneSessionPerPage
    <2> SUFFICES ASSUME IInv, Cardinality(GivenUp) <= 1, NEW o \in Sockets,
                        tab.clients[o].conn.sess = "ok", o # tab.socket
                 PROVE  FALSE
      BY DEF OneSessionPerPage
    <2> DEFINE c == tab.clients[o]
    <2>1. Others(tab) = GivenUp
      BY DEF GivenUp, Others, Used
    <2>2. c.ws = "open"
      BY ClientBefore, NoConnectionType DEF ClientInv
    <2>3. o \in Others(tab)
      BY <2>2 DEF Others, Used
    <2> QED
      BY <2>1, <2>3 DEF IInv, Good, Mute, Silent
  <1> QED
    BY <1>1, Inductive, PTL

(* What was switched offline is denied by the daemon when the page is      *)
(* online again, for any number of requests and faults, as long as no      *)
(* client was given up while it waited to reconnect.                       *)
THEOREM SwitchedInTime == Spec => []NoLateSwitching
  <1>1. IInv => NoLateSwitching
    <2> SUFFICES ASSUME IInv, GivenUp = {}, NEW o \in Sockets, tab.clients[o].conn.up # <<>>,
                        Late(Head(tab.clients[o].conn.up))
                 PROVE  tab.clients[o].conn.sess # "ok"
      BY DEF NoLateSwitching, Late
    <2> DEFINE conn == tab.clients[o].conn
    <2>1. Others(tab) = {}
      BY DEF GivenUp, Others, Used
    <2>2. conn \in ConnType /\ LateDenied(conn.up, conn.sess)
      BY <2>1, ClientBefore DEF Denied
    <2>3. conn.up \in Seq(Requests) /\ conn.up # <<>> /\ Late(Head(conn.up))
      BY <2>2 DEF ConnType
    <2> HIDE DEF conn
    <2>4. 1 \in 1..Len(conn.up) /\ Head(conn.up) = conn.up[1]
      BY <2>3, HeadTailProperties, LenProperties, EmptySeq
    <2>5. conn.sess # "ok"
      BY <2>2, <2>3, <2>4 DEF LateDenied
    <2> QED
      BY <2>5 DEF conn
  <1> QED
    BY <1>1, Inductive, PTL

-----------------------------------------------------------------------------
(* The page a connection will be taken to show when its requests are       *)
(* handled: that of the last one that tells it, or what the daemon has.    *)

Tells(m) == m.kind \in {"login", "pagechange"}
Told(up, known, page) ==
    \/ \E i \in 1..Len(up) : /\ Tells(up[i]) /\ up[i].page = page
                             /\ \A j \in (i + 1)..Len(up) : ~Tells(up[j])
    \/ known = page /\ \A i \in 1..Len(up) : ~Tells(up[i])

(* Without a login now and to come, what is told is denied. *)
KnownTo(conn, page) ==
    Told(conn.up, conn.sessPage, page) \/ (NoLogin(conn.up) /\ conn.sess # "ok")

(* The page vdr has a socket of its own, which never gets a session. *)
Peer(t) ==
    /\ t.page = "vdr" <=> Current(t).peer = "vdr"
    /\ Current(t).peer = "vdr" => Current(t).conn = NoConnection
Shown(t) ==
    /\ Peer(t)
    /\ Current(t).peer = "daemon" /\ Current(t).ws = "open" /\ t.page # "login" =>
           KnownTo(Current(t).conn, t.page)

-----------------------------------------------------------------------------
(* Requests more and less. *)

LEMMA ToldMore ==
    ASSUME NEW up \in Seq(Requests), NEW m \in Requests, NEW known
    PROVE  /\ Tells(m) => Told(up \o <<m>>, known, m.page)
           /\ \A page : ~Tells(m) /\ Told(up, known, page) => Told(up \o <<m>>, known, page)
           /\ m.kind # "login" /\ NoLogin(up) => NoLogin(up \o <<m>>)
  <1> DEFINE more == up \o <<m>>
  <1>1. /\ Len(more) = Len(up) + 1 /\ Len(up) \in Nat
        /\ \A i \in 1..Len(up) : more[i] = up[i]
        /\ more[Len(up) + 1] = m
    OBVIOUS
  <1> HIDE DEF more
  <1>2. \A i \in 1..Len(more) : i \in 1..Len(up) \/ (i = Len(up) + 1 /\ more[i] = m)
    BY <1>1
  <1>3. ASSUME Tells(m) PROVE Told(more, known, m.page)
    <2>1. /\ Len(more) \in 1..Len(more) /\ more[Len(more)] = m
          /\ \A j \in (Len(more) + 1)..Len(more) : ~Tells(more[j])
      BY <1>1
    <2> QED
      BY <1>3, <2>1 DEF Told
  <1>4. ASSUME NEW page, ~Tells(m), Told(up, known, page) PROVE Told(more, known, page)
    <2>1. CASE known = page /\ \A i \in 1..Len(up) : ~Tells(up[i])
      BY <1>1, <1>2, <1>4, <2>1 DEF Told
    <2>2. ASSUME NEW i \in 1..Len(up), Tells(up[i]), up[i].page = page,
                 \A j \in (i + 1)..Len(up) : ~Tells(up[j])
          PROVE  Told(more, known, page)
      <3>1. i \in 1..Len(more) /\ Tells(more[i]) /\ more[i].page = page
        BY <1>1, <2>2
      <3>2. \A j \in (i + 1)..Len(more) :
                (j \in (i + 1)..Len(up) /\ more[j] = up[j]) \/ more[j] = m
        BY <1>1, <1>2
      <3>3. \A j \in (i + 1)..Len(more) : ~Tells(more[j])
        BY <1>4, <2>2, <3>2
      <3> QED
        BY <3>1, <3>3 DEF Told
    <2> QED
      BY <1>4, <2>1, <2>2 DEF Told
  <1>5. ASSUME m.kind # "login", NoLogin(up) PROVE NoLogin(more)
    BY <1>1, <1>2, <1>5 DEF NoLogin
  <1> QED
    BY <1>3, <1>4, <1>5 DEF more

(* The request handled tells nothing, or it changes what the daemon has. *)
LEMMA ToldLess ==
    ASSUME NEW up \in Seq(Requests), up # <<>>, NEW known, NEW page, Told(up, known, page)
    PROVE  /\ ~Tells(Head(up)) => Told(Tail(up), known, page)
           /\ Tells(Head(up)) => Told(Tail(up), Head(up).page, page)
           /\ \/ \A other : Told(Tail(up), other, page)
              \/ \A i \in 1..Len(Tail(up)) : ~Tells(Tail(up)[i])
  <1> DEFINE rest == Tail(up)
  <1>1. /\ Len(rest) = Len(up) - 1 /\ Len(up) \in Nat /\ Len(up) > 0 /\ Head(up) = up[1]
        /\ \A i \in 1..Len(rest) : rest[i] = up[i + 1] /\ i + 1 \in 1..Len(up)
    BY HeadTailProperties, LenProperties, EmptySeq
  <1> HIDE DEF rest
  <1>2. CASE known = page /\ \A i \in 1..Len(up) : ~Tells(up[i])
    <2>1. \A i \in 1..Len(rest) : ~Tells(rest[i])
      BY <1>1, <1>2
    <2>2. ~Tells(up[1])
      BY <1>1, <1>2
    <2> QED
      BY <1>1, <1>2, <2>1, <2>2 DEF Told, rest
  <1>3. ASSUME NEW i \in 1..Len(up), Tells(up[i]), up[i].page = page,
               \A j \in (i + 1)..Len(up) : ~Tells(up[j]), i > 1
        PROVE  \A other : Told(rest, other, page)
    <2>1. i - 1 \in 1..Len(rest) /\ rest[i - 1] = up[i]
      BY <1>1, <1>3
    <2>2. \A j \in ((i - 1) + 1)..Len(rest) : j + 1 \in (i + 1)..Len(up) /\ rest[j] = up[j + 1]
      BY <1>1, <1>3
    <2>3. \A j \in ((i - 1) + 1)..Len(rest) : ~Tells(rest[j])
      BY <1>3, <2>2
    <2> QED
      BY <1>3, <2>1, <2>3 DEF Told
  <1>4. ASSUME Tells(up[1]), up[1].page = page, \A j \in 2..Len(up) : ~Tells(up[j])
        PROVE  \A i \in 1..Len(rest) : ~Tells(rest[i])
    <2>1. \A i \in 1..Len(rest) : i + 1 \in 2..Len(up)
      BY <1>1
    <2> QED
      BY <1>1, <1>4, <2>1
  <1>5. CASE \E i \in 1..Len(up) : /\ Tells(up[i]) /\ up[i].page = page
                                   /\ \A j \in (i + 1)..Len(up) : ~Tells(up[j])
    <2> PICK i \in 1..Len(up) : /\ Tells(up[i]) /\ up[i].page = page
                                /\ \A j \in (i + 1)..Len(up) : ~Tells(up[j])
      BY <1>5
    <2>1. CASE i > 1
      BY <1>3, <2>1 DEF rest
    <2>2. CASE ~(i > 1)
      <3>1. i = 1 /\ i + 1 = 2
        BY <1>1, <2>2
      <3>2. /\ Tells(up[1]) /\ up[1].page = page
            /\ \A k \in 1..Len(rest) : ~Tells(rest[k])
        BY <1>4, <3>1
      <3> QED
        BY <1>1, <3>2 DEF Told, rest
    <2> QED
      BY <2>1, <2>2
  <1> QED
    BY <1>2, <1>5 DEF Told

-----------------------------------------------------------------------------
(* send, and the changes of the page. *)

LEMMA SendEffect ==
    ASSUME NEW t \in TabType, Whole(t), NEW m \in Requests
    PROVE  LET u == Send(t, m)
               c == Current(t)
               d == Current(u)
           IN /\ c \in ClientType /\ u.page = t.page /\ u.socket = t.socket
              /\ d.peer = c.peer /\ d.ws = c.ws
              /\ c.peer = "vdr" => d.conn = c.conn
              /\ c.peer = "daemon" /\ c.ws = "open" =>
                     /\ d.conn.up = c.conn.up \o <<m>>
                     /\ d.conn.sess = c.conn.sess /\ d.conn.sessPage = c.conn.sessPage
  <1> DEFINE o == t.socket
             c == t.clients[o]
             q == [c EXCEPT !.queue = Append(@, m)]
             k == [c.conn EXCEPT !.up = @ \o <<m>>]
             s == [c EXCEPT !.conn = k]
             d == IF c.held THEN q ELSE IF c.ws = "open" /\ c.peer = "daemon" THEN s ELSE c
  <1>1. /\ o \in Sockets /\ c \in ClientType /\ ClientInv(c) /\ c = Current(t)
        /\ t.clients \in [Sockets -> ClientType]
    BY DEF Whole, TabType, Current
  <1>2. q.peer = c.peer /\ q.ws = c.ws /\ q.conn = c.conn
    BY <1>1 DEF ClientType
  <1>3. /\ s.peer = c.peer /\ s.ws = c.ws /\ s.conn.up = c.conn.up \o <<m>>
        /\ s.conn.sess = c.conn.sess /\ s.conn.sessPage = c.conn.sessPage
    BY <1>1 DEF ClientType
  <1>4. /\ d.peer = c.peer /\ d.ws = c.ws
        /\ c.peer = "vdr" => d.conn = c.conn
        /\ c.peer = "daemon" /\ c.ws = "open" =>
               /\ d.conn.up = c.conn.up \o <<m>>
               /\ d.conn.sess = c.conn.sess /\ d.conn.sessPage = c.conn.sessPage
    <2> HIDE DEF q, s
    <2> QED
      BY <1>1, <1>2, <1>3 DEF ClientInv
  <1>5. Send(t, m) = [t EXCEPT !.clients[o] = d]
    BY <1>1 DEF Send, Transmit
  <1> HIDE DEF d
  <1>6. LET u == Send(t, m) IN u.page = t.page /\ u.socket = o /\ u.clients[o] = d
    BY <1>1, <1>5 DEF TabType
  <1> QED
    BY <1>1, <1>4, <1>6 DEF Current

LEMMA PeerSend ==
    ASSUME NEW t \in TabType, Whole(t), Peer(t), NEW m \in Requests
    PROVE  /\ Peer(Send(t, m))
           /\ Tells(m) /\ m.page = t.page => Shown(Send(t, m))
           /\ ~Tells(m) /\ Shown(t) => Shown(Send(t, m))
  <1> DEFINE u == Send(t, m)
             c == Current(t)
             d == Current(u)
  <1>1. /\ c \in ClientType /\ u.page = t.page /\ d.peer = c.peer /\ d.ws = c.ws
        /\ c.peer = "vdr" => d.conn = c.conn
        /\ c.peer = "daemon" /\ c.ws = "open" =>
               /\ d.conn.up = c.conn.up \o <<m>>
               /\ d.conn.sess = c.conn.sess /\ d.conn.sessPage = c.conn.sessPage
    BY SendEffect
  <1> HIDE DEF u, d
  <1>2. Peer(u)
    BY <1>1 DEF Peer, d
  <1>3. c.conn.up \in Seq(Requests)
    BY <1>1 DEF ClientType
  <1>4. ASSUME d.peer = "daemon", d.ws = "open", Tells(m), m.page = t.page
        PROVE  KnownTo(d.conn, u.page)
    BY <1>1, <1>3, <1>4, ToldMore DEF KnownTo
  <1>5. ASSUME d.peer = "daemon", d.ws = "open", ~Tells(m), KnownTo(c.conn, t.page)
        PROVE  KnownTo(d.conn, u.page)
    <2>1. m.kind # "login"
      BY <1>5 DEF Tells
    <2> QED
      BY <1>1, <1>3, <1>5, <2>1, ToldMore DEF KnownTo
  <1>6. Tells(m) /\ m.page = t.page => Shown(u)
    BY <1>2, <1>4 DEF Shown, d
  <1>7. ~Tells(m) /\ Shown(t) => Shown(u)
    BY <1>1, <1>2, <1>5 DEF Shown, d
  <1> QED
    BY <1>2, <1>6, <1>7 DEF u

LEMMA PageChangeTells ==
    ASSUME NEW page \in AllPages
    PROVE  LET m == PageChange(page) IN m \in Requests /\ Tells(m) /\ m.page = page
  BY DEF PageChange, Requests, Tells

(* The socket that is opened instead is connecting and has no connection. *)
LEMMA NewPeer ==
    ASSUME NEW n \in 0..MaxFaults, NEW t, Good(t, n), NEW peer \in {"daemon", "vdr"}
    PROVE  LET v == ConnectWebSocket(Close(t), peer)
           IN /\ Good(v, n) /\ v.page = t.page
              /\ Current(v).peer = peer /\ Current(v).ws = "connecting"
              /\ Current(v).conn = NoConnection
  <1> DEFINE u == Close(t)
             f == UnusedIn(u)
             k == Client(peer, "connecting")
             v == [u EXCEPT !.clients[f] = k, !.socket = f]
  <1>1. Good(v, n) /\ v.page = t.page
    BY OtherSocket DEF ConnectWebSocket
  <1>2. t \in TabType
    BY DEF Good, Whole
  <1>3. u.clients \in [Sockets -> ClientType \union {Unused}] /\ DOMAIN u.clients = Sockets
    BY <1>2 DEF TabType, Close
  <1>4. v.socket \in Sockets
    BY <1>1 DEF Good, Whole, TabType
  <1>5. v.socket = f /\ v.clients = [u.clients EXCEPT ![f] = k]
    <2> HIDE DEF f, k
    <2> QED
      BY <1>2 DEF TabType, Close
  <1>6. v.clients[v.socket] = k
    <2> HIDE DEF v, k, f, u
    <2> QED
      BY <1>3, <1>4, <1>5
  <1>7. k.peer = peer /\ k.ws = "connecting" /\ k.conn = NoConnection
    BY DEF Client
  <1>8. ConnectWebSocket(Close(t), peer) = v
    BY DEF ConnectWebSocket
  <1> HIDE DEF v, k
  <1> QED
    BY <1>1, <1>6, <1>7, <1>8 DEF Current

LEMMA MainMenuSelShown ==
    ASSUME NEW n \in 0..MaxFaults, NEW t, Good(t, n), Peer(t), NEW what \in AllPages
    PROVE  Shown(MainMenuSel(t, what))
  <1> DEFINE shown == [t EXCEPT !.page = what, !.stored = IF what = "login" THEN @ ELSE what]
             other == what # t.page /\ "vdr" \in {what, t.page}
             peer  == IF what = "vdr" THEN "vdr" ELSE "daemon"
             ready == IF other THEN ConnectWebSocket(Close(shown), peer) ELSE shown
  <1>1. n \in Nat /\ t \in TabType /\ t.stored \in Stored /\ (what # "login" => what \in Stored)
    BY WebClientAssumption DEF Good, Whole, TabType, Stored
  <1>2. /\ shown \in TabType /\ shown.clients = t.clients /\ shown.socket = t.socket
        /\ shown.page = what
    BY <1>1 DEF TabType
  <1> HIDE DEF shown
  <1>3. Good(shown, n)
    BY <1>1, <1>2, SameClients
  <1>4. Current(t) \in ClientType /\ Current(shown) = Current(t)
    BY <1>1, <1>2 DEF TabType, Current
  <1>5. Good(ready, n) /\ Peer(ready) /\ ready.page = what
    <2>1. CASE other
      <3>1. /\ Good(ready, n) /\ ready.page = what /\ Current(ready).peer = peer
            /\ Current(ready).conn = NoConnection
        <4> HIDE DEF peer
        <4>1. peer \in {"daemon", "vdr"}
          BY DEF peer
        <4> QED
          BY <1>2, <1>3, <2>1, <4>1, NewPeer
      <3> HIDE DEF ready
      <3> QED
        BY <3>1 DEF Peer
    <2>2. CASE ~other
      <3>1. ready = shown /\ (what = "vdr" <=> t.page = "vdr")
        BY <2>2
      <3> HIDE DEF ready
      <3> QED
        BY <1>2, <1>3, <1>4, <3>1 DEF Peer
    <2> QED
      BY <2>1, <2>2
  <1>6. MainMenuSel(t, what) = IF what = "vdr" THEN ready ELSE Send(ready, PageChange(what))
    BY DEF MainMenuSel, shown
  <1> HIDE DEF ready
  <1>7. CASE what = "vdr"
    BY <1>5, <1>6, <1>7 DEF Peer, Shown
  <1>8. CASE what # "vdr"
    <2>1. PageChange(what) \in Requests /\ Tells(PageChange(what)) /\ PageChange(what).page = what
      BY PageChangeTells
    <2>2. ready \in TabType /\ Whole(ready)
      BY <1>5 DEF Good, Whole
    <2> QED
      BY <1>5, <1>6, <1>8, <2>1, <2>2, PeerSend
  <1> QED
    BY <1>7, <1>8

LEMMA OnSocketConnectShown ==
    ASSUME NEW n \in 0..MaxFaults, NEW t, Good(t, n), Peer(t), token \in {"none", "given"},
           Others(t) = {} => ~Current(t).held
    PROVE  Shown(OnSocketConnect(t))
  <1> DEFINE m == Login(t.page, token)
             u == Send(t, m)
  <1>1. n \in Nat /\ t \in TabType /\ Whole(t) /\ t.page \in AllPages
    BY WebClientAssumption DEF Good, Whole, TabType
  <1>2. m \in Requests /\ ~Late(m)
    BY <1>1, LoginType
  <1> HIDE DEF m
  <1>3. Good(u, n) /\ u.page = t.page /\ Peer(u)
    BY <1>1, <1>2, SendGood, PeerSend DEF Fits
  <1>4. OnSocketConnect(t) = MainMenuSel(u, t.page)
    BY DEF OnSocketConnect, m
  <1> HIDE DEF u
  <1> QED
    BY <1>1, <1>3, <1>4, MainMenuSelShown

LEMMA LoadShown ==
    ASSUME NEW stored
    PROVE  Shown(Load(stored))
  <1> DEFINE t == Load(stored)
             k == Client("daemon", "connecting")
  <1>1. 1 \in Sockets
    BY WebClientAssumption DEF Sockets
  <1>2. t.socket = 1 /\ t.clients[1] = k /\ t.page = "dashboard"
    BY <1>1 DEF Load
  <1>3. k.peer = "daemon" /\ k.ws = "connecting"
    BY DEF Client
  <1> HIDE DEF k, t
  <1> QED
    BY <1>2, <1>3 DEF Shown, Peer, Current, t

-----------------------------------------------------------------------------
(* One client changes, its peer stays. *)

LEMMA PeerChange ==
    ASSUME NEW t \in TabType, NEW o \in Sockets, NEW d, NEW u, Changed(u, t, o, d),
           d.peer = t.clients[o].peer,
           d.peer = "vdr" /\ t.clients[o].conn = NoConnection => d.conn = NoConnection
    PROVE  /\ Peer(t) => Peer(u)
           /\ Shown(t) /\ (o # t.socket \/ d.ws # "open") => Shown(u)
  <1>1. /\ u.page = t.page /\ u.socket = t.socket /\ u.clients = [t.clients EXCEPT ![o] = d]
        /\ t.clients \in [Sockets -> ClientType] /\ t.socket \in Sockets
    BY DEF TabType, Changed
  <1>2. /\ o = t.socket => Current(t) = t.clients[o] /\ Current(u) = d
        /\ o # t.socket => Current(u) = Current(t)
    BY <1>1 DEF Current
  <1>3. Peer(t) => Peer(u)
    BY <1>1, <1>2 DEF Peer
  <1>4. Shown(t) /\ o # t.socket => Shown(u)
    BY <1>1, <1>2, <1>3 DEF Shown
  <1>5. Shown(t) /\ o = t.socket /\ d.ws # "open" => Shown(u)
    BY <1>1, <1>2, <1>3 DEF Shown
  <1> QED
    BY <1>3, <1>4, <1>5

(* The connection of a client changes and knows the page as before. *)
LEMMA ConnShown ==
    ASSUME NEW t \in TabType, Shown(t), NEW o \in Sockets, NEW k, NEW u,
           Changed(u, t, o, [t.clients[o] EXCEPT !.conn = k]),
           t.clients[o].ws = "open", t.clients[o].conn # NoConnection,
           KnownTo(t.clients[o].conn, t.page) => KnownTo(k, t.page)
    PROVE  Peer(u) /\ Shown(u)
  <1> DEFINE c == t.clients[o]
             d == [c EXCEPT !.conn = k]
  <1>1. c \in ClientType
    BY DEF TabType
  <1>2. d.peer = c.peer /\ d.ws = "open" /\ d.conn = k
    BY <1>1 DEF ClientType
  <1>3. Changed(u, t, o, d)
    OBVIOUS
  <1> HIDE DEF d
  <1>4. Peer(t) /\ Peer(u)
    BY <1>2, <1>3, PeerChange DEF Shown
  <1>5. CASE o # t.socket
    BY <1>2, <1>3, <1>4, <1>5, PeerChange
  <1>6. CASE o = t.socket
    <2>1. c = Current(t) /\ c.peer = "daemon" /\ u.page = t.page /\ u.socket = t.socket
          /\ Current(u) = d
      BY <1>1, <1>2, <1>3, <1>4, <1>6 DEF Current, Peer, ClientType, Changed, TabType
    <2>2. t.page # "login" => KnownTo(k, t.page)
      BY <2>1 DEF Shown
    <2> QED
      BY <1>2, <1>4, <2>1, <2>2 DEF Shown
  <1> QED
    BY <1>4, <1>5, <1>6

-----------------------------------------------------------------------------
(* The steps of the web sockets. *)

LEMMA WsOpenShown == ASSUME IInv, Shown(tab), NEW o \in Sockets, WsOpen(o) PROVE Shown(tab')
  <1> DEFINE c == tab.clients[o]
             b == [c EXCEPT !.ws = "open", !.held = FALSE, !.queue = <<>>]
             d == Transmit(b, c.queue)
  <1>1. /\ Good(Opening(o), faults) /\ (Others(Opening(o)) = {} => ~Current(Opening(o)).held)
        /\ tab' = OnSocketConnect(Opening(o))
    BY OpeningGood
  <1>2. c \in ClientType
    BY ClientBefore
  <1>3. b.peer = c.peer /\ b.conn = c.conn
    BY <1>2 DEF ClientType
  <1>4. d.peer = c.peer /\ (d.peer = "vdr" => d.conn = c.conn)
    <2>1. \A x \in {"daemon", "vdr"} :
              b.peer = x => d = IF x = "daemon" THEN [b EXCEPT !.conn.up = @ \o c.queue] ELSE b
      BY DEF Transmit
    <2>2. [b EXCEPT !.conn.up = @ \o c.queue].peer = b.peer
      BY <1>2 DEF ClientType
    <2>3. c.peer \in {"daemon", "vdr"}
      BY <1>2 DEF ClientType
    <2> HIDE DEF b, d
    <2> QED
      BY <1>3, <2>1, <2>2, <2>3
  <1>5. Changed(Opening(o), tab, o, d)
    BY DEF Opening, Changed
  <1> HIDE DEF d
  <1>6. Peer(Opening(o))
    BY <1>4, <1>5, Before, PeerChange DEF Shown
  <1> QED
    BY <1>1, <1>6, Before, OnSocketConnectShown

LEMMA OnCloseKeeps ==
    ASSUME NEW c \in ClientType
    PROVE  OnClose(c).peer = c.peer /\ OnClose(c).conn = c.conn /\ OnClose(c).ws = "closed"
  BY DEF OnClose, ClientType

(* After the step the client that changes is not open. *)
LEMMA NotOpenShown ==
    ASSUME IInv, Shown(tab), NEW o \in Sockets, WsFails(o) \/ WsClose(o) \/ Drop(o) \/ Reconnect(o)
    PROVE  Shown(tab')
  <1> DEFINE c == tab.clients[o]
  <1>1. c \in ClientType
    BY ClientBefore
  <1>2. ASSUME NEW d, Changed(tab', tab, o, d), d.peer = c.peer, d.ws # "open",
               d.conn = c.conn \/ d.conn = NoConnection
        PROVE  Shown(tab')
    BY <1>2, Before, PeerChange DEF Shown
  <1>3. CASE WsFails(o) \/ WsClose(o)
    <2>1. Changed(tab', tab, o, OnClose(c))
      BY <1>3 DEF WsFails, WsClose, Changed
    <2> QED
      BY <1>1, <1>2, <2>1, OnCloseKeeps
  <1>4. CASE Drop(o)
    <2> DEFINE d == [c EXCEPT !.ws = "broken", !.conn = NoConnection]
    <2>1. Changed(tab', tab, o, d)
      BY <1>4 DEF Drop, Changed
    <2>2. d.peer = c.peer /\ d.ws = "broken" /\ d.conn = NoConnection
      BY <1>1 DEF ClientType
    <2> HIDE DEF d
    <2> QED
      BY <1>2, <2>1, <2>2
  <1>5. CASE Reconnect(o)
    <2> DEFINE d == [c EXCEPT !.timer = FALSE, !.ws = "connecting"]
    <2>1. Changed(tab', tab, o, d)
      BY <1>5 DEF Reconnect, Changed
    <2>2. d.peer = c.peer /\ d.ws = "connecting" /\ d.conn = c.conn
      BY <1>1 DEF ClientType
    <2> HIDE DEF d
    <2> QED
      BY <1>2, <2>1, <2>2
  <1> QED
    BY <1>3, <1>4, <1>5

-----------------------------------------------------------------------------
(* The steps of dispatchMessage. *)

LEMMA ReceivedShown ==
    ASSUME IInv, Shown(tab), NEW o \in Sockets, tab.clients[o].conn.down # <<>>
    PROVE  Shown(Received(o)) /\ Received(o).page = tab.page
  <1> DEFINE c == tab.clients[o]
             k == [c.conn EXCEPT !.down = Tail(@)]
  <1>1. c.conn \in ConnType /\ ClientInv(c) /\ c.conn # NoConnection
    BY ClientBefore, NoConnectionType
  <1>2. k.up = c.conn.up /\ k.sess = c.conn.sess /\ k.sessPage = c.conn.sessPage
    BY <1>1 DEF ConnType
  <1>3. Changed(Received(o), tab, o, [c EXCEPT !.conn = k])
    BY DEF Received, Changed
  <1>4. KnownTo(c.conn, tab.page) => KnownTo(k, tab.page)
    BY <1>2 DEF KnownTo
  <1>5. c.ws = "open"
    BY <1>1 DEF ClientInv
  <1>6. Received(o).page = tab.page
    BY Before DEF Received, TabType
  <1> HIDE DEF k
  <1> QED
    BY <1>1, <1>3, <1>4, <1>5, <1>6, Before, ConnShown

LEMMA DispatchShown ==
    ASSUME IInv, Shown(tab), NEW o \in Sockets,
           GetReady(o) \/ GetReject(o) \/ GetConfirm(o) \/ GetOnVdrPage(o)
    PROVE  Shown(tab')
  <1> DEFINE r == Received(o)
  <1>1. tab.clients[o].conn.down # <<>>
    BY DEF GetReady, GetReject, GetConfirm, GetOnVdrPage, Gets
  <1>2. Shown(r) /\ Good(r, faults) /\ r \in TabType /\ r.page = tab.page
    BY <1>1, ReceivedShown, ReceivedGood
  <1>3. CASE GetReady(o)
    <2> DEFINE u == MainMenuSel(r, tab.start)
               v == [u EXCEPT !.start = "none"]
    <2>1. tab' = IF tab.start = "none" THEN r ELSE v
      BY <1>3 DEF GetReady
    <2>2. tab.start \in Stored
      BY Before DEF TabType
    <2> HIDE DEF r
    <2>3. ASSUME tab.start # "none" PROVE Shown(v)
      <3>1. tab.start \in AllPages
        BY <2>2, <2>3 DEF Stored
      <3>2. Shown(u) /\ u \in TabType
        BY <1>2, <3>1, Before, MainMenuSelShown, MainMenuSelGood DEF Shown, Good, Whole
      <3> HIDE DEF u
      <3>3. v.clients = u.clients /\ v.socket = u.socket /\ v.page = u.page
        BY <3>2 DEF TabType
      <3> QED
        BY <3>2, <3>3 DEF Shown, Peer, Current
    <2> QED
      BY <1>2, <2>1, <2>3
  <1>4. CASE GetReject(o)
    <2>1. tab' = [r EXCEPT !.page = "login"] /\ r.page # "vdr"
      BY <1>2, <1>4 DEF GetReject
    <2> HIDE DEF r
    <2>2. tab'.clients = r.clients /\ tab'.socket = r.socket /\ tab'.page = "login"
      BY <1>2, <2>1 DEF TabType
    <2> QED
      BY <1>2, <2>1, <2>2 DEF Shown, Peer, Current
  <1>5. CASE GetConfirm(o)
    BY <1>5, LoadShown DEF GetConfirm
  <1>6. CASE GetOnVdrPage(o)
    BY <1>2, <1>6 DEF GetOnVdrPage
  <1> QED
    BY <1>3, <1>4, <1>5, <1>6

-----------------------------------------------------------------------------
(* The steps of the daemon. *)

(* A request that tells no page; a page that is denied without a login. *)
LEMMA KnownLess ==
    ASSUME NEW conn \in ConnType, conn.up # <<>>, NEW page, KnownTo(conn, page),
           NEW k \in ConnType, k.up = Tail(conn.up), k.sess = conn.sess,
           \/ k.sessPage = conn.sessPage /\ ~Tells(Head(conn.up))
           \/ /\ Head(conn.up).kind = "pagechange"
              /\ k.sessPage = IF conn.sess = "ok" THEN Head(conn.up).page ELSE conn.sessPage
    PROVE  KnownTo(k, page)
  <1>1. conn.up \in Seq(Requests)
    BY DEF ConnType
  <1>2. CASE NoLogin(conn.up) /\ conn.sess # "ok"
    BY <1>1, <1>2, LoginTail DEF KnownTo
  <1>3. CASE Told(conn.up, conn.sessPage, page)
    <2>1. /\ ~Tells(Head(conn.up)) => Told(k.up, conn.sessPage, page)
          /\ Tells(Head(conn.up)) => Told(k.up, Head(conn.up).page, page)
          /\ \/ \A other : Told(k.up, other, page)
             \/ \A i \in 1..Len(k.up) : ~Tells(k.up[i])
      BY <1>1, <1>3, ToldLess
    <2>2. (\A i \in 1..Len(k.up) : ~Tells(k.up[i])) => NoLogin(k.up)
      BY DEF NoLogin, Tells
    <2>3. Head(conn.up).kind = "pagechange" => Tells(Head(conn.up))
      BY DEF Tells
    <2> QED
      BY <2>1, <2>2, <2>3 DEF KnownTo
  <1> QED
    BY <1>2, <1>3 DEF KnownTo

LEMMA HandlesShown ==
    ASSUME IInv, Shown(tab), NEW o \in Sockets,
           HandleLogin(o) \/ HandlePageChange(o) \/ HandleControl(o) \/ HandleGetToken(o)
    PROVE  Shown(tab')
  <1> DEFINE c == tab.clients[o]
             h == Handled(c.conn)
             m == Head(c.conn.up)
  <1>1. c.conn.up # <<>>
    BY DEF HandleLogin, HandlePageChange, HandleControl, HandleGetToken, Handles
  <1>2. /\ c.ws = "open" /\ c.conn \in ConnType /\ h \in ConnType /\ m \in Requests
        /\ h.up = Tail(c.conn.up) /\ h.sess = c.conn.sess
        /\ h.down = c.conn.down /\ h.sessPage = c.conn.sessPage
    BY <1>1, HandledEffect
  <1>3. c.conn # NoConnection
    BY <1>1, NoConnectionType
  <1>4. ASSUME NEW k, tab' = [tab EXCEPT !.clients[o].conn = k],
               KnownTo(c.conn, tab.page) => KnownTo(k, tab.page)
        PROVE  Shown(tab')
    <2>1. Changed(tab', tab, o, [c EXCEPT !.conn = k])
      BY <1>4 DEF Changed
    <2> QED
      BY <1>2, <1>3, <1>4, <2>1, Before, ConnShown
  <1>5. CASE HandleControl(o)
    <2>1. tab' = [tab EXCEPT !.clients[o].conn = h] /\ ~Tells(m)
      BY <1>5 DEF HandleControl, Handles, Tells
    <2> HIDE DEF h
    <2> QED
      BY <1>1, <1>2, <1>4, <2>1, KnownLess
  <1>6. CASE HandlePageChange(o)
    <2> DEFINE page == IF c.conn.sess = "ok" THEN m.page ELSE h.sessPage
               k == [h EXCEPT !.sessPage = page]
    <2>1. tab' = [tab EXCEPT !.clients[o].conn = k] /\ m.kind = "pagechange"
      BY <1>6 DEF HandlePageChange, Handles
    <2>2. page \in AllPages \union {"none"}
      BY <1>2, <2>1 DEF Requests, ConnType
    <2> HIDE DEF h
    <2>3. /\ k \in ConnType /\ k.up = h.up /\ k.sess = h.sess /\ k.sessPage = page
      <3> HIDE DEF page
      <3> QED
        BY <1>2, <2>2 DEF ConnType
    <2> HIDE DEF k
    <2> QED
      BY <1>1, <1>2, <1>4, <2>1, <2>3, KnownLess
  <1>7. CASE HandleGetToken(o)
    <2> DEFINE event == IF m.right THEN "confirm" ELSE "reject"
               k == [h EXCEPT !.down = Append(@, event)]
    <2>1. tab' = [tab EXCEPT !.clients[o].conn = k] /\ ~Tells(m)
      BY <1>7 DEF HandleGetToken, Handles, Tells
    <2>2. event \in {"ready", "reject", "confirm"}
      OBVIOUS
    <2> HIDE DEF h, event
    <2>3. Append(h.down, event) \in Seq({"ready", "reject", "confirm"})
      BY <1>2, <2>2 DEF ConnType
    <2>4. k \in ConnType /\ k.up = h.up /\ k.sess = h.sess /\ k.sessPage = h.sessPage
      BY <1>2, <2>3 DEF ConnType
    <2> HIDE DEF k
    <2> QED
      BY <1>1, <1>2, <1>4, <2>1, <2>4, KnownLess
  <1>8. CASE HandleLogin(o)
    <2> DEFINE accepted == m.token = "given" /\ ~revoked
               sess == IF accepted THEN "ok" ELSE "rejected"
               events == IF accepted THEN <<"ready">> ELSE <<"reject", "ready">>
               k == [h EXCEPT !.sess = sess, !.sessPage = m.page, !.down = @ \o events]
    <2>1. tab' = [tab EXCEPT !.clients[o].conn = k] /\ m.kind = "login"
      BY <1>8 DEF HandleLogin, Handles
    <2>2. k.up = Tail(c.conn.up) /\ k.sessPage = m.page
      <3> HIDE DEF h, sess, events, m
      <3> QED
        BY <1>2 DEF ConnType
    <2> HIDE DEF k
    <2>3. c.conn.up \in Seq(Requests) /\ Tells(m) /\ ~NoLogin(c.conn.up)
      BY <1>1, <1>2, <2>1, LoginTail DEF ConnType, Tells
    <2>4. Told(c.conn.up, c.conn.sessPage, tab.page) => Told(k.up, k.sessPage, tab.page)
      BY <1>1, <2>2, <2>3, ToldLess
    <2> QED
      BY <1>4, <2>1, <2>3, <2>4 DEF KnownTo
  <1> QED
    BY <1>5, <1>6, <1>7, <1>8

-----------------------------------------------------------------------------
(* The steps of the user, and the theorem. *)

LEMMA UserShown == ASSUME IInv, Shown(tab), User PROVE Shown(tab')
  <1>1. tab \in TabType /\ Whole(tab) /\ Peer(tab)
    BY Before DEF Good, Shown
  <1>2. ASSUME NEW page \in AllPages, SelectPage(page) PROVE Shown(tab')
    BY <1>1, <1>2, Before, MainMenuSelShown DEF SelectPage
  <1>3. CASE Switch
    <2> DEFINE m == Control(Current(tab).held)
    <2>1. Current(tab).held \in BOOLEAN
      BY <1>1 DEF Current, TabType, ClientType
    <2>2. m \in Requests /\ ~Tells(m)
      BY <2>1 DEF Control, Requests, Tells
    <2>3. tab' = Send(tab, m)
      BY <1>3 DEF Switch
    <2> HIDE DEF m
    <2> QED
      BY <1>1, <2>2, <2>3, PeerSend
  <1>4. ASSUME NEW right \in BOOLEAN, DoLogin(right) PROVE Shown(tab')
    <2>1. GetToken(right) \in Requests /\ ~Tells(GetToken(right))
      BY DEF GetToken, Requests, Tells
    <2> QED
      BY <1>1, <1>4, <2>1, PeerSend DEF DoLogin
  <1>5. CASE DoLogout
    <2>1. "login" \in AllPages
      BY DEF AllPages
    <2> QED
      BY <1>1, <1>5, <2>1, Before, MainMenuSelShown DEF DoLogout
  <1>6. CASE Reload
    BY <1>6, LoadShown DEF Reload
  <1>7. CASE ResetToken
    BY <1>7 DEF ResetToken
  <1> QED
    BY <1>2, <1>3, <1>4, <1>5, <1>6, <1>7 DEF User

LEMMA ShownStep == ASSUME IInv, Shown(tab), [Next]_vars PROVE Shown(tab')
  <1>1. ASSUME NEW o \in Sockets, Runs(o) PROVE Shown(tab')
    BY <1>1, WsOpenShown, NotOpenShown, DispatchShown, HandlesShown DEF Runs
  <1>2. ASSUME NEW o \in Sockets, WsFails(o) \/ Drop(o) PROVE Shown(tab')
    BY <1>2, NotOpenShown
  <1>3. CASE UNCHANGED vars
    BY <1>3 DEF vars
  <1> QED
    BY <1>1, <1>2, <1>3, UserShown DEF Next

(* Once the connection of a page is quiet and logged in, the daemon knows   *)
(* the page shown, or the page of the login is shown, which a rejected      *)
(* password brings up and nobody announces.  This holds for any pages, any  *)
(* number of inputs and faults, any order of login, queue and page changes. *)
THEOREM PageToldAtLast == Spec => []PageKnown
  <1>1. Init => Shown(tab)
    BY LoadShown DEF Init
  <1>2. IInv /\ Shown(tab) => PageKnown
    <2> SUFFICES ASSUME IInv, Shown(tab), Quiet(Current(tab)), Current(tab).conn.sess = "ok",
                        tab.page # "login"
                 PROVE  Current(tab).conn.sessPage = tab.page
      BY DEF PageKnown
    <2>1. Current(tab) \in ClientType /\ Current(tab).ws = "open" /\ Current(tab).conn.up = <<>>
      BY Before DEF Quiet, Current, TabType
    <2>2. Current(tab).peer = "daemon"
      BY <2>1, NoConnectionType DEF Shown, Peer, ClientType
    <2>3. Told(<<>>, Current(tab).conn.sessPage, tab.page)
      BY <2>1, <2>2 DEF Shown, KnownTo
    <2> QED
      BY <2>3 DEF Told
  <1>3. IInv /\ Shown(tab) /\ [Next]_vars => Shown(tab')
    BY ShownStep
  <1>4. Shown(tab') <=> Shown(tab)'
    OBVIOUS
  <1> QED
    BY <1>1, <1>2, <1>3, <1>4, Inductive, PTL DEF Spec
=============================================================================
