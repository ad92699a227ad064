------------------------ MODULE ClientRequestsProofs ------------------------
(***************************************************************************)
(* Proofs about ClientRequests: the types, that the rights a request is    *)
(* checked against were given to the connection that sent it, that no      *)
(* session outlives its connection, and that ClientSessions is implemented.*)
(*                                                                         *)
(* The second one needs to know how the messages of two connections at the *)
(* same address lie in the queue: whatever belongs to the earlier one, its *)
(* login in wsClients included, is followed by a logout of the address     *)
(* before anything of the later one.  This is SessionsSeparated below; it  *)
(* holds because atLogout pushes the logout before the library can use the *)
(* address again, and because the queue keeps its order.                   *)
(***************************************************************************)
EXTENDS ClientRequests, SequenceLemmas

LogoutAt(q, k, w) == q[k].event = "logout" /\ q[k].client = w

(* Two messages of an address from different connections have a logout     *)
(* between them.                                                           *)
QueueSeparated(q) ==
    \A i, j \in 1..Len(q) :
        i < j /\ q[i].client = q[j].client /\ q[i].conn # q[j].conn
        => \E k \in i..(j-1) : LogoutAt(q, k, q[i].client)

(* So have the login in wsClients and a message of another connection.     *)
LoginSeparated(q, login) ==
    \A j \in 1..Len(q) :
        login[q[j].client] # 0 /\ login[q[j].client] # q[j].conn
        => \E k \in 1..(j-1) : LogoutAt(q, k, q[j].client)

(* Everything of address w that is not of connection c has a logout behind. *)
Covered(q, login, w, c) ==
    /\ login[w] # 0 /\ login[w] # c => \E k \in 1..Len(q) : LogoutAt(q, k, w)
    /\ \A i \in 1..Len(q) :
          q[i].client = w /\ q[i].conn # c => \E k \in i..Len(q) : LogoutAt(q, k, w)

LogoutUnderWay(w) == lwsPc = "push" /\ lwsMsg.event = "logout" /\ lwsMsg.client = w

SessionsSeparated ==
    /\ QueueSeparated(messagesIn)
    /\ LoginSeparated(messagesIn, loginConn)
    /\ \A w \in Clients : Covered(messagesIn, loginConn, w, cur[w])
    /\ \A w \in Clients : state[w] # "open" /\ ~LogoutUnderWay(w)
                          => Covered(messagesIn, loginConn, w, 0)

(* What the callbacks keep between their steps. *)
CallbackState ==
    /\ \A w \in Clients : state[w] = "open" => w \in clients
    /\ \A w \in Clients : state[w] # "none" => cur[w] # 0
    /\ lwsPc = "push" => lwsMsg.conn = cur[lwsMsg.client] /\ lwsMsg.conn # 0
    /\ lwsPc # "service" => (lwsMsg.event = "logout" <=> state[lwsMsg.client] # "open")
    /\ lwsPc = "erase" => lwsMsg.event = "logout"

(* A login stays at the head of the queue while it is performed. *)
LoginAtHead == mainPc = "login" => messagesIn # <<>> /\ Head(messagesIn).event = "login"

DispatchState ==
    /\ \A i \in 1..Len(messagesIn) : messagesIn[i].conn # 0
    /\ \A w \in Clients : rights[w] # {} => loginConn[w] # 0

IInv == TypeOK /\ LoginAtHead /\ CallbackState /\ DispatchState /\ SessionsSeparated

-----------------------------------------------------------------------------
(* Lemmas about the queue. *)

LEMMA TailOfQueue ==
    ASSUME NEW q \in Seq(Message), q # <<>>
    PROVE  /\ Tail(q) \in Seq(Message)
           /\ Len(q) \in Nat \ {0}
           /\ Len(Tail(q)) = Len(q) - 1
           /\ \A i \in 1..(Len(q) - 1) : Tail(q)[i] = q[i+1]
           /\ Head(q) = q[1] /\ q[1] \in Message
OBVIOUS

LEMMA AppendToQueue ==
    ASSUME NEW q \in Seq(Message), NEW m \in Message
    PROVE  /\ Append(q, m) \in Seq(Message)
           /\ Len(q) \in Nat
           /\ Len(Append(q, m)) = Len(q) + 1
           /\ \A i \in 1..Len(q) : Append(q, m)[i] = q[i]
           /\ Append(q, m)[Len(q) + 1] = m
OBVIOUS

(* Taking a message from the head keeps the rest separated. *)
LEMMA PopSeparated ==
    ASSUME NEW q \in Seq(Message), q # <<>>, QueueSeparated(q)
    PROVE  QueueSeparated(Tail(q))
<1> DEFINE t == Tail(q)
<1> SUFFICES ASSUME NEW i \in 1..Len(t), NEW j \in 1..Len(t), i < j,
                    t[i].client = t[j].client, t[i].conn # t[j].conn
             PROVE  \E k \in i..(j-1) : LogoutAt(t, k, t[i].client)
  BY DEF QueueSeparated
<1>1. /\ Len(q) \in Nat /\ Len(t) = Len(q) - 1
      /\ \A n \in 1..(Len(q) - 1) : t[n] = q[n+1]
  BY TailOfQueue
<1>2. i + 1 \in 1..Len(q) /\ j + 1 \in 1..Len(q) /\ i + 1 < j + 1
  BY <1>1
<1>3. PICK k \in (i+1)..j : LogoutAt(q, k, q[i+1].client)
  <2>1. q[i+1].client = q[j+1].client /\ q[i+1].conn # q[j+1].conn
    BY <1>1
  <2>2. \E k \in (i+1)..((j+1)-1) : LogoutAt(q, k, q[i+1].client)
    BY <2>1, <1>2 DEF QueueSeparated
  <2> QED BY <2>2
<1>4. k - 1 \in i..(j-1) /\ k - 1 \in 1..(Len(q) - 1) /\ (k - 1) + 1 = k
  BY <1>1
<1>5. t[k-1] = q[k] /\ t[i] = q[i+1]
  BY <1>4, <1>1
<1>6. LogoutAt(t, k - 1, t[i].client)
  BY <1>3, <1>5 DEF LogoutAt
<1> QED BY <1>4, <1>6

(* What popping the head leaves covered.  The login entry of w may be      *)
(* dropped, kept (unless the head is the logout of w) or replaced by the   *)
(* connection of the head.                                                 *)
LoginAfterPop(q, login, new, w) ==
    \/ new[w] = 0
    \/ new[w] = login[w] /\ ~LogoutAt(q, 1, w)
    \/ new[w] = q[1].conn /\ q[1].client = w /\ q[1].event # "logout"

LEMMA PopCovered ==
    ASSUME NEW q \in Seq(Message), q # <<>>, NEW login, NEW new, NEW w, NEW c,
           Covered(q, login, w, c), LoginAfterPop(q, login, new, w)
    PROVE  Covered(Tail(q), new, w, c)
<1> DEFINE t == Tail(q)
<1>1. /\ Len(q) \in Nat \ {0} /\ Len(t) = Len(q) - 1
      /\ \A n \in 1..(Len(q) - 1) : t[n] = q[n+1]
  BY TailOfQueue
<1>2. ASSUME new[w] # 0, new[w] # c
      PROVE  \E k \in 1..Len(t) : LogoutAt(t, k, w)
  <2>1. ~LogoutAt(q, 1, w)
    BY <1>2 DEF LoginAfterPop, LogoutAt
  <2>2. \E k \in 1..Len(q) : LogoutAt(q, k, w)
    BY <1>1, <1>2 DEF LoginAfterPop, Covered
  <2>3. PICK k \in 1..Len(q) : LogoutAt(q, k, w) /\ k # 1
    BY <2>1, <2>2
  <2>4. k - 1 \in 1..Len(t) /\ t[k-1] = q[k]
    BY <1>1, <2>3
  <2> QED BY <2>3, <2>4 DEF LogoutAt
<1>3. ASSUME NEW i \in 1..Len(t), t[i].client = w, t[i].conn # c
      PROVE  \E k \in i..Len(t) : LogoutAt(t, k, w)
  <2>1. i + 1 \in 1..Len(q) /\ t[i] = q[i+1]
    BY <1>1
  <2>2. PICK k \in (i+1)..Len(q) : LogoutAt(q, k, w)
    BY <2>1, <1>3 DEF Covered
  <2>3. k - 1 \in i..Len(t) /\ t[k-1] = q[k]
    BY <1>1
  <2> QED BY <2>2, <2>3 DEF LogoutAt
<1> QED BY <1>2, <1>3 DEF Covered

LEMMA PopLoginSeparated ==
    ASSUME NEW q \in Seq(Message), q # <<>>, NEW login, NEW new,
           QueueSeparated(q), LoginSeparated(q, login),
           \A w \in Clients : LoginAfterPop(q, login, new, w)
    PROVE  LoginSeparated(Tail(q), new)
<1> DEFINE t == Tail(q)
<1>1. /\ Len(q) \in Nat \ {0} /\ Len(t) = Len(q) - 1 /\ t \in Seq(Message)
      /\ \A n \in 1..(Len(q) - 1) : t[n] = q[n+1]
  BY TailOfQueue
<1> SUFFICES ASSUME NEW j \in 1..Len(t),
                    new[t[j].client] # 0, new[t[j].client] # t[j].conn
             PROVE  \E k \in 1..(j-1) : LogoutAt(t, k, t[j].client)
  BY DEF LoginSeparated
<1> DEFINE w == t[j].client
<1>2. j + 1 \in 1..Len(q) /\ t[j] = q[j+1] /\ w \in Clients /\ q[j+1].client = w
  <2>1. t[j] \in Message
    BY <1>1
  <2>2. w \in Clients
    BY <2>1 DEF Message
  <2> QED BY <1>1, <2>2
<1>3. LoginAfterPop(q, login, new, w)
  BY <1>2
<1>4. ~LogoutAt(q, 1, w)
  BY <1>3 DEF LoginAfterPop, LogoutAt
<1>5. \E k \in 1..j : LogoutAt(q, k, w)
  <2>1. CASE new[w] = login[w]
    <3>1. \E k \in 1..((j+1)-1) : LogoutAt(q, k, w)
      BY <2>1, <1>2 DEF LoginSeparated
    <3> QED BY <3>1
  <2>2. CASE new[w] = q[1].conn /\ q[1].client = w
    <3>1. 1 \in 1..Len(q) /\ 1 < j + 1 /\ q[1].client = q[j+1].client
          /\ q[1].conn # q[j+1].conn
      BY <2>2, <1>1, <1>2
    <3>2. \E k \in 1..((j+1)-1) : LogoutAt(q, k, q[1].client)
      BY <3>1, <1>2 DEF QueueSeparated
    <3> QED BY <3>2, <2>2
  <2> QED BY <1>3, <2>1, <2>2 DEF LoginAfterPop
<1>6. PICK k \in 1..j : LogoutAt(q, k, w) /\ k # 1
  BY <1>4, <1>5
<1>7. k - 1 \in 1..(j-1) /\ t[k-1] = q[k]
  BY <1>1, <1>6
<1> QED BY <1>6, <1>7 DEF LogoutAt

(* A message pushed by the present connection of an address. *)
LEMMA PushKeepsCovered ==
    ASSUME NEW q \in Seq(Message), NEW m \in Message, NEW login, NEW w, NEW c,
           Covered(q, login, w, c), m.client = w => m.conn = c \/ m.event = "logout"
    PROVE  Covered(Append(q, m), login, w, c)
<1> DEFINE a == Append(q, m)
<1>1. /\ Len(q) \in Nat /\ Len(a) = Len(q) + 1 /\ a[Len(q) + 1] = m
      /\ \A n \in 1..Len(q) : a[n] = q[n]
  BY AppendToQueue
<1>2. ASSUME login[w] # 0, login[w] # c
      PROVE  \E k \in 1..Len(a) : LogoutAt(a, k, w)
  <2>1. PICK k \in 1..Len(q) : LogoutAt(q, k, w)
    BY <1>2 DEF Covered
  <2> QED BY <1>1, <2>1 DEF LogoutAt
<1>3. ASSUME NEW i \in 1..Len(a), a[i].client = w, a[i].conn # c
      PROVE  \E k \in i..Len(a) : LogoutAt(a, k, w)
  <2>1. CASE i \in 1..Len(q)
    <3>1. PICK k \in i..Len(q) : LogoutAt(q, k, w)
      BY <1>1, <1>3, <2>1 DEF Covered
    <3> QED BY <1>1, <2>1, <3>1 DEF LogoutAt
  <2>2. CASE i = Len(q) + 1
    BY <1>1, <1>3, <2>2 DEF LogoutAt
  <2> QED BY <1>1, <2>1, <2>2
<1> QED BY <1>2, <1>3 DEF Covered

(* A logout covers everything of its address. *)
LEMMA PushLogoutCovers ==
    ASSUME NEW q \in Seq(Message), NEW m \in Message, NEW login, NEW c,
           m.event = "logout"
    PROVE  Covered(Append(q, m), login, m.client, c)
<1> DEFINE a == Append(q, m)
<1>1. Len(q) \in Nat /\ Len(a) = Len(q) + 1 /\ a[Len(q) + 1] = m
  BY AppendToQueue
<1>2. LogoutAt(a, Len(q) + 1, m.client)
  BY <1>1 DEF LogoutAt
<1> QED BY <1>1, <1>2 DEF Covered

LEMMA PushSeparated ==
    ASSUME NEW q \in Seq(Message), NEW m \in Message, NEW login,
           QueueSeparated(q), LoginSeparated(q, login),
           Covered(q, login, m.client, m.conn)
    PROVE  QueueSeparated(Append(q, m)) /\ LoginSeparated(Append(q, m), login)
<1> DEFINE a == Append(q, m)
<1>1. /\ Len(q) \in Nat /\ Len(a) = Len(q) + 1 /\ a[Len(q) + 1] = m
      /\ \A n \in 1..Len(q) : a[n] = q[n]
  BY AppendToQueue
<1>2. ASSUME NEW i \in 1..Len(a), NEW j \in 1..Len(a), i < j,
             a[i].client = a[j].client, a[i].conn # a[j].conn
      PROVE  \E k \in i..(j-1) : LogoutAt(a, k, a[i].client)
  <2>1. i \in 1..Len(q)
    BY <1>1, <1>2
  <2>2. CASE j \in 1..Len(q)
    <3>1. PICK k \in i..(j-1) : LogoutAt(q, k, q[i].client)
      BY <1>1, <1>2, <2>1, <2>2 DEF QueueSeparated
    <3>2. k \in 1..Len(q)
      BY <1>1, <2>1, <2>2
    <3> QED BY <1>1, <2>1, <3>1, <3>2 DEF LogoutAt
  <2>3. CASE j = Len(q) + 1
    <3>1. q[i].client = m.client /\ q[i].conn # m.conn
      BY <1>1, <1>2, <2>1, <2>3
    <3>2. PICK k \in i..Len(q) : LogoutAt(q, k, m.client)
      BY <2>1, <3>1 DEF Covered
    <3>3. k \in 1..Len(q) /\ k \in i..(j-1)
      BY <1>1, <2>1, <2>3
    <3> QED BY <1>1, <2>1, <3>1, <3>2, <3>3 DEF LogoutAt
  <2> QED BY <1>1, <2>2, <2>3
<1>3. ASSUME NEW j \in 1..Len(a), login[a[j].client] # 0, login[a[j].client] # a[j].conn
      PROVE  \E k \in 1..(j-1) : LogoutAt(a, k, a[j].client)
  <2>1. CASE j \in 1..Len(q)
    <3>1. PICK k \in 1..(j-1) : LogoutAt(q, k, q[j].client)
      BY <1>1, <1>3, <2>1 DEF LoginSeparated
    <3>2. k \in 1..Len(q)
      BY <1>1, <2>1
    <3> QED BY <1>1, <2>1, <3>1, <3>2 DEF LogoutAt
  <2>2. CASE j = Len(q) + 1
    <3>1. PICK k \in 1..Len(q) : LogoutAt(q, k, m.client)
      BY <1>1, <1>3, <2>2 DEF Covered
    <3> QED BY <1>1, <2>2, <3>1 DEF LogoutAt
  <2> QED BY <1>1, <2>1, <2>2
<1> QED BY <1>2, <1>3 DEF QueueSeparated, LoginSeparated

-----------------------------------------------------------------------------
(* Type correctness. *)

Callback(w) ==
    \/ Established(w)
    \/ \E e \in Events \union {"login"}, u \in Users, tk \in Tokens : Receive(w, e, u, tk)
    \/ PeerInitiatedClose(w)
    \/ Closed(w)

LEMMA NextCases ==
    [Next]_vars => \/ \E w \in Clients : Callback(w)
                   \/ PushInMessage
                   \/ EraseClient
                   \/ DispatchBegin
                   \/ PerformLogin
                   \/ SetClientType
                   \/ PerformLogout
                   \/ PerformRequest
                   \/ DispatchEnd
                   \/ UNCHANGED vars
<1>1. AnyUser \in Users
  BY ConstantsAssumption DEF AnyUser
<1>2. ASSUME NEW w \in Clients, ReceiveLogin(w) PROVE Callback(w)
  BY <1>2 DEF ReceiveLogin, Callback
<1>3. ASSUME NEW w \in Clients, NEW e \in Events, Receive(w, e, AnyUser, "mismatch")
      PROVE  Callback(w)
  <2>1. e \in Events \union {"login"} /\ "mismatch" \in Tokens
    BY DEF Tokens
  <2> QED BY <1>1, <1>3, <2>1 DEF Callback
<1>4. ASSUME NEW w \in Clients, Established(w) \/ PeerInitiatedClose(w) \/ Closed(w)
      PROVE  Callback(w)
  BY <1>4 DEF Callback
<1> QED BY <1>2, <1>3, <1>4 DEF Next, LwsNext, MainNext

LEMMA HeadTyped ==
    ASSUME TypeOK, messagesIn # <<>>
    PROVE  /\ Head(messagesIn) \in Message
           /\ Tail(messagesIn) \in Seq(Message)
           /\ Head(messagesIn).client \in Clients
           /\ Head(messagesIn).conn \in Nat
           /\ Head(messagesIn).event \in Events \union {"login", "logout"}
           /\ Head(messagesIn).user \in Users
<1>1. Head(messagesIn) \in Message /\ Tail(messagesIn) \in Seq(Message)
  BY TailOfQueue DEF TypeOK
<1> QED BY <1>1 DEF Message

LEMMA InitType == Init => TypeOK
<1>1. AnyUser \in Users /\ (CHOOSE w \in Clients : TRUE) \in Clients
  BY ConstantsAssumption DEF AnyUser
<1> QED
  BY <1>1, ConstantsAssumption DEF Init, TypeOK, NoMessage, Message, Tokens, AllRights

LEMMA StepType == TypeOK /\ LoginAtHead /\ [Next]_vars => TypeOK'
<1> SUFFICES ASSUME TypeOK, LoginAtHead, [Next]_vars PROVE TypeOK'
  OBVIOUS
<1> USE DEF TypeOK
<1>0. AnyUser \in Users
  BY ConstantsAssumption DEF AnyUser
<1>1. ASSUME NEW w \in Clients, Established(w) PROVE TypeOK'
  BY <1>1, ConstantsAssumption DEF Established, mainVars
<1>2. ASSUME NEW w \in Clients, NEW e \in Events \union {"login"}, NEW u \in Users,
             NEW tk \in Tokens, Receive(w, e, u, tk)
      PROVE  TypeOK'
  BY <1>2 DEF Receive, mainVars, Message
<1>3. ASSUME NEW w \in Clients, AtLogout(w)
      PROVE  lwsMsg' \in Message /\ lwsPc' \in {"service", "push", "erase"}
  BY <1>0, <1>3 DEF AtLogout, Message, Tokens
<1>4. ASSUME NEW w \in Clients, PeerInitiatedClose(w) PROVE TypeOK'
  BY <1>3, <1>4 DEF PeerInitiatedClose, mainVars
<1>5. ASSUME NEW w \in Clients, Closed(w) PROVE TypeOK'
  BY <1>3, <1>5 DEF Closed, mainVars
<1>6. CASE PushInMessage
  BY <1>6, AppendToQueue DEF PushInMessage, mainVars
<1>7. CASE EraseClient
  BY <1>7 DEF EraseClient, mainVars
<1>8. CASE DispatchBegin
  BY <1>8 DEF DispatchBegin, lwsVars
<1>9. ASSUME messagesIn # <<>>, Decide(Head(messagesIn))
      PROVE  decided' \in [conn : Nat, event : Events \union {"login", "logout"}, ok : BOOLEAN]
  <2>1. CheckRights(Head(messagesIn).event, rights[Head(messagesIn).client]) \in BOOLEAN
    BY DEF CheckRights
  <2> QED BY <1>9, <2>1, HeadTyped DEF Decide
<1>10. CASE PerformLogin
  <2>1. messagesIn # <<>> /\ Decide(Head(messagesIn))
    BY <1>10 DEF PerformLogin
  <2>2. rights' \in [Clients -> SUBSET AllRights]
    BY <1>10, <2>1, HeadTyped, ConstantsAssumption DEF PerformLogin
  <2>3. /\ known' \subseteq Clients /\ loginConn' \in [Clients -> Nat]
        /\ messagesIn' \in Seq(Message) /\ mainPc' \in {"idle", "dispatch", "login"}
    BY <1>10, <2>1, HeadTyped DEF PerformLogin
  <2> QED BY <1>9, <1>10, <2>1, <2>2, <2>3 DEF PerformLogin, lwsVars
<1>11. CASE SetClientType
  <2>1. messagesIn # <<>>
    BY <1>11 DEF SetClientType, LoginAtHead
  <2> QED BY <1>11, <2>1, HeadTyped DEF SetClientType, lwsVars
<1>12. CASE PerformLogout
  <2>1. messagesIn # <<>> /\ Decide(Head(messagesIn))
    BY <1>12 DEF PerformLogout
  <2> QED BY <1>9, <1>12, <2>1, HeadTyped DEF PerformLogout, lwsVars
<1>13. CASE PerformRequest
  <2>1. messagesIn # <<>> /\ Decide(Head(messagesIn))
    BY <1>13 DEF PerformRequest
  <2> QED BY <1>9, <1>13, <2>1, HeadTyped DEF PerformRequest, lwsVars
<1>14. CASE DispatchEnd
  BY <1>14 DEF DispatchEnd, lwsVars
<1>15. CASE UNCHANGED vars
  BY <1>15 DEF vars
<1>16. ASSUME NEW w \in Clients, Callback(w) PROVE TypeOK'
  BY <1>1, <1>2, <1>4, <1>5, <1>16 DEF Callback
<1> HIDE DEF TypeOK
<1> QED
  BY <1>6, <1>7, <1>8, <1>10, <1>11, <1>12, <1>13, <1>14, <1>15, <1>16, NextCases

-----------------------------------------------------------------------------
(* The invariant: the initial states and one lemma per part. *)

LEMMA InitIInv == Init => IInv
<1> SUFFICES ASSUME Init PROVE IInv
  OBVIOUS
<1>1. TypeOK
  BY InitType
<1>2. Len(messagesIn) = 0 /\ messagesIn = <<>>
  BY DEF Init
<1>3. LoginAtHead /\ CallbackState /\ DispatchState
  BY <1>2 DEF Init, LoginAtHead, CallbackState, DispatchState
<1>4. SessionsSeparated
  BY <1>2 DEF Init, SessionsSeparated, QueueSeparated, LoginSeparated, Covered
<1> QED BY <1>1, <1>3, <1>4 DEF IInv

LEMMA StepLoginAtHead == TypeOK /\ LoginAtHead /\ [Next]_vars => LoginAtHead'
<1> SUFFICES ASSUME TypeOK, LoginAtHead, [Next]_vars, mainPc' = "login"
             PROVE  messagesIn' # <<>> /\ Head(messagesIn').event = "login"
  BY DEF LoginAtHead
<1>1. CASE PerformLogin
  BY <1>1 DEF PerformLogin
<1>2. CASE UNCHANGED <<mainPc, messagesIn>>
  BY <1>2 DEF LoginAtHead
<1>3. CASE PushInMessage \/ DispatchBegin \/ SetClientType \/ DispatchEnd
  BY <1>3 DEF PushInMessage, DispatchBegin, SetClientType, DispatchEnd, mainVars
<1>4. CASE PerformLogout \/ PerformRequest
  BY <1>4 DEF PerformLogout, PerformRequest
<1>5. CASE \E w \in Clients : Callback(w)
  BY <1>2, <1>5 DEF Callback, Established, PeerInitiatedClose, Closed, Receive, mainVars
<1>6. CASE EraseClient \/ UNCHANGED vars
  BY <1>2, <1>6 DEF EraseClient, mainVars, vars
<1> QED
  BY <1>1, <1>3, <1>4, <1>5, <1>6, NextCases

LEMMA StepCallbackState == TypeOK /\ CallbackState /\ [Next]_vars => CallbackState'
<1> SUFFICES ASSUME TypeOK, CallbackState, [Next]_vars PROVE CallbackState'
  OBVIOUS
<1> USE DEF TypeOK, CallbackState
<1>1. ASSUME NEW w \in Clients, Established(w) PROVE CallbackState'
  BY <1>1 DEF Established
<1>2. ASSUME NEW w \in Clients, NEW e \in Events \union {"login"}, NEW u \in Users,
             NEW tk \in Tokens, Receive(w, e, u, tk)
      PROVE  CallbackState'
  BY <1>2, ConstantsAssumption DEF Receive
<1>3. ASSUME NEW w \in Clients, PeerInitiatedClose(w) PROVE CallbackState'
  BY <1>3 DEF PeerInitiatedClose, AtLogout
<1>4. ASSUME NEW w \in Clients, Closed(w) PROVE CallbackState'
  BY <1>4 DEF Closed, AtLogout
<1>5. CASE PushInMessage
  BY <1>5 DEF PushInMessage
<1>6. CASE EraseClient
  BY <1>6 DEF EraseClient
<1>7. CASE SetClientType
  BY <1>7 DEF SetClientType, lwsVars
<1>8. CASE DispatchBegin \/ PerformLogin \/ PerformLogout \/ PerformRequest \/ DispatchEnd
  BY <1>8 DEF DispatchBegin, PerformLogin, PerformLogout, PerformRequest, DispatchEnd, lwsVars
<1>9. CASE UNCHANGED vars
  BY <1>9 DEF vars
<1>10. ASSUME NEW w \in Clients, Callback(w) PROVE CallbackState'
  BY <1>1, <1>2, <1>3, <1>4, <1>10 DEF Callback
<1> HIDE DEF TypeOK, CallbackState
<1> QED
  BY <1>5, <1>6, <1>7, <1>8, <1>9, <1>10, NextCases

LEMMA StepDispatchState ==
    TypeOK /\ LoginAtHead /\ CallbackState /\ DispatchState /\ [Next]_vars => DispatchState'
<1> SUFFICES ASSUME TypeOK, LoginAtHead, CallbackState, DispatchState, [Next]_vars
             PROVE  DispatchState'
  OBVIOUS
<1>1. CASE UNCHANGED <<messagesIn, rights, loginConn>>
  BY <1>1 DEF DispatchState
<1>2. CASE \E w \in Clients : Callback(w)
  BY <1>1, <1>2 DEF Callback, Established, PeerInitiatedClose, Closed, Receive, mainVars
<1>3. CASE EraseClient \/ DispatchBegin \/ DispatchEnd \/ UNCHANGED vars
  BY <1>1, <1>3 DEF EraseClient, DispatchBegin, DispatchEnd, mainVars, vars
<1>4. CASE PushInMessage
  <2>1. /\ lwsMsg.conn # 0 /\ messagesIn' = Append(messagesIn, lwsMsg)
        /\ UNCHANGED <<rights, loginConn>>
    BY <1>4 DEF PushInMessage, CallbackState, mainVars
  <2>2. messagesIn \in Seq(Message) /\ lwsMsg \in Message
    BY DEF TypeOK
  <2>3. \A i \in 1..Len(messagesIn') : messagesIn'[i].conn # 0
    <3> SUFFICES ASSUME NEW i \in 1..Len(messagesIn') PROVE messagesIn'[i].conn # 0
      OBVIOUS
    <3>1. i \in 1..Len(messagesIn) \/ i = Len(messagesIn) + 1
      BY <2>1, <2>2, AppendToQueue
    <3> QED BY <2>1, <2>2, <3>1, AppendToQueue DEF DispatchState
  <2> QED BY <2>1, <2>3 DEF DispatchState
<1>5. ASSUME messagesIn # <<>>, messagesIn' = Tail(messagesIn)
      PROVE  \A i \in 1..Len(messagesIn') : messagesIn'[i].conn # 0
  <2>1. messagesIn \in Seq(Message)
    BY DEF TypeOK
  <2> SUFFICES ASSUME NEW i \in 1..Len(messagesIn') PROVE messagesIn'[i].conn # 0
    OBVIOUS
  <2>2. i + 1 \in 1..Len(messagesIn) /\ messagesIn'[i] = messagesIn[i+1]
    BY <1>5, <2>1, TailOfQueue
  <2> QED BY <2>2 DEF DispatchState
<1>6. ASSUME messagesIn # <<>>
      PROVE  Head(messagesIn).conn # 0 /\ Head(messagesIn).client \in Clients
  <2>1. messagesIn \in Seq(Message)
    BY DEF TypeOK
  <2>2. 1 \in 1..Len(messagesIn) /\ Head(messagesIn) = messagesIn[1]
    BY <1>6, <2>1, TailOfQueue
  <2> QED BY <1>6, <2>2, HeadTyped DEF DispatchState
<1>7. CASE PerformLogin
  <2>1. messagesIn # <<>> /\ (messagesIn' = messagesIn \/ messagesIn' = Tail(messagesIn))
    BY <1>7 DEF PerformLogin
  <2>2. \A i \in 1..Len(messagesIn') : messagesIn'[i].conn # 0
    BY <1>5, <2>1 DEF DispatchState
  <2>3. \A w \in Clients : rights'[w] # {} => loginConn'[w] # 0
    BY <1>6, <1>7, <2>1 DEF PerformLogin, DispatchState, TypeOK
  <2> QED BY <2>2, <2>3 DEF DispatchState
<1>8. CASE PerformLogout
  <2>1. messagesIn # <<>> /\ messagesIn' = Tail(messagesIn)
    BY <1>8 DEF PerformLogout
  <2>2. \A w \in Clients : rights'[w] # {} => loginConn'[w] # 0
    BY <1>6, <1>8, <2>1 DEF PerformLogout, DispatchState, TypeOK
  <2> QED BY <1>5, <2>1, <2>2 DEF DispatchState
<1>9. CASE SetClientType \/ PerformRequest
  <2>1. messagesIn # <<>> /\ messagesIn' = Tail(messagesIn) /\ UNCHANGED <<rights, loginConn>>
    BY <1>9 DEF SetClientType, PerformRequest, LoginAtHead
  <2> QED BY <1>5, <2>1 DEF DispatchState
<1> QED BY <1>2, <1>3, <1>4, <1>7, <1>8, <1>9, NextCases

(* Taking the head of the queue, whatever it does to the login entries. *)
LEMMA StepPop ==
    ASSUME TypeOK, SessionsSeparated, messagesIn # <<>>, messagesIn' = Tail(messagesIn),
           UNCHANGED <<cur, state, lwsPc, lwsMsg>>,
           \A w \in Clients : LoginAfterPop(messagesIn, loginConn, loginConn', w)
    PROVE  SessionsSeparated'
<1>1. messagesIn \in Seq(Message)
  BY DEF TypeOK
<1>2. QueueSeparated(messagesIn)'
  BY <1>1, PopSeparated DEF SessionsSeparated
<1>3. LoginSeparated(messagesIn, loginConn)'
  BY <1>1, PopLoginSeparated DEF SessionsSeparated
<1>4. ASSUME NEW w \in Clients, NEW c, Covered(messagesIn, loginConn, w, c)
      PROVE  Covered(messagesIn', loginConn', w, c)
  BY <1>1, <1>4, PopCovered
<1>5. \A w \in Clients : Covered(messagesIn', loginConn', w, cur'[w])
  BY <1>4 DEF SessionsSeparated
<1>6. \A w \in Clients : state'[w] # "open" /\ ~LogoutUnderWay(w)'
                         => Covered(messagesIn', loginConn', w, 0)
  BY <1>4 DEF SessionsSeparated, LogoutUnderWay
<1> QED BY <1>2, <1>3, <1>5, <1>6 DEF SessionsSeparated

LEMMA StepSessionsSeparated == IInv /\ [Next]_vars => SessionsSeparated'
<1> SUFFICES ASSUME IInv, [Next]_vars PROVE SessionsSeparated'
  OBVIOUS
<1>0. TypeOK /\ LoginAtHead /\ CallbackState /\ DispatchState /\ SessionsSeparated
  BY DEF IInv
<1>1. CASE UNCHANGED <<messagesIn, loginConn, cur, state, lwsPc, lwsMsg>>
  BY <1>0, <1>1 DEF SessionsSeparated, LogoutUnderWay
<1>2. CASE DispatchBegin \/ DispatchEnd \/ UNCHANGED vars
  BY <1>1, <1>2 DEF DispatchBegin, DispatchEnd, lwsVars, vars
<1>3. ASSUME NEW w \in Clients, Established(w) PROVE SessionsSeparated'
  <2>1. /\ lwsPc = "service" /\ state[w] = "none"
        /\ state' = [state EXCEPT ![w] = "open"]
        /\ cur' = [cur EXCEPT ![w] = nextConn + 1]
        /\ UNCHANGED <<messagesIn, loginConn, lwsPc, lwsMsg>>
    BY <1>3 DEF Established, mainVars
  <2>2. Covered(messagesIn, loginConn, w, 0)
    BY <1>0, <2>1 DEF SessionsSeparated, LogoutUnderWay
  <2>3. Covered(messagesIn, loginConn, w, cur'[w])
    BY <1>0, <2>2 DEF Covered, DispatchState
  <2>4. \A v \in Clients : Covered(messagesIn, loginConn, v, cur'[v])
    BY <1>0, <2>1, <2>3 DEF SessionsSeparated, TypeOK
  <2> QED BY <1>0, <2>1, <2>4 DEF SessionsSeparated, LogoutUnderWay, TypeOK
<1>4. ASSUME NEW w \in Clients, NEW e \in Events \union {"login"}, NEW u \in Users,
             NEW tk \in Tokens, Receive(w, e, u, tk)
      PROVE  SessionsSeparated'
  <2>1. lwsPc = "service" /\ UNCHANGED <<messagesIn, loginConn, cur, state>>
    BY <1>4 DEF Receive, mainVars
  <2> QED BY <1>0, <2>1 DEF SessionsSeparated, LogoutUnderWay
<1>5. ASSUME NEW w \in Clients, PeerInitiatedClose(w) \/ Closed(w) PROVE SessionsSeparated'
  <2>1. /\ lwsPc = "service" /\ state[w] # "none"
        /\ \E n \in {"none", "closing"} : state' = [state EXCEPT ![w] = n]
        /\ AtLogout(w) /\ UNCHANGED <<messagesIn, loginConn, cur>>
    BY <1>5 DEF PeerInitiatedClose, Closed, mainVars
  <2>2. \A v \in Clients : v # w => state'[v] = state[v]
    BY <1>0, <2>1 DEF TypeOK
  <2>3. state'[w] # "open" /\ ~LogoutUnderWay(w)' => Covered(messagesIn, loginConn, w, 0)
    BY <1>0, <2>1 DEF AtLogout, LogoutUnderWay, CallbackState, SessionsSeparated
  <2>4. \A v \in Clients : v # w /\ state'[v] # "open" => Covered(messagesIn, loginConn, v, 0)
    BY <1>0, <2>1, <2>2 DEF LogoutUnderWay, SessionsSeparated
  <2> QED BY <1>0, <2>1, <2>3, <2>4 DEF SessionsSeparated
<1>6. CASE PushInMessage
  <2>1. /\ lwsPc = "push" /\ lwsPc' # "push" /\ messagesIn' = Append(messagesIn, lwsMsg)
        /\ UNCHANGED <<loginConn, cur, state, lwsMsg>>
    BY <1>6 DEF PushInMessage, mainVars
  <2>2. messagesIn \in Seq(Message) /\ lwsMsg \in Message /\ lwsMsg.client \in Clients
    BY <1>0 DEF TypeOK, Message
  <2>3. lwsMsg.conn = cur[lwsMsg.client]
    BY <1>0, <2>1 DEF CallbackState
  <2>4. QueueSeparated(messagesIn') /\ LoginSeparated(messagesIn', loginConn)
    BY <1>0, <2>1, <2>2, <2>3, PushSeparated DEF SessionsSeparated
  <2>5. \A w \in Clients : Covered(messagesIn', loginConn, w, cur[w])
    BY <1>0, <2>1, <2>2, <2>3, PushKeepsCovered DEF SessionsSeparated
  <2>6. ASSUME NEW w \in Clients, state[w] # "open"
        PROVE  Covered(messagesIn', loginConn, w, 0)
    <3>1. CASE LogoutUnderWay(w)
      BY <2>1, <2>2, <3>1, PushLogoutCovers DEF LogoutUnderWay
    <3>2. CASE ~LogoutUnderWay(w)
      <4>1. lwsMsg.client # w
        BY <1>0, <2>1, <2>6, <3>2 DEF LogoutUnderWay, CallbackState
      <4>2. Covered(messagesIn, loginConn, w, 0)
        BY <1>0, <2>6, <3>2 DEF SessionsSeparated
      <4> QED BY <2>1, <2>2, <4>1, <4>2, PushKeepsCovered
    <3> QED BY <3>1, <3>2
  <2> QED BY <2>1, <2>4, <2>5, <2>6 DEF SessionsSeparated
<1>7. CASE EraseClient
  <2>1. /\ lwsPc = "erase" /\ lwsPc' = "service"
        /\ UNCHANGED <<messagesIn, loginConn, cur, state, lwsMsg>>
    BY <1>7 DEF EraseClient, mainVars
  <2> QED BY <1>0, <2>1 DEF SessionsSeparated, LogoutUnderWay
<1>8. ASSUME messagesIn # <<>>
      PROVE  /\ Head(messagesIn) = messagesIn[1] /\ Head(messagesIn).client \in Clients
             /\ Head(messagesIn).event # "logout" =>
                    \A w \in Clients : LoginAfterPop(messagesIn, loginConn, loginConn, w)
  <2>1. Head(messagesIn) = messagesIn[1]
    BY <1>0, <1>8, TailOfQueue DEF TypeOK
  <2> QED BY <1>0, <1>8, <2>1, HeadTyped DEF LoginAfterPop, LogoutAt
<1>9. CASE PerformLogin
  <2> DEFINE m == Head(messagesIn)
  <2>1. /\ messagesIn # <<>> /\ m.event = "login"
        /\ loginConn' = [loginConn EXCEPT ![m.client] = m.conn]
        /\ messagesIn' = messagesIn \/ messagesIn' = Tail(messagesIn)
        /\ UNCHANGED <<cur, state, lwsPc, lwsMsg>>
    BY <1>9 DEF PerformLogin, lwsVars
  <2>2. m = messagesIn[1] /\ m.client \in Clients /\ m.conn # 0
        /\ Len(messagesIn) \in Nat \ {0}
    BY <1>0, <1>8, <2>1, TailOfQueue DEF TypeOK, DispatchState
  <2>3. CASE messagesIn' = Tail(messagesIn)
    <3>1. \A w \in Clients : LoginAfterPop(messagesIn, loginConn, loginConn', w)
      BY <1>0, <2>1, <2>2 DEF LoginAfterPop, LogoutAt, TypeOK
    <3> QED BY <1>0, <2>1, <2>3, <3>1, StepPop
  <2>4. CASE messagesIn' = messagesIn
    <3>1. \A w \in Clients : loginConn'[w] = IF w = m.client THEN m.conn ELSE loginConn[w]
      BY <1>0, <2>1, <2>2 DEF TypeOK
    <3>2. LoginSeparated(messagesIn, loginConn')
      <4> SUFFICES ASSUME NEW j \in 1..Len(messagesIn),
                          loginConn'[messagesIn[j].client] # 0,
                          loginConn'[messagesIn[j].client] # messagesIn[j].conn
                   PROVE  \E k \in 1..(j-1) : LogoutAt(messagesIn, k, messagesIn[j].client)
        BY DEF LoginSeparated
      <4>1. messagesIn[j].client \in Clients
        <5>1. messagesIn[j] \in Message
          BY <1>0 DEF TypeOK
        <5> QED BY <5>1 DEF Message
      <4>2. CASE messagesIn[j].client = m.client
        <5>1. 1 \in 1..Len(messagesIn) /\ 1 < j /\ messagesIn[1].client = messagesIn[j].client
              /\ messagesIn[1].conn # messagesIn[j].conn
          BY <2>2, <3>1, <4>1, <4>2
        <5> QED BY <1>0, <5>1 DEF SessionsSeparated, QueueSeparated
      <4>3. CASE messagesIn[j].client # m.client
        BY <1>0, <3>1, <4>1, <4>3 DEF SessionsSeparated, LoginSeparated
      <4> QED BY <4>2, <4>3
    <3>3. ASSUME NEW w \in Clients, NEW c, Covered(messagesIn, loginConn, w, c)
          PROVE  Covered(messagesIn, loginConn', w, c)
      <4>1. CASE w = m.client
        <5>1. m.conn # c => \E k \in 1..Len(messagesIn) : LogoutAt(messagesIn, k, w)
          BY <2>2, <3>3, <4>1 DEF Covered
        <5> QED BY <3>1, <3>3, <4>1, <5>1 DEF Covered
      <4>2. CASE w # m.client
        BY <3>1, <3>3, <4>2 DEF Covered
      <4> QED BY <4>1, <4>2
    <3> QED BY <1>0, <2>1, <2>4, <3>2, <3>3 DEF SessionsSeparated, LogoutUnderWay
  <2> QED BY <2>1, <2>3, <2>4
<1>10. CASE SetClientType
  <2>1. /\ messagesIn # <<>> /\ Head(messagesIn).event = "login"
        /\ messagesIn' = Tail(messagesIn) /\ loginConn' = loginConn
        /\ UNCHANGED <<cur, state, lwsPc, lwsMsg>>
    BY <1>0, <1>10 DEF SetClientType, LoginAtHead, lwsVars
  <2> QED BY <1>0, <1>8, <2>1, StepPop
<1>11. CASE PerformLogout
  <2> DEFINE m == Head(messagesIn)
  <2>1. /\ messagesIn # <<>> /\ messagesIn' = Tail(messagesIn)
        /\ loginConn' = [loginConn EXCEPT ![m.client] = 0]
        /\ UNCHANGED <<cur, state, lwsPc, lwsMsg>>
    BY <1>11 DEF PerformLogout, lwsVars
  <2>2. \A w \in Clients : LoginAfterPop(messagesIn, loginConn, loginConn', w)
    BY <1>0, <1>8, <2>1 DEF LoginAfterPop, LogoutAt, TypeOK
  <2> QED BY <1>0, <2>1, <2>2, StepPop
<1>12. CASE PerformRequest
  <2>1. /\ messagesIn # <<>> /\ Head(messagesIn).event # "logout"
        /\ messagesIn' = Tail(messagesIn) /\ loginConn' = loginConn
        /\ UNCHANGED <<cur, state, lwsPc, lwsMsg>>
    BY <1>12 DEF PerformRequest, lwsVars
  <2> QED BY <1>0, <1>8, <2>1, StepPop
<1>13. ASSUME NEW w \in Clients, Callback(w) PROVE SessionsSeparated'
  BY <1>3, <1>4, <1>5, <1>13 DEF Callback
<1> QED BY <1>2, <1>6, <1>7, <1>9, <1>10, <1>11, <1>12, <1>13, NextCases

LEMMA StepIInv == IInv /\ [Next]_vars => IInv'
BY StepType, StepLoginAtHead, StepCallbackState, StepDispatchState, StepSessionsSeparated
   DEF IInv

LEMMA AlwaysIInv == Spec => []IInv
BY InitIInv, StepIInv, PTL DEF Spec

-----------------------------------------------------------------------------
(* The variables keep their types, for any number of addresses, users,     *)
(* connections and pending requests.                                       *)
THEOREM TypeCorrect == Spec => []TypeOK
<1>1. IInv => TypeOK
  BY DEF IInv
<1> QED BY AlwaysIInv, <1>1, PTL

(* The rights checkRights finds for a request belong to the connection the *)
(* request came from, however the library reuses addresses and whatever    *)
(* is queued: dispatchClientRequest with atLogout keeps sessions apart.    *)
THEOREM RightsCorrect == Spec => []RightsOfSender
<1>1. IInv => RightsOfSender
  <2> SUFFICES ASSUME IInv, mainPc = "dispatch", messagesIn # <<>>,
                      rights[Head(messagesIn).client] # {}
               PROVE  loginConn[Head(messagesIn).client] = Head(messagesIn).conn
    BY DEF RightsOfSender
  <2>1. TypeOK /\ DispatchState /\ LoginSeparated(messagesIn, loginConn)
    BY DEF IInv, SessionsSeparated
  <2>2. Head(messagesIn).client \in Clients
    BY <2>1, HeadTyped
  <2>3. Head(messagesIn) = messagesIn[1] /\ 1 \in 1..Len(messagesIn)
    BY <2>1, TailOfQueue DEF TypeOK
  <2>4. loginConn[Head(messagesIn).client] # 0
    BY <2>1, <2>2 DEF DispatchState
  <2> QED BY <2>1, <2>3, <2>4 DEF LoginSeparated
<1> QED BY AlwaysIInv, <1>1, PTL
-----------------------------------------------------------------------------
(* Sessions of connections that are gone. *)

Accounted(w) ==
    \/ state[w] = "open"
    \/ LogoutUnderWay(w)
    \/ \E i \in 1..Len(messagesIn) : LogoutAt(messagesIn, i, w)

(* A message of an address that is not open has a logout behind it: main   *)
(* may create the session of its sender.                                   *)
LEMMA SenderAccounted ==
    ASSUME IInv, messagesIn # <<>>, Head(messagesIn).event # "logout"
    PROVE  \/ state[Head(messagesIn).client] = "open"
           \/ LogoutUnderWay(Head(messagesIn).client)
           \/ \E i \in 2..Len(messagesIn) : LogoutAt(messagesIn, i, Head(messagesIn).client)
<1> DEFINE w == Head(messagesIn).client
<1>0. TypeOK /\ DispatchState /\ SessionsSeparated
  BY DEF IInv
<1>1. w \in Clients /\ Head(messagesIn) = messagesIn[1] /\ Len(messagesIn) \in Nat \ {0}
  BY <1>0, HeadTyped, TailOfQueue DEF TypeOK
<1>2. CASE state[w] # "open" /\ ~LogoutUnderWay(w)
  <2>1. Covered(messagesIn, loginConn, w, 0)
    BY <1>0, <1>1, <1>2 DEF SessionsSeparated
  <2>2. messagesIn[1].client = w /\ messagesIn[1].conn # 0 /\ 1 \in 1..Len(messagesIn)
    BY <1>0, <1>1 DEF DispatchState
  <2>3. PICK i \in 1..Len(messagesIn) : LogoutAt(messagesIn, i, w)
    BY <2>1, <2>2 DEF Covered
  <2>4. i # 1
    BY <1>1, <2>3 DEF LogoutAt
  <2> QED BY <2>3, <2>4
<1> QED BY <1>2

(* Taking the head of the queue, which is no logout of w. *)
LEMMA AccountedAfterPop ==
    ASSUME TypeOK, messagesIn # <<>>, messagesIn' = Tail(messagesIn),
           UNCHANGED <<state, lwsPc, lwsMsg>>, NEW w,
           \/ state[w] = "open"
           \/ LogoutUnderWay(w)
           \/ \E i \in 2..Len(messagesIn) : LogoutAt(messagesIn, i, w)
    PROVE  Accounted(w)'
<1>1. CASE state[w] = "open" \/ LogoutUnderWay(w)
  BY <1>1 DEF Accounted, LogoutUnderWay
<1>2. CASE \E i \in 2..Len(messagesIn) : LogoutAt(messagesIn, i, w)
  <2>1. messagesIn \in Seq(Message)
    BY DEF TypeOK
  <2>2. PICK i \in 2..Len(messagesIn) : LogoutAt(messagesIn, i, w)
    BY <1>2
  <2>3. i - 1 \in 1..Len(messagesIn') /\ messagesIn'[i-1] = messagesIn[i]
    BY <2>1, TailOfQueue
  <2> QED BY <2>2, <2>3 DEF Accounted, LogoutAt
<1> QED BY <1>1, <1>2

LEMMA StepAccounted ==
    ASSUME IInv, [Next]_vars, \A w \in known : Accounted(w)
    PROVE  \A w \in known' : Accounted(w)'
<1>0. TypeOK /\ LoginAtHead /\ CallbackState /\ known \subseteq Clients
  BY DEF IInv, TypeOK
<1>1. CASE UNCHANGED <<known, state, lwsPc, lwsMsg, messagesIn>>
  BY <1>1 DEF Accounted, LogoutUnderWay, LogoutAt
<1>2. CASE DispatchBegin \/ DispatchEnd \/ UNCHANGED vars
  BY <1>1, <1>2 DEF DispatchBegin, DispatchEnd, lwsVars, vars
<1>3. ASSUME NEW v \in Clients, Callback(v) PROVE \A w \in known' : Accounted(w)'
  <2>1. lwsPc = "service" /\ UNCHANGED <<messagesIn, known>>
    BY <1>3 DEF Callback, Established, Receive, PeerInitiatedClose, Closed, mainVars
  <2> SUFFICES ASSUME NEW w \in known PROVE Accounted(w)'
    BY <2>1
  <2>2. state[w] = "open" \/ \E i \in 1..Len(messagesIn) : LogoutAt(messagesIn, i, w)
    BY <2>1 DEF Accounted, LogoutUnderWay
  <2>3. CASE state[w] = "open"
    <3>1. CASE Established(v)
      BY <1>0, <2>3, <3>1 DEF Established, Accounted, TypeOK
    <3>2. CASE \E e \in Events \union {"login"}, u \in Users, tk \in Tokens : Receive(v, e, u, tk)
      BY <2>3, <3>2 DEF Receive, Accounted
    <3>3. CASE (PeerInitiatedClose(v) \/ Closed(v)) /\ v # w
      BY <1>0, <2>3, <3>3 DEF PeerInitiatedClose, Closed, Accounted, TypeOK
    <3>4. CASE (PeerInitiatedClose(v) \/ Closed(v)) /\ v = w
      <4>1. v \in clients
        BY <1>0, <2>3, <3>4 DEF CallbackState
      <4>2. LogoutUnderWay(w)'
        BY <3>4, <4>1 DEF PeerInitiatedClose, Closed, AtLogout, LogoutUnderWay
      <4> QED BY <4>2 DEF Accounted
    <3> QED BY <1>3, <3>1, <3>2, <3>3, <3>4 DEF Callback
  <2>4. CASE \E i \in 1..Len(messagesIn) : LogoutAt(messagesIn, i, w)
    BY <2>1, <2>4 DEF Accounted, LogoutAt
  <2> QED BY <2>2, <2>3, <2>4
<1>4. CASE PushInMessage
  <2>1. messagesIn \in Seq(Message) /\ lwsMsg \in Message
    BY <1>0 DEF TypeOK
  <2>2. messagesIn' = Append(messagesIn, lwsMsg) /\ UNCHANGED <<known, state>>
    BY <1>4 DEF PushInMessage, mainVars
  <2> SUFFICES ASSUME NEW w \in known PROVE Accounted(w)'
    BY <2>2
  <2>3. CASE state[w] = "open"
    BY <2>2, <2>3 DEF Accounted
  <2>4. CASE LogoutUnderWay(w)
    <3>1. /\ LogoutAt(messagesIn', Len(messagesIn) + 1, w)
          /\ Len(messagesIn) + 1 \in 1..Len(messagesIn')
      BY <2>1, <2>2, <2>4, AppendToQueue DEF LogoutUnderWay, LogoutAt
    <3> QED BY <3>1 DEF Accounted, LogoutAt
  <2>5. CASE \E i \in 1..Len(messagesIn) : LogoutAt(messagesIn, i, w)
    <3>1. PICK i \in 1..Len(messagesIn) : LogoutAt(messagesIn, i, w)
      BY <2>5
    <3>2. i \in 1..Len(messagesIn') /\ messagesIn'[i] = messagesIn[i]
      BY <2>1, <2>2, AppendToQueue
    <3> QED BY <3>1, <3>2 DEF Accounted, LogoutAt
  <2> QED BY <2>3, <2>4, <2>5 DEF Accounted
<1>5. CASE EraseClient
  BY <1>5 DEF EraseClient, mainVars, Accounted, LogoutUnderWay, LogoutAt
<1>6. ASSUME NEW w \in known, messagesIn # <<>>, messagesIn' = Tail(messagesIn),
             UNCHANGED <<state, lwsPc, lwsMsg>>, ~LogoutAt(messagesIn, 1, w)
      PROVE  Accounted(w)'
  <2>1. \/ state[w] = "open"
        \/ LogoutUnderWay(w)
        \/ \E i \in 2..Len(messagesIn) : LogoutAt(messagesIn, i, w)
    <3>1. CASE \E i \in 1..Len(messagesIn) : LogoutAt(messagesIn, i, w)
      <4>1. PICK i \in 1..Len(messagesIn) : LogoutAt(messagesIn, i, w)
        BY <3>1
      <4>2. i # 1 /\ Len(messagesIn) \in Nat
        BY <1>0, <1>6, <4>1, TailOfQueue DEF TypeOK
      <4> QED BY <4>1, <4>2
    <3> QED BY <3>1 DEF Accounted
  <2> QED BY <1>0, <1>6, <2>1, AccountedAfterPop
<1>7. messagesIn # <<>> => Head(messagesIn) = messagesIn[1]
  BY <1>0, TailOfQueue DEF TypeOK
<1>8. CASE PerformLogin \/ PerformRequest \/ SetClientType
  <2> DEFINE m == Head(messagesIn)
  <2>1. /\ messagesIn # <<>> /\ m.event # "logout"
        /\ known' \subseteq known \union {m.client}
        /\ messagesIn' = messagesIn \/ messagesIn' = Tail(messagesIn)
        /\ UNCHANGED <<state, lwsPc, lwsMsg>>
    BY <1>0, <1>8 DEF PerformLogin, PerformRequest, SetClientType, LoginAtHead, lwsVars
  <2> SUFFICES ASSUME NEW w \in known' PROVE Accounted(w)'
    OBVIOUS
  <2>2. CASE messagesIn' = Tail(messagesIn) /\ w \in known
    BY <1>6, <1>7, <2>1, <2>2 DEF LogoutAt
  <2>3. CASE messagesIn' = Tail(messagesIn) /\ w = m.client
    BY <1>0, <2>1, <2>3, SenderAccounted, AccountedAfterPop
  <2>4. CASE messagesIn' = messagesIn
    <3>1. Accounted(w)
      BY <2>1, SenderAccounted DEF Accounted
    <3> QED BY <2>1, <2>4, <3>1 DEF Accounted, LogoutUnderWay, LogoutAt
  <2> QED BY <2>1, <2>2, <2>3, <2>4
<1>9. CASE PerformLogout
  <2> DEFINE m == Head(messagesIn)
  <2>1. /\ messagesIn # <<>> /\ messagesIn' = Tail(messagesIn)
        /\ known' = known \ {m.client} /\ UNCHANGED <<state, lwsPc, lwsMsg>>
    BY <1>9 DEF PerformLogout, lwsVars
  <2>2. \A w \in known' : w \in known /\ ~LogoutAt(messagesIn, 1, w)
    BY <1>7, <2>1 DEF LogoutAt
  <2> QED BY <1>6, <2>1, <2>2
<1> QED BY <1>2, <1>3, <1>4, <1>5, <1>8, <1>9, NextCases

(* Every entry of wsClients belongs to an open connection or has its logout *)
(* on the way, whatever the log lines and handlers of requests create: the  *)
(* logout is pushed behind all requests of its connection.                  *)
THEOREM SessionsAccounted == Spec => []SessionHasConnectionOrLogout
<1> DEFINE Inv == IInv /\ \A w \in known : Accounted(w)
<1>1. Init => Inv
  BY InitIInv DEF Init, Spec
<1>2. Inv /\ [Next]_vars => Inv'
  BY StepIInv, StepAccounted
<1>3. Inv => SessionHasConnectionOrLogout
  BY DEF Accounted, SessionHasConnectionOrLogout, LogoutUnderWay, LogoutAt
<1> QED BY <1>1, <1>2, <1>3, PTL DEF Spec

-----------------------------------------------------------------------------
(* The number of a connection.  The requests and the login that carry it   *)
(* are those of one address, however often the address was used before.    *)

(* A number belongs to one address: the one its connection was made at.    *)
OwnedBy(owner) ==
    /\ \A w \in Clients : cur[w] # 0 => owner[cur[w]] = w
    /\ \A w \in Clients : loginConn[w] # 0 => owner[loginConn[w]] = w
    /\ \A i \in 1..Len(messagesIn) : owner[messagesIn[i].conn] = messagesIn[i].client

NumbersInUse ==
    /\ \A w \in Clients : cur[w] <= nextConn /\ loginConn[w] <= nextConn
    /\ \A i \in 1..Len(messagesIn) : messagesIn[i].conn <= nextConn

ConnInv == NumbersInUse /\ \E owner \in [1..MaxConn -> Clients] : OwnedBy(owner)

(* Where the messages and the logins of the next state come from. *)
LEMMA QueueOrigin ==
    ASSUME TypeOK, LoginAtHead, [Next]_vars, NEW i \in 1..Len(messagesIn')
    PROVE  \/ \E j \in 1..Len(messagesIn) : messagesIn'[i] = messagesIn[j]
           \/ PushInMessage /\ messagesIn'[i] = lwsMsg
<1>0. messagesIn \in Seq(Message) /\ lwsMsg \in Message
  BY DEF TypeOK
<1>1. CASE messagesIn' = messagesIn
  BY <1>1
<1>2. CASE messagesIn # <<>> /\ messagesIn' = Tail(messagesIn)
  <2>1. i + 1 \in 1..Len(messagesIn) /\ messagesIn'[i] = messagesIn[i + 1]
    BY <1>0, <1>2, TailOfQueue
  <2> QED BY <2>1
<1>3. CASE PushInMessage
  <2>1. messagesIn' = Append(messagesIn, lwsMsg)
    BY <1>3 DEF PushInMessage
  <2>2. i \in 1..Len(messagesIn) \/ i = Len(messagesIn) + 1
    BY <1>0, <2>1, AppendToQueue
  <2> QED BY <1>0, <1>3, <2>1, <2>2, AppendToQueue
<1>4. CASE PerformLogin \/ SetClientType \/ PerformLogout \/ PerformRequest
  <2>1. messagesIn # <<>>
    BY <1>4 DEF PerformLogin, SetClientType, PerformLogout, PerformRequest, LoginAtHead
  <2>2. messagesIn' = messagesIn \/ messagesIn' = Tail(messagesIn)
    BY <1>4 DEF PerformLogin, SetClientType, PerformLogout, PerformRequest
  <2> QED BY <1>1, <1>2, <2>1, <2>2
<1>5. CASE \E w \in Clients : Callback(w)
  BY <1>1, <1>5 DEF Callback, Established, Receive, PeerInitiatedClose, Closed
<1>6. CASE EraseClient \/ DispatchBegin \/ DispatchEnd \/ UNCHANGED vars
  BY <1>1, <1>6 DEF EraseClient, DispatchBegin, DispatchEnd, vars
<1> QED BY <1>3, <1>4, <1>5, <1>6, NextCases

LEMMA LoginOrigin ==
    ASSUME TypeOK, [Next]_vars, NEW w \in Clients
    PROVE  \/ loginConn'[w] = loginConn[w]
           \/ loginConn'[w] = 0
           \/ /\ messagesIn # <<>> /\ w = Head(messagesIn).client
              /\ loginConn'[w] = Head(messagesIn).conn
<1>1. CASE PerformLogin
  BY <1>1 DEF PerformLogin, TypeOK
<1>2. CASE PerformLogout
  BY <1>2 DEF PerformLogout, TypeOK
<1>3. CASE \E v \in Clients : Callback(v)
  BY <1>3 DEF Callback, Established, Receive, PeerInitiatedClose, Closed, mainVars
<1>4. CASE \/ PushInMessage \/ EraseClient \/ DispatchBegin \/ DispatchEnd \/ SetClientType
           \/ PerformRequest \/ UNCHANGED vars
  BY <1>4 DEF PushInMessage, EraseClient, DispatchBegin, DispatchEnd, SetClientType,
              PerformRequest, mainVars, vars
<1> QED BY <1>1, <1>2, <1>3, <1>4, NextCases

LEMMA CurOrigin ==
    ASSUME TypeOK, [Next]_vars
    PROVE  \/ UNCHANGED <<cur, nextConn>>
           \/ \E w \in Clients : Established(w)
<1>1. CASE \E w \in Clients : Callback(w)
  BY <1>1 DEF Callback, Receive, PeerInitiatedClose, Closed
<1>2. CASE ~\E w \in Clients : Callback(w)
  BY <1>2, NextCases DEF PushInMessage, EraseClient, DispatchBegin, DispatchEnd,
              SetClientType, PerformLogin, PerformLogout, PerformRequest, lwsVars, vars
<1> QED BY <1>1, <1>2

(* The numbers of the next state belong to the same addresses; a new one   *)
(* belongs to the address it was established at.                           *)
LEMMA StepConnInv == IInv /\ ConnInv /\ [Next]_vars => ConnInv'
<1> SUFFICES ASSUME IInv, ConnInv, [Next]_vars PROVE ConnInv'
  OBVIOUS
<1>0. /\ TypeOK /\ LoginAtHead /\ CallbackState /\ DispatchState
      /\ nextConn \in Nat /\ MaxConn \in Nat /\ nextConn <= MaxConn
      /\ \A w \in Clients : cur[w] \in Nat /\ loginConn[w] \in Nat
  BY ConstantsAssumption DEF IInv, TypeOK
<1>1. PICK owner \in [1..MaxConn -> Clients] : OwnedBy(owner)
  BY DEF ConnInv
<1>2. NumbersInUse
  BY DEF ConnInv
(* Messages and logins in the next state, for this owner. *)
<1>3. ASSUME NEW i \in 1..Len(messagesIn')
      PROVE  /\ messagesIn'[i].conn \in 1..nextConn
             /\ owner[messagesIn'[i].conn] = messagesIn'[i].client
  <2>1. ASSUME NEW j \in 1..Len(messagesIn), messagesIn'[i] = messagesIn[j]
        PROVE  /\ messagesIn'[i].conn \in 1..nextConn
               /\ owner[messagesIn'[i].conn] = messagesIn'[i].client
    <3>1. messagesIn[j] \in Message
      BY <1>0 DEF TypeOK
    <3>2. messagesIn[j].conn \in Nat /\ messagesIn[j].conn # 0
      BY <1>0, <3>1 DEF Message, DispatchState
    <3> QED BY <1>0, <1>1, <1>2, <2>1, <3>2 DEF NumbersInUse, OwnedBy
  <2>2. CASE PushInMessage /\ messagesIn'[i] = lwsMsg
    <3>1. lwsPc = "push"
      BY <2>2 DEF PushInMessage
    <3>2. /\ lwsMsg.client \in Clients /\ lwsMsg.conn = cur[lwsMsg.client]
          /\ lwsMsg.conn # 0
      BY <1>0, <3>1 DEF CallbackState, TypeOK, Message
    <3> QED BY <1>0, <1>1, <1>2, <2>2, <3>2 DEF NumbersInUse, OwnedBy
  <2> QED BY <1>0, <2>1, <2>2, QueueOrigin
<1>4. ASSUME NEW w \in Clients, loginConn'[w] # 0
      PROVE  loginConn'[w] \in 1..nextConn /\ owner[loginConn'[w]] = w
  <2>1. CASE loginConn'[w] = loginConn[w]
    BY <1>0, <1>1, <1>2, <1>4, <2>1 DEF NumbersInUse, OwnedBy
  <2>2. CASE messagesIn # <<>> /\ w = Head(messagesIn).client
             /\ loginConn'[w] = Head(messagesIn).conn
    <3>1. Head(messagesIn) = messagesIn[1] /\ 1 \in 1..Len(messagesIn)
      BY <1>0, <2>2, TailOfQueue DEF TypeOK
    <3>2. Head(messagesIn).conn \in Nat
      BY <1>0, <2>2, HeadTyped
    <3> QED BY <1>0, <1>1, <1>2, <1>4, <2>2, <3>1, <3>2 DEF NumbersInUse, OwnedBy
  <2> QED BY <1>0, <1>4, <2>1, <2>2, LoginOrigin
<1>5. CASE UNCHANGED <<cur, nextConn>>
  <2>1. OwnedBy(owner)'
    <3>1. \A w \in Clients : cur'[w] # 0 => owner[cur'[w]] = w
      BY <1>1, <1>5 DEF OwnedBy
    <3> QED BY <1>3, <1>4, <3>1, Zenon DEF OwnedBy
  <2>2. NumbersInUse'
    <3>1. \A w \in Clients : cur'[w] <= nextConn' /\ loginConn'[w] <= nextConn'
      BY <1>0, <1>2, <1>4, <1>5 DEF NumbersInUse
    <3>2. \A i \in 1..Len(messagesIn') : messagesIn'[i].conn <= nextConn'
      BY <1>3, <1>5
    <3> QED BY <3>1, <3>2 DEF NumbersInUse
  <2> QED BY <2>1, <2>2 DEF ConnInv
<1>6. ASSUME NEW v \in Clients, Established(v) PROVE ConnInv'
  <2>1. /\ nextConn' = nextConn + 1 /\ nextConn + 1 \in 1..MaxConn
        /\ \A w \in Clients : cur'[w] = IF w = v THEN nextConn + 1 ELSE cur[w]
    BY <1>0, <1>6 DEF Established, TypeOK
  <2>2. PICK new \in [1..MaxConn -> Clients] :
           new[nextConn + 1] = v /\ \A c \in 1..nextConn : new[c] = owner[c]
    <3> DEFINE o == [owner EXCEPT ![nextConn + 1] = v]
    <3>1. /\ o \in [1..MaxConn -> Clients] /\ o[nextConn + 1] = v
          /\ \A c \in 1..nextConn : o[c] = owner[c]
      BY <1>0, <1>1, <2>1
    <3> HIDE DEF o
    <3> QED BY <3>1
  <2>3. OwnedBy(new)'
    <3>1. ASSUME NEW w \in Clients, cur'[w] # 0 PROVE new[cur'[w]] = w
      <4>1. CASE w = v
        BY <2>1, <2>2, <4>1
      <4>2. CASE w # v
        <5>1. cur'[w] = cur[w] /\ cur[w] \in 1..nextConn
          BY <1>0, <1>2, <2>1, <3>1, <4>2 DEF NumbersInUse
        <5> QED BY <1>1, <2>2, <3>1, <5>1 DEF OwnedBy
      <4> QED BY <4>1, <4>2
    <3>2. ASSUME NEW w \in Clients, loginConn'[w] # 0 PROVE new[loginConn'[w]] = w
      BY <1>4, <2>2, <3>2
    <3>3. ASSUME NEW i \in 1..Len(messagesIn')
          PROVE  new[messagesIn'[i].conn] = messagesIn'[i].client
      BY <1>3, <2>2
    <3> QED BY <3>1, <3>2, <3>3, Zenon DEF OwnedBy
  <2>4. NumbersInUse'
    <3>1. \A w \in Clients : cur'[w] <= nextConn' /\ loginConn'[w] <= nextConn'
      <4> SUFFICES ASSUME NEW w \in Clients
                   PROVE  cur'[w] <= nextConn' /\ loginConn'[w] <= nextConn'
        OBVIOUS
      <4>1. cur[w] <= nextConn
        BY <1>2 DEF NumbersInUse
      <4>2. loginConn'[w] = 0 \/ loginConn'[w] \in 1..nextConn
        BY <1>4
      <4> QED BY <1>0, <2>1, <4>1, <4>2
    <3>2. \A i \in 1..Len(messagesIn') : messagesIn'[i].conn <= nextConn'
      BY <1>0, <1>3, <2>1
    <3> QED BY <3>1, <3>2 DEF NumbersInUse
  <2> QED BY <2>2, <2>3, <2>4 DEF ConnInv
<1> QED BY <1>0, <1>5, <1>6, CurOrigin

LEMMA InitConnInv == Init => ConnInv
<1> SUFFICES ASSUME Init PROVE ConnInv
  OBVIOUS
<1>1. PICK v \in Clients : TRUE
  BY ConstantsAssumption
<1>2. [c \in 1..MaxConn |-> v] \in [1..MaxConn -> Clients]
  OBVIOUS
<1>3. OwnedBy([c \in 1..MaxConn |-> v]) /\ NumbersInUse
  BY DEF Init, OwnedBy, NumbersInUse
<1> QED BY <1>2, <1>3, Zenon DEF ConnInv

-----------------------------------------------------------------------------
(* The requests of a connection in the queue. *)

LEMMA RequestOfType ==
    ASSUME NEW m \in Message, NEW c
    PROVE  /\ SessionRequest(m) \in SessionRequests
           /\ RequestOf(m, c) \in Seq(SessionRequests)
<1>1. SessionRequest(m) \in SessionRequests
  BY DEF SessionRequest, SessionRequests, Message
<1> QED BY <1>1 DEF RequestOf

LEMMA RequestsOfType ==
    ASSUME NEW q \in Seq(Message), NEW c
    PROVE  /\ [i \in 1..Len(q) |-> RequestOf(q[i], c)] \in Seq(Seq(SessionRequests))
           /\ RequestsOf(q, c) \in Seq(SessionRequests)
<1> DEFINE cut == [i \in 1..Len(q) |-> RequestOf(q[i], c)]
<1>1. \A i \in 1..Len(q) : RequestOf(q[i], c) \in Seq(SessionRequests)
  BY RequestOfType
<1>2. cut \in [1..Len(q) -> Seq(SessionRequests)] /\ Len(q) \in Nat
  BY <1>1
<1>3. cut \in Seq(Seq(SessionRequests))
  <2> HIDE DEF cut
  <2> QED BY <1>2
<1> QED BY <1>3, FlattenType, Zenon DEF RequestsOf

(* A message more in the queue is a request more of its connection. *)
LEMMA RequestsOfAppend ==
    ASSUME NEW q \in Seq(Message), NEW m \in Message, NEW c
    PROVE  RequestsOf(Append(q, m), c) =
              IF m.conn = c THEN Append(RequestsOf(q, c), SessionRequest(m))
              ELSE RequestsOf(q, c)
<1> DEFINE more == Append(q, m)
           s == [i \in 1..Len(more) |-> RequestOf(more[i], c)]
           t == [i \in 1..Len(q) |-> RequestOf(q[i], c)]
           r == RequestOf(m, c)
<1>1. /\ more \in Seq(Message) /\ Len(more) = Len(q) + 1 /\ Len(q) \in Nat
      /\ \A i \in 1..Len(q) : more[i] = q[i]
      /\ more[Len(q) + 1] = m
  BY AppendToQueue
<1>2. s \in Seq(Seq(SessionRequests)) /\ t \in Seq(Seq(SessionRequests))
      /\ r \in Seq(SessionRequests)
  <2> HIDE DEF more
  <2> QED BY <1>1, RequestsOfType, RequestOfType
<1>3. Len(s) = Len(q) + 1 /\ Len(t) = Len(q)
  <2>1. DOMAIN s = 1..Len(q) + 1 /\ DOMAIN t = 1..Len(q)
    BY <1>1
  <2> HIDE DEF s, t
  <2> QED BY <1>1, <1>2, <2>1, LenProperties
<1>4. (\A i \in 1..Len(q) : s[i] = t[i]) /\ s[Len(q) + 1] = r
  BY <1>1
<1>5. s = Append(t, r)
  <2> DEFINE u == Append(t, r)
  <2> HIDE DEF s, t, r, more
  <2>1. /\ u \in Seq(Seq(SessionRequests)) /\ Len(u) = Len(t) + 1
        /\ \A i \in 1..Len(t) : u[i] = t[i]
        /\ u[Len(t) + 1] = r
    BY <1>2, AppendProperties
  <2> HIDE DEF u
  <2>2. \A i \in 1..Len(s) : s[i] = u[i]
    <3>1. \A i \in 1..Len(s) : i \in 1..Len(q) \/ i = Len(q) + 1
      BY <1>1, <1>3
    <3> QED BY <1>3, <1>4, <2>1, <3>1
  <2>3. s = u
    BY <1>2, <1>3, <2>1, <2>2, SeqEqual
  <2> QED BY <2>3 DEF u
<1>6. FlattenSeq(Append(t, r)) = FlattenSeq(t) \o r /\ FlattenSeq(t) \in Seq(SessionRequests)
  <2> HIDE DEF t, r
  <2> QED BY <1>2, FlattenAppend, FlattenType
<1>7. RequestsOf(more, c) = RequestsOf(q, c) \o r /\ RequestsOf(q, c) \in Seq(SessionRequests)
  BY <1>5, <1>6, Zenon DEF RequestsOf
<1> HIDE DEF more
<1>8. CASE m.conn = c
  <2>1. r = <<SessionRequest(m)>> /\ SessionRequest(m) \in SessionRequests
    BY <1>8, RequestOfType DEF RequestOf
  <2> DEFINE a == RequestsOf(q, c)
             e == SessionRequest(m)
  <2>2. a \in Seq(SessionRequests) /\ e \in SessionRequests
    BY <1>7, <2>1
  <2> HIDE DEF a, e
  <2>3. Append(a, e) = a \o <<e>>
    BY <2>2, AppendIsConcat
  <2> QED BY <1>7, <1>8, <2>1, <2>3, Zenon DEF a, e, more
<1>9. CASE m.conn # c
  <2>1. r = <<>>
    BY <1>9 DEF RequestOf
  <2>2. RequestsOf(q, c) \o <<>> = RequestsOf(q, c)
    BY <1>7, ConcatEmptySeq
  <2> QED BY <1>7, <1>9, <2>1, <2>2, Zenon DEF more
<1> QED BY <1>8, <1>9

(* The head of the queue is the first request of its connection. *)
LEMMA RequestsOfTail ==
    ASSUME NEW q \in Seq(Message), q # <<>>, NEW c
    PROVE  IF Head(q).conn = c
           THEN /\ RequestsOf(q, c) # <<>>
                /\ Head(RequestsOf(q, c)) = SessionRequest(Head(q))
                /\ Tail(RequestsOf(q, c)) = RequestsOf(Tail(q), c)
           ELSE RequestsOf(q, c) = RequestsOf(Tail(q), c)
<1> DEFINE s == [i \in 1..Len(q) |-> RequestOf(q[i], c)]
           rest == Tail(q)
           t == [i \in 1..Len(rest) |-> RequestOf(rest[i], c)]
<1>1. /\ rest \in Seq(Message) /\ Len(q) \in Nat \ {0} /\ Len(rest) = Len(q) - 1
      /\ \A i \in 1..(Len(q) - 1) : rest[i] = q[i + 1]
      /\ Head(q) = q[1] /\ q[1] \in Message
  BY TailOfQueue
<1>2. s \in Seq(Seq(SessionRequests)) /\ t \in Seq(Seq(SessionRequests))
  <2> HIDE DEF rest
  <2> QED BY <1>1, RequestsOfType
<1>3. Len(s) = Len(q) /\ Len(t) = Len(q) - 1
  <2>1. DOMAIN s = 1..Len(q) /\ DOMAIN t = 1..Len(q) - 1
    BY <1>1
  <2>2. Len(q) \in Nat /\ Len(q) - 1 \in Nat
    BY <1>1
  <2> HIDE DEF s, t
  <2> QED BY <1>2, <2>1, <2>2, LenProperties
<1>4. s[1] = RequestOf(Head(q), c) /\ \A i \in 1..(Len(q) - 1) : t[i] = s[i + 1]
  BY <1>1
<1>5. s # <<>> /\ Head(s) = RequestOf(Head(q), c) /\ Tail(s) = t
  <2> HIDE DEF s, t, rest
  <2>1. s # <<>> /\ Head(s) = s[1]
    BY <1>1, <1>2, <1>3
  <2> DEFINE u == Tail(s)
  <2>2. /\ u \in Seq(Seq(SessionRequests)) /\ Len(u) = Len(s) - 1
        /\ \A i \in 1..Len(u) : u[i] = s[i + 1]
    BY <1>2, <2>1, HeadTailProperties
  <2> HIDE DEF u
  <2>3. u = t
    BY <1>2, <1>3, <1>4, <2>2, SeqEqual
  <2> QED BY <1>4, <2>1, <2>3 DEF u
<1>6. FlattenSeq(s) = RequestOf(Head(q), c) \o FlattenSeq(t)
  <2> HIDE DEF s, t
  <2> QED BY <1>2, <1>5, FlattenTail
<1>7. /\ RequestsOf(q, c) = RequestOf(Head(q), c) \o RequestsOf(rest, c)
      /\ RequestsOf(rest, c) \in Seq(SessionRequests)
  <2>1. RequestsOf(q, c) = RequestOf(Head(q), c) \o RequestsOf(rest, c)
    BY <1>6, Zenon DEF RequestsOf
  <2> HIDE DEF rest
  <2> QED BY <1>1, <2>1, RequestsOfType
<1> DEFINE a == RequestsOf(rest, c)
           e == SessionRequest(Head(q))
<1>8. CASE Head(q).conn = c
  <2>1. RequestsOf(q, c) = <<e>> \o a /\ e \in SessionRequests
    BY <1>1, <1>7, <1>8, RequestOfType DEF RequestOf
  <2>2. a \in Seq(SessionRequests)
    BY <1>7
  <2> HIDE DEF a, e
  <2>3. <<e>> \o a # <<>> /\ Head(<<e>> \o a) = e /\ Tail(<<e>> \o a) = a
    <3>1. <<>> \in Seq(SessionRequests)
      OBVIOUS
    <3>2. <<e>> \in Seq(SessionRequests) /\ Len(<<e>>) = 1 /\ <<e>>[1] = e
      BY <2>1
    <3> DEFINE b == <<e>> \o a
    <3>3. /\ b \in Seq(SessionRequests) /\ Len(b) = 1 + Len(a) /\ Len(a) \in Nat
          /\ b[1] = e /\ \A i \in 1..Len(a) : b[i + 1] = a[i]
      BY <2>2, <3>2, ConcatProperties
    <3> HIDE DEF b
    <3>4. b # <<>> /\ Head(b) = e
      BY <3>3
    <3>5. Tail(b) \in Seq(SessionRequests) /\ Len(Tail(b)) = Len(a)
          /\ \A i \in 1..Len(a) : Tail(b)[i] = a[i]
      BY <3>3, <3>4, HeadTailProperties
    <3>6. Tail(b) = a
      BY <2>2, <3>5, SeqEqual
    <3> QED BY <3>4, <3>6 DEF b
  <2> QED BY <1>8, <2>1, <2>3 DEF a, e
<1>9. CASE Head(q).conn # c
  <2>1. RequestOf(Head(q), c) = <<>>
    BY <1>9 DEF RequestOf
  <2>2. <<>> \o RequestsOf(rest, c) = RequestsOf(rest, c)
    BY <1>7, ConcatEmptySeq
  <2> QED BY <1>7, <1>9, <2>1, <2>2
<1> QED BY <1>8, <1>9

-----------------------------------------------------------------------------
(* The sessions: each step of the two threads is a step of one session or   *)
(* leaves all of them as they are.                                         *)

RInv == IInv /\ ConnInv

LEMMA RInvFacts ==
    ASSUME RInv
    PROVE  /\ TypeOK /\ LoginAtHead /\ CallbackState /\ DispatchState
           /\ LoginSeparated(messagesIn, loginConn) /\ NumbersInUse
           /\ nextConn \in Nat /\ MaxConn \in Nat /\ nextConn <= MaxConn
           /\ \A w \in Clients : cur[w] \in Nat /\ loginConn[w] \in Nat
<1>1. TypeOK /\ LoginAtHead /\ CallbackState /\ DispatchState /\ SessionsSeparated /\ NumbersInUse
  BY DEF RInv, IInv, ConnInv
<1> QED BY <1>1, ConstantsAssumption DEF TypeOK, SessionsSeparated

(* Two addresses never have the same last connection. *)
LEMMA OneAddress ==
    ASSUME RInv, NEW v \in Clients, NEW w \in Clients, cur[v] = cur[w], cur[w] # 0
    PROVE  v = w
<1>1. PICK owner \in [1..MaxConn -> Clients] : OwnedBy(owner)
  BY DEF RInv, ConnInv
<1> QED BY <1>1 DEF OwnedBy

(* The head of the queue: its connection, and whose rights it is checked    *)
(* against.                                                                *)
LEMMA HeadOfConn ==
    ASSUME RInv, messagesIn # <<>>
    PROVE  LET m == Head(messagesIn)
           IN /\ m.conn \in 1..MaxConn
              /\ loginConn[m.client] \in {0, m.conn}
              /\ \A x \in Clients : loginConn[x] = m.conn => x = m.client
              /\ SessionRights[m.conn] = rights[m.client]
<1> DEFINE m == Head(messagesIn)
           c == m.conn
<1>1. TypeOK /\ DispatchState /\ LoginSeparated(messagesIn, loginConn) /\ NumbersInUse
      /\ nextConn \in Nat /\ MaxConn \in Nat /\ nextConn <= MaxConn
  BY RInvFacts
<1>2. m.client \in Clients /\ c \in Nat
  BY <1>1, HeadTyped
<1>3. m = messagesIn[1] /\ 1 \in 1..Len(messagesIn)
  BY <1>1, TailOfQueue DEF TypeOK
<1>4. c \in 1..MaxConn
  BY <1>1, <1>2, <1>3 DEF DispatchState, NumbersInUse
<1>5. loginConn[m.client] \in {0, c}
  BY <1>1, <1>3 DEF LoginSeparated
<1>6. PICK owner \in [1..MaxConn -> Clients] : OwnedBy(owner)
  BY DEF RInv, ConnInv
<1>7. \A x \in Clients : loginConn[x] = c => x = m.client
  BY <1>3, <1>4, <1>6 DEF OwnedBy
<1>8. SessionRights[c] = rights[m.client]
  <2> DEFINE here == {x \in Clients : loginConn[x] = c}
  <2>1. SessionRights[c] = UNION {rights[w] : w \in here}
    BY <1>4 DEF SessionRights
  <2>2. CASE loginConn[m.client] = c
    <3>1. here = {m.client}
      BY <1>2, <1>7, <2>2
    <3> QED BY <2>1, <3>1
  <2>3. CASE loginConn[m.client] = 0
    <3>1. here = {} /\ rights[m.client] = {}
      BY <1>1, <1>2, <1>4, <1>7, <2>3 DEF DispatchState
    <3> QED BY <2>1, <3>1
  <2> QED BY <1>5, <2>2, <2>3
<1> QED BY <1>4, <1>5, <1>7, <1>8

LEMMA SameQueue ==
    ASSUME Unhandled' = Unhandled
    PROVE  SessionPending' = SessionPending
BY DEF SessionPending

LEMMA SameConnections ==
    ASSUME UNCHANGED <<cur, nextConn>>,
           \A w \in Clients : state'[w] = "open" <=> state[w] = "open"
    PROVE  SessionPhase' = SessionPhase
<1>1. \A c \in 1..MaxConn : (\E w \in Clients : cur'[w] = c /\ state'[w] = "open")
                        <=> (\E w \in Clients : cur[w] = c /\ state[w] = "open")
  OBVIOUS
<1> QED BY <1>1 DEF SessionPhase

LEMMA SameRights ==
    ASSUME UNCHANGED <<rights, loginConn>>
    PROVE  SessionRights' = SessionRights
BY DEF SessionRights

(* Main takes the head of the queue: it was the first request of its        *)
(* connection, and the only one that is gone.                              *)
LEMMA TakeHead ==
    ASSUME RInv, mainPc = "dispatch", messagesIn # <<>>, Unhandled' = Tail(messagesIn)
    PROVE  LET m == Head(messagesIn)
           IN /\ SessionPending[m.conn] # <<>>
              /\ Head(SessionPending[m.conn]) = SessionRequest(m)
              /\ SessionPending' = [SessionPending EXCEPT ![m.conn] = Tail(@)]
<1> DEFINE c == Head(messagesIn).conn
<1>1. messagesIn \in Seq(Message) /\ c \in 1..MaxConn
  BY RInvFacts, HeadOfConn DEF TypeOK
<1>2. Unhandled = messagesIn
  BY DEF Unhandled
<1>3. \A d \in 1..MaxConn : SessionPending[d] = RequestsOf(messagesIn, d)
                            /\ SessionPending'[d] = RequestsOf(Tail(messagesIn), d)
  BY <1>2 DEF SessionPending
<1>4. /\ SessionPending[c] # <<>>
      /\ Head(SessionPending[c]) = SessionRequest(Head(messagesIn))
      /\ SessionPending'[c] = Tail(SessionPending[c])
  BY <1>1, <1>3, RequestsOfTail
<1>5. \A d \in 1..MaxConn : d # c => SessionPending'[d] = SessionPending[d]
  BY <1>1, <1>3, RequestsOfTail
<1>6. /\ SessionPending = [d \in 1..MaxConn |-> SessionPending[d]]
      /\ SessionPending' = [d \in 1..MaxConn |-> SessionPending'[d]]
  BY DEF SessionPending
<1>7. SessionPending' = [SessionPending EXCEPT ![c] = Tail(@)]
  BY <1>1, <1>4, <1>5, <1>6
<1> QED BY <1>4, <1>7

-----------------------------------------------------------------------------
(* One lemma for each kind of step. *)

Step == Sessions!SessionNext \/ UNCHANGED Sessions!svars

LEMMA StutterStep ==
    ASSUME SessionPhase' = SessionPhase, SessionPending' = SessionPending,
           SessionRights' = SessionRights, decided' = decided
    PROVE  Step
BY DEF Step, Sessions!svars

LEMMA EstablishedStep ==
    ASSUME RInv, NEW w \in Clients, Established(w)
    PROVE  Step
<1> DEFINE c == nextConn + 1
<1>1. /\ TypeOK /\ NumbersInUse
      /\ nextConn \in Nat /\ MaxConn \in Nat
      /\ \A v \in Clients : cur[v] \in Nat
  BY RInvFacts
<1>2. /\ nextConn < MaxConn /\ state[w] = "none" /\ nextConn' = c
      /\ \A v \in Clients : cur'[v] = IF v = w THEN c ELSE cur[v]
      /\ \A v \in Clients : state'[v] = IF v = w THEN "open" ELSE state[v]
  BY <1>1 DEF Established, TypeOK
<1>3. c \in 1..MaxConn
  BY <1>1, <1>2
<1>4. SessionPhase[c] = "new" /\ SessionPhase'[c] = "open"
  <2>1. c > nextConn /\ ~(c > nextConn')
    BY <1>1, <1>2
  <2>2. \E v \in Clients : cur'[v] = c /\ state'[v] = "open"
    BY <1>2
  <2> QED BY <1>3, <2>1, <2>2 DEF SessionPhase
<1>5. ASSUME NEW d \in 1..MaxConn, d # c PROVE SessionPhase'[d] = SessionPhase[d]
  <2>1. d > nextConn <=> d > nextConn'
    BY <1>1, <1>2, <1>5
  <2>2. (\E v \in Clients : cur'[v] = d /\ state'[v] = "open")
          <=> (\E v \in Clients : cur[v] = d /\ state[v] = "open")
    BY <1>2, <1>5
  <2> QED BY <2>1, <2>2 DEF SessionPhase
<1>6. SessionPhase' = [SessionPhase EXCEPT ![c] = "open"]
  <2>1. /\ SessionPhase = [d \in 1..MaxConn |-> SessionPhase[d]]
        /\ SessionPhase' = [d \in 1..MaxConn |-> SessionPhase'[d]]
    BY DEF SessionPhase
  <2> QED BY <1>3, <1>4, <1>5, <2>1
<1>7. UNCHANGED <<SessionPending, SessionRights, decided>>
  <2>1. Unhandled' = Unhandled /\ UNCHANGED <<rights, loginConn, decided>>
    BY DEF Established, mainVars, Unhandled
  <2> QED BY <2>1, SameQueue, SameRights
<1> HIDE DEF c
<1>8. Sessions!Open(c)
  BY <1>4, <1>6, <1>7 DEF Sessions!Open
<1> QED BY <1>3, <1>8 DEF Step, Sessions!SessionNext

(* The connection at w is over: nobody else has its number. *)
LEMMA LeaveStep ==
    ASSUME RInv, NEW w \in Clients, state[w] = "open", NEW s, s # "open",
           state' = [state EXCEPT ![w] = s],
           UNCHANGED <<cur, nextConn, messagesIn, mainVars>>
    PROVE  Step
<1> DEFINE c == cur[w]
<1>1. /\ TypeOK /\ NumbersInUse /\ CallbackState
      /\ nextConn \in Nat /\ MaxConn \in Nat /\ nextConn <= MaxConn
      /\ \A v \in Clients : cur[v] \in Nat
  BY RInvFacts
<1>2. c \in 1..MaxConn /\ c # 0 /\ ~(c > nextConn)
  BY <1>1 DEF CallbackState, NumbersInUse
<1>3. \A v \in Clients : state'[v] = IF v = w THEN s ELSE state[v]
  BY <1>1 DEF TypeOK
<1>4. SessionPhase[c] = "open" /\ SessionPhase'[c] = "gone"
  <2>1. ~\E v \in Clients : cur'[v] = c /\ state'[v] = "open"
    BY <1>2, <1>3, OneAddress
  <2> QED BY <1>2, <2>1 DEF SessionPhase
<1>5. ASSUME NEW d \in 1..MaxConn, d # c PROVE SessionPhase'[d] = SessionPhase[d]
  <2>1. (\E v \in Clients : cur'[v] = d /\ state'[v] = "open")
          <=> (\E v \in Clients : cur[v] = d /\ state[v] = "open")
    BY <1>3, <1>5
  <2> QED BY <2>1 DEF SessionPhase
<1>6. SessionPhase' = [SessionPhase EXCEPT ![c] = "gone"]
  <2>1. /\ SessionPhase = [d \in 1..MaxConn |-> SessionPhase[d]]
        /\ SessionPhase' = [d \in 1..MaxConn |-> SessionPhase'[d]]
    BY DEF SessionPhase
  <2> QED BY <1>2, <1>4, <1>5, <2>1
<1>7. UNCHANGED <<SessionPending, SessionRights, decided>>
  <2>1. Unhandled' = Unhandled /\ UNCHANGED <<rights, loginConn, decided>>
    BY DEF mainVars, Unhandled
  <2> QED BY <2>1, SameQueue, SameRights
<1> HIDE DEF c
<1>8. Sessions!Leave(c)
  BY <1>4, <1>6, <1>7 DEF Sessions!Leave
<1> QED BY <1>2, <1>8 DEF Step, Sessions!SessionNext

LEMMA CallbackStep ==
    ASSUME RInv, NEW w \in Clients, Callback(w)
    PROVE  Step
<1>1. TypeOK
  BY RInvFacts
<1>2. CASE Established(w)
  BY <1>2, EstablishedStep
<1>3. ASSUME UNCHANGED <<messagesIn, mainPc, cur, nextConn, rights, loginConn, decided>>,
             \A v \in Clients : state'[v] = "open" <=> state[v] = "open"
      PROVE  Step
  <2>1. Unhandled' = Unhandled
    BY <1>3 DEF Unhandled
  <2> QED BY <1>3, <2>1, SameQueue, SameConnections, SameRights, StutterStep
<1>4. CASE \E e \in Events \union {"login"}, u \in Users, tk \in Tokens : Receive(w, e, u, tk)
  BY <1>3, <1>4 DEF Receive, mainVars
<1>5. CASE PeerInitiatedClose(w)
  BY <1>5, LeaveStep DEF PeerInitiatedClose
<1>6. CASE Closed(w) /\ state[w] = "open"
  BY <1>6, LeaveStep DEF Closed
<1>7. CASE Closed(w) /\ state[w] # "open"
  <2>1. \A v \in Clients : state'[v] = "open" <=> state[v] = "open"
    BY <1>1, <1>7 DEF Closed, TypeOK
  <2> QED BY <1>3, <1>7, <2>1 DEF Closed, mainVars
<1> QED BY <1>2, <1>4, <1>5, <1>6, <1>7 DEF Callback

(* A message is pushed: its connection is open, or gone and this is its     *)
(* logout.                                                                 *)
LEMMA PushStep ==
    ASSUME RInv, PushInMessage
    PROVE  Step
<1> DEFINE c == lwsMsg.conn
           w == lwsMsg.client
           r == SessionRequest(lwsMsg)
<1>1. /\ TypeOK /\ NumbersInUse /\ CallbackState
      /\ nextConn \in Nat /\ MaxConn \in Nat /\ nextConn <= MaxConn
      /\ \A v \in Clients : cur[v] \in Nat
  BY RInvFacts
<1>2. /\ lwsPc = "push" /\ mainPc = "idle" /\ messagesIn' = Append(messagesIn, lwsMsg)
      /\ UNCHANGED <<state, cur, nextConn, mainVars>>
  BY DEF PushInMessage
<1>3. messagesIn \in Seq(Message) /\ lwsMsg \in Message /\ w \in Clients
  BY <1>1 DEF TypeOK, Message
<1>4. c = cur[w] /\ c # 0 /\ (lwsMsg.event = "logout" <=> state[w] # "open")
  BY <1>1, <1>2 DEF CallbackState
<1>5. c \in 1..MaxConn /\ ~(c > nextConn)
  BY <1>1, <1>3, <1>4 DEF NumbersInUse
<1>6. IF r.event = "logout" THEN SessionPhase[c] = "gone" ELSE SessionPhase[c] = "open"
  <2>1. (\E v \in Clients : cur[v] = c /\ state[v] = "open") <=> state[w] = "open"
    BY <1>3, <1>4, OneAddress
  <2>2. r.event = lwsMsg.event
    BY DEF SessionRequest
  <2> QED BY <1>4, <1>5, <2>1, <2>2 DEF SessionPhase
<1>7. SessionPending' = [SessionPending EXCEPT ![c] = Append(@, r)]
  <2>1. Unhandled = messagesIn /\ Unhandled' = Append(messagesIn, lwsMsg)
    BY <1>2 DEF Unhandled, mainVars
  <2>2. \A d \in 1..MaxConn : SessionPending[d] = RequestsOf(messagesIn, d)
                              /\ SessionPending'[d] = RequestsOf(Append(messagesIn, lwsMsg), d)
    BY <2>1 DEF SessionPending
  <2>3. \A d \in 1..MaxConn :
           SessionPending'[d] = IF d = c THEN Append(SessionPending[d], r) ELSE SessionPending[d]
    <3> SUFFICES ASSUME NEW d \in 1..MaxConn
                 PROVE  SessionPending'[d] =
                           IF d = c THEN Append(SessionPending[d], r) ELSE SessionPending[d]
      OBVIOUS
    <3>1. RequestsOf(Append(messagesIn, lwsMsg), d) =
             IF lwsMsg.conn = d THEN Append(RequestsOf(messagesIn, d), SessionRequest(lwsMsg))
             ELSE RequestsOf(messagesIn, d)
      BY <1>3, RequestsOfAppend
    <3> QED BY <2>2, <3>1
  <2>4. /\ SessionPending = [d \in 1..MaxConn |-> SessionPending[d]]
        /\ SessionPending' = [d \in 1..MaxConn |-> SessionPending'[d]]
    BY DEF SessionPending
  <2> HIDE DEF c, r
  <2> QED BY <1>5, <2>3, <2>4
<1>8. UNCHANGED <<SessionPhase, SessionRights, decided>>
  <2>1. \A v \in Clients : state'[v] = "open" <=> state[v] = "open"
    BY <1>2
  <2> QED BY <1>2, <2>1, SameConnections, SameRights DEF mainVars
<1>9. r \in SessionRequests
  BY <1>3, RequestOfType
<1> HIDE DEF c, r
<1>10. Sessions!Send(c, r)
  BY <1>6, <1>7, <1>8 DEF Sessions!Send
<1> QED BY <1>5, <1>9, <1>10 DEF Step, Sessions!SessionNext

(* The rights of the sessions when the entry of the sender changes.         *)
LEMMA HandleRights ==
    ASSUME RInv, messagesIn # <<>>,
           NEW given \in SUBSET AllRights, NEW n \in {0, Head(messagesIn).conn},
           n = 0 => given = {},
           rights' = [rights EXCEPT ![Head(messagesIn).client] = given],
           loginConn' = [loginConn EXCEPT ![Head(messagesIn).client] = n]
    PROVE  SessionRights' = [SessionRights EXCEPT ![Head(messagesIn).conn] = given]
<1> DEFINE w == Head(messagesIn).client
           c == Head(messagesIn).conn
<1>1. /\ c \in 1..MaxConn /\ loginConn[w] \in {0, c}
      /\ \A x \in Clients : loginConn[x] = c => x = w
  BY HeadOfConn
<1>2. TypeOK /\ w \in Clients
  BY RInvFacts, HeadTyped
<1>3. /\ \A x \in Clients : rights'[x] = IF x = w THEN given ELSE rights[x]
      /\ \A x \in Clients : loginConn'[x] = IF x = w THEN n ELSE loginConn[x]
  BY <1>2 DEF TypeOK
<1> DEFINE Of(d) == {x \in Clients : loginConn[x] = d}
           New(d) == {x \in Clients : loginConn'[x] = d}
<1>4. SessionRights'[c] = given
  <2>1. SessionRights'[c] = UNION {rights'[x] : x \in New(c)}
    BY <1>1 DEF SessionRights
  <2>2. CASE n = c
    <3>1. New(c) = {w}
      BY <1>1, <1>2, <1>3, <2>2
    <3> HIDE DEF New
    <3> QED BY <1>2, <1>3, <2>1, <3>1
  <2>3. CASE n = 0
    <3>1. New(c) = {}
      BY <1>1, <1>2, <1>3, <2>3
    <3> HIDE DEF New
    <3> QED BY <2>1, <2>3, <3>1
  <2> QED BY <2>2, <2>3
<1>5. ASSUME NEW d \in 1..MaxConn, d # c PROVE SessionRights'[d] = SessionRights[d]
  <2>1. New(d) = Of(d) /\ w \notin Of(d)
    BY <1>1, <1>3, <1>5
  <2>2. SessionRights'[d] = UNION {rights'[x] : x \in New(d)}
    BY DEF SessionRights
  <2>3. SessionRights[d] = UNION {rights[x] : x \in Of(d)}
    BY DEF SessionRights
  <2>4. \A x \in Of(d) : rights'[x] = rights[x]
    BY <1>3, <2>1
  <2> HIDE DEF New, Of
  <2> QED BY <2>1, <2>2, <2>3, <2>4
<1>6. /\ SessionRights = [d \in 1..MaxConn |-> SessionRights[d]]
      /\ SessionRights' = [d \in 1..MaxConn |-> SessionRights'[d]]
  BY DEF SessionRights
<1> HIDE DEF c
<1>7. SessionRights' = [SessionRights EXCEPT ![c] = given]
  BY <1>1, <1>4, <1>5, <1>6
<1> QED BY <1>7 DEF c

(* What every handler has in common; `given' are the rights it leaves.      *)
LEMMA HandleStep ==
    ASSUME RInv, mainPc = "dispatch", messagesIn # <<>>, Unhandled' = Tail(messagesIn),
           Decide(Head(messagesIn)), UNCHANGED lwsVars,
           NEW given,
           Head(messagesIn).event = "login" => given = GrantedBy(SessionRequest(Head(messagesIn))),
           Head(messagesIn).event = "logout" => given = {},
           Head(messagesIn).event \notin {"login", "logout"}
               => given = SessionRights[Head(messagesIn).conn],
           SessionRights' = [SessionRights EXCEPT ![Head(messagesIn).conn] = given]
    PROVE  Step
<1> DEFINE m == Head(messagesIn)
           c == m.conn
           r == SessionRequest(m)
<1>1. c \in 1..MaxConn /\ SessionRights[c] = rights[m.client]
  BY HeadOfConn
<1>2. /\ SessionPending[c] # <<>> /\ Head(SessionPending[c]) = r
      /\ SessionPending' = [SessionPending EXCEPT ![c] = Tail(@)]
  BY TakeHead
<1>3. r.event = m.event
  BY DEF SessionRequest
<1>4. decided' = [conn |-> c, event |-> r.event, ok |-> CheckRights(r.event, SessionRights[c])]
  BY <1>1, <1>3 DEF Decide
<1>5. SessionPhase' = SessionPhase
  <2>1. \A v \in Clients : state'[v] = "open" <=> state[v] = "open"
    BY DEF lwsVars
  <2> QED BY <2>1, SameConnections DEF lwsVars
<1>6. /\ r.event = "login" => given = GrantedBy(r)
      /\ r.event = "logout" => given = {}
      /\ r.event \notin {"login", "logout"} => given = SessionRights[c]
  BY <1>3
<1>7. SessionRights' = [SessionRights EXCEPT ![c] = given]
  OBVIOUS
<1> HIDE DEF c, r
<1>8. given = CASE r.event = "login"  -> GrantedBy(r)
                [] r.event = "logout" -> {}
                [] OTHER              -> SessionRights[c]
  BY <1>6, Zenon
<1>9. Sessions!Handle(c)
  BY <1>2, <1>4, <1>5, <1>7, <1>8, Zenon DEF Sessions!Handle
<1> QED BY <1>1, <1>9 DEF Step, Sessions!SessionNext

(* The rights a login gives are there before its message leaves the queue.  *)
LEMMA LoginStep ==
    ASSUME RInv, PerformLogin
    PROVE  Step
<1> DEFINE m == Head(messagesIn)
           given == IF m.token = "match" THEN UserRights[m.user] ELSE {}
<1>1. /\ mainPc = "dispatch" /\ messagesIn # <<>> /\ m.event = "login" /\ Decide(m)
      /\ rights' = [rights EXCEPT ![m.client] = given]
      /\ loginConn' = [loginConn EXCEPT ![m.client] = m.conn]
      /\ mainPc' = IF m.token = "match" THEN "login" ELSE "dispatch"
      /\ messagesIn' = IF m.token = "match" THEN messagesIn ELSE Tail(messagesIn)
      /\ UNCHANGED lwsVars
  BY DEF PerformLogin
<1>2. Unhandled' = Tail(messagesIn)
  BY <1>1 DEF Unhandled
<1>3. m \in Message
  BY <1>1, RInvFacts, HeadTyped
<1>4. given \in SUBSET AllRights /\ given = GrantedBy(SessionRequest(m))
  BY <1>3, ConstantsAssumption DEF Message, GrantedBy, SessionRequest
<1>5. m.conn \in {0, m.conn} /\ m.conn # 0
  BY <1>1, HeadOfConn
<1> HIDE DEF given
<1>6. SessionRights' = [SessionRights EXCEPT ![m.conn] = given]
  BY <1>1, <1>4, <1>5, HandleRights
<1> QED BY <1>1, <1>2, <1>4, <1>6, HandleStep

LEMMA LogoutStep ==
    ASSUME RInv, PerformLogout
    PROVE  Step
<1> DEFINE m == Head(messagesIn)
<1>1. /\ mainPc = "dispatch" /\ messagesIn # <<>> /\ m.event = "logout" /\ Decide(m)
      /\ rights' = [rights EXCEPT ![m.client] = {}]
      /\ loginConn' = [loginConn EXCEPT ![m.client] = 0]
      /\ mainPc' = mainPc /\ messagesIn' = Tail(messagesIn)
      /\ UNCHANGED lwsVars
  BY DEF PerformLogout
<1>2. Unhandled' = Tail(messagesIn)
  BY <1>1 DEF Unhandled
<1>3. {} \in SUBSET AllRights /\ 0 \in {0, m.conn}
  OBVIOUS
<1>4. SessionRights' = [SessionRights EXCEPT ![m.conn] = {}]
  BY <1>1, <1>3, HandleRights
<1> QED BY <1>1, <1>2, <1>4, HandleStep

LEMMA RequestStep ==
    ASSUME RInv, PerformRequest
    PROVE  Step
<1> DEFINE m == Head(messagesIn)
           c == m.conn
<1>1. /\ mainPc = "dispatch" /\ messagesIn # <<>> /\ m.event \notin {"login", "logout"}
      /\ Decide(m) /\ mainPc' = mainPc /\ messagesIn' = Tail(messagesIn)
      /\ UNCHANGED <<lwsVars, rights, loginConn>>
  BY DEF PerformRequest
<1>2. Unhandled' = Tail(messagesIn)
  BY <1>1 DEF Unhandled
<1>3. SessionRights' = SessionRights
  BY <1>1, SameRights
<1>4. SessionRights = [d \in 1..MaxConn |-> SessionRights[d]]
  BY DEF SessionRights
<1>5. SessionRights' = [SessionRights EXCEPT ![c] = SessionRights[c]]
  BY <1>3, <1>4
<1> QED BY <1>1, <1>2, <1>5, HandleStep

(* The rest of a login and the ends of a pass change no session.            *)
LEMMA OtherStep ==
    ASSUME RInv,
           \/ EraseClient \/ DispatchBegin \/ DispatchEnd \/ SetClientType \/ UNCHANGED vars
    PROVE  Step
<1>1. UNCHANGED <<cur, nextConn, state, rights, loginConn, decided>>
  BY DEF EraseClient, DispatchBegin, DispatchEnd, SetClientType, lwsVars, mainVars, vars
<1>2. Unhandled' = Unhandled
  BY DEF EraseClient, DispatchBegin, DispatchEnd, SetClientType, lwsVars, mainVars, vars,
         Unhandled
<1> QED BY <1>1, <1>2, SameQueue, SameConnections, SameRights, StutterStep

LEMMA StepRInv == RInv /\ [Next]_vars => RInv'
BY StepIInv, StepConnInv DEF RInv

LEMMA InitSessions == Init => Sessions!SessionInit
<1> SUFFICES ASSUME Init PROVE Sessions!SessionInit
  OBVIOUS
<1>1. Unhandled = <<>>
  BY DEF Init, Unhandled
<1>2. \A c \in 1..MaxConn : RequestsOf(<<>>, c) = <<>>
  <2> SUFFICES ASSUME NEW c \in 1..MaxConn PROVE RequestsOf(<<>>, c) = <<>>
    OBVIOUS
  <2>1. [i \in 1..Len(<<>>) |-> RequestOf(<<>>[i], c)] = <<>>
    OBVIOUS
  <2> QED BY <2>1, FlattenEmpty, Zenon DEF RequestsOf
<1>3. SessionPending = [c \in 1..MaxConn |-> <<>>]
  BY <1>1, <1>2 DEF SessionPending
<1>4. SessionPhase = [c \in 1..MaxConn |-> "new"]
  <2>1. \A c \in 1..MaxConn : c > nextConn
    BY ConstantsAssumption DEF Init
  <2> QED BY <2>1 DEF SessionPhase
<1>5. SessionRights = [c \in 1..MaxConn |-> {}]
  <2>1. \A c \in 1..MaxConn : {x \in Clients : loginConn[x] = c} = {}
    BY DEF Init
  <2> QED BY <2>1 DEF SessionRights
<1> QED BY <1>3, <1>4, <1>5 DEF Init, Sessions!SessionInit

(* Requests of different connections never mix: whatever the two threads   *)
(* do with the one queue and the table by address is what one session per  *)
(* connection would do, with its own requests in their order and the       *)
(* rights of its own last login (cWebSock::pushInMessage, callbackWs,      *)
(* dispatchClientRequest).                                                 *)
THEOREM SessionsImplemented == Spec => ImplementsSessions
<1>1. Init => RInv /\ Sessions!SessionInit
  BY InitIInv, InitConnInv, InitSessions DEF RInv
<1>2. RInv /\ [Next]_vars => RInv'
  BY StepRInv
<1>3. RInv /\ [Next]_vars => Sessions!SessionNext \/ UNCHANGED Sessions!svars
  <2> SUFFICES ASSUME RInv, [Next]_vars PROVE Step
    BY DEF Step
  <2> QED BY NextCases, CallbackStep, PushStep, LoginStep, LogoutStep, RequestStep, OtherStep
<1> QED BY <1>1, <1>2, <1>3, PTL DEF Spec, ImplementsSessions, Sessions!SessionSpec
=============================================================================
