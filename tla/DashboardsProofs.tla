-------------------------- MODULE DashboardsProofs --------------------------
(***************************************************************************)
(* Proofs about Dashboards, for any number of browsers, widgets,           *)
(* dashboards, edits and lost connections: the types, that the editor ends *)
(* up with the tables as they are, that deleted dashboards stay deleted,   *)
(* and that an edit with an up to date copy changes nothing else.          *)
(***************************************************************************)
EXTENDS Dashboards, TLAPS

-----------------------------------------------------------------------------
(* Types. *)

LEMMA RequestKinds ==
    ASSUME NEW r \in RequestType
    PROVE  /\ r.kind = "store" => /\ r.id \in Ids /\ r.list \in WidgetList /\ r.ver \in Nat
                                  /\ r.whole \in BOOLEAN /\ r.changed \in SUBSET Widgets
           /\ r.kind = "move" => r.key \in Widgets /\ r.from \in Ids /\ r.to \in Ids
           /\ r.kind = "delete" => r.id \in Ids
BY DEF RequestType

LEMMA EventKinds ==
    ASSUME NEW e \in EventType
    PROVE  e.event = "dashboards" => e.tables \in TablesType
BY DEF EventType

(* The head and the rest of a queue of messages of any type. *)
LEMMA HeadAndTail ==
    ASSUME NEW T, NEW q \in Seq(T), q # <<>>
    PROVE  /\ Head(q) \in T /\ Head(q) = q[1] /\ Tail(q) \in Seq(T)
           /\ Len(q) \in Nat \ {0} /\ Len(Tail(q)) = Len(q) - 1
           /\ \A i \in 1..(Len(q) - 1) : Tail(q)[i] = q[i+1]
OBVIOUS

LEMMA Joined ==
    ASSUME NEW T, NEW q \in Seq(T), NEW m \in Seq(T)
    PROVE  /\ q \o m \in Seq(T) /\ Len(q) \in Nat /\ Len(m) \in Nat
           /\ Len(q \o m) = Len(q) + Len(m)
           /\ \A i \in 1..Len(q) : (q \o m)[i] = q[i]
           /\ \A i \in 1..Len(m) : (q \o m)[Len(q) + i] = m[i]
OBVIOUS

(* The last of one or two messages that are appended. *)
LEMMA JoinedOne ==
    ASSUME NEW T, NEW q \in Seq(T), NEW m \in Seq(T), Len(m) = 1
    PROVE  /\ Len(q) \in Nat /\ Len(q \o m) = Len(q) + 1
           /\ \A k \in 1..Len(q) : (q \o m)[k] = q[k]
           /\ (q \o m)[Len(q) + 1] = m[1]
<1>1. PICK n \in Nat \ {0} : n = 1
  OBVIOUS
<1>2. Len(m) = n
  BY <1>1
<1>3. /\ Len(q) \in Nat /\ Len(q \o m) = Len(q) + n
      /\ \A k \in 1..Len(q) : (q \o m)[k] = q[k]
      /\ (q \o m)[Len(q) + n] = m[n]
  BY <1>2
<1> QED BY <1>1, <1>3

LEMMA JoinedTwo ==
    ASSUME NEW T, NEW q \in Seq(T), NEW m \in Seq(T), Len(m) = 2
    PROVE  /\ Len(q) \in Nat /\ Len(q \o m) = Len(q) + 2
           /\ \A k \in 1..Len(q) : (q \o m)[k] = q[k]
           /\ (q \o m)[Len(q) + 2] = m[2]
<1>1. PICK n \in Nat \ {0} : n = 2
  OBVIOUS
<1>2. Len(m) = n
  BY <1>1
<1>3. /\ Len(q) \in Nat /\ Len(q \o m) = Len(q) + n
      /\ \A k \in 1..Len(q) : (q \o m)[k] = q[k]
      /\ (q \o m)[Len(q) + n] = m[n]
  BY <1>2
<1> QED BY <1>1, <1>3

LEMMA TablesTyped == TypeOK => Tables \in TablesType
BY DEF TypeOK, Tables, TablesType, NoWidgets, WidgetList

LEMMA ListedTyped ==
    ASSUME TypeOK, NEW b \in Browsers, act[b] \in Ids
    PROVE  Listed(b) \in WidgetList
<1>1. copy[b].rows[act[b]] \in WidgetList /\ drawn[b] \in SUBSET Widgets
  BY DEF TypeOK, TablesType
<1> QED BY <1>1 DEF Listed, WidgetList

StoreRequest(b, list, changed) ==
    [kind |-> "store", id |-> act[b], list |-> list,
     ver |-> copy[b].ver[act[b]],
     whole |-> drawn[b] \union changed = Keys(copy[b].rows[act[b]]) \union changed,
     changed |-> changed \union dirty[b]]

LEMMA StoreTyped ==
    ASSUME TypeOK, NEW b \in Browsers, NEW list \in WidgetList,
           NEW changed \in SUBSET Widgets, act[b] \in Ids,
           StoreThenRefresh(b, list, changed)
    PROVE  /\ <<StoreRequest(b, list, changed), Refresh>> \in Seq(RequestType)
           /\ up' = [up EXCEPT ![b] = @ \o <<StoreRequest(b, list, changed), Refresh>>]
           /\ up' \in [Browsers -> Seq(RequestType)]
<1>1. copy[b].ver[act[b]] \in Nat /\ dirty[b] \in SUBSET Widgets
  BY DEF TypeOK, TablesType
<1>2. StoreRequest(b, list, changed) \in RequestType
  BY <1>1 DEF StoreRequest, RequestType
<1>3. Refresh \in RequestType
  BY DEF Refresh, RequestType
<1>4. <<StoreRequest(b, list, changed), Refresh>> \in Seq(RequestType)
  BY <1>2, <1>3
<1>5. up' = [up EXCEPT ![b] = @ \o <<StoreRequest(b, list, changed), Refresh>>]
  BY DEF StoreThenRefresh, Ask, StoreRequest
<1>6. up[b] \o <<StoreRequest(b, list, changed), Refresh>> \in Seq(RequestType)
  BY <1>4, Joined DEF TypeOK
<1> QED BY <1>4, <1>5, <1>6 DEF TypeOK

(* What all steps of the user at browser b have in common. *)
LEMMA EditingTyped ==
    ASSUME TypeOK, NEW b \in Browsers, Editing(b)
    PROVE  act[b] \in Ids /\ edits' \in 0..MaxEdits
           /\ UNCHANGED <<db, nextId, down, last, drops>>
BY DashboardsAssumption DEF TypeOK, Editing, Edit, TablesType

(* The list that addWidget stores: of the same type, and different only    *)
(* where a widget was chosen.                                              *)
LEMMA AddTyped ==
    ASSUME TypeOK, NEW b \in Browsers, NEW chosen \in SUBSET Widgets, AddWidget(b, chosen)
    PROVE  /\ act[b] \in Ids
           /\ \E list \in WidgetList : /\ StoreThenRefresh(b, list, chosen)
                                      /\ \A w \in Widgets \ chosen : list[w] = Listed(b)[w]
<1> DEFINE list == [w \in Widgets |-> IF w \in chosen THEN "default" ELSE Listed(b)[w]]
<1>1. act[b] \in Ids /\ Listed(b) \in WidgetList
  BY EditingTyped, ListedTyped DEF AddWidget
<1>2. list \in WidgetList /\ \A w \in Widgets \ chosen : list[w] = Listed(b)[w]
  BY <1>1 DEF WidgetList, Options
<1>3. StoreThenRefresh(b, list, chosen)
  BY DEF AddWidget
<1> HIDE DEF list
<1> QED BY <1>1, <1>2, <1>3

LEMMA UserType ==
    ASSUME TypeOK, NEW b \in Browsers, User(b)
    PROVE  TypeOK'
<1>1. ASSUME NEW w \in Widgets, EditWidget(b, w) PROVE TypeOK'
  <2>1. act[b] \in Ids /\ edits' \in 0..MaxEdits /\ UNCHANGED <<db, nextId, down, last, drops>>
    BY <1>1, EditingTyped DEF EditWidget
  <2>2. [Listed(b) EXCEPT ![w] = "set"] \in WidgetList
    BY <2>1, ListedTyped DEF WidgetList, Options
  <2>3. up' \in [Browsers -> Seq(RequestType)]
    BY <1>1, <2>1, <2>2, StoreTyped DEF EditWidget
  <2>4. [copy[b] EXCEPT !.rows[act[b]][w] = "set"] \in TablesType
    <3>1. copy[b] \in TablesType /\ copy[b].rows[act[b]] \in WidgetList
      BY <2>1 DEF TypeOK, TablesType
    <3>2. [copy[b].rows[act[b]] EXCEPT ![w] = "set"] \in WidgetList
      BY <3>1 DEF WidgetList, Options
    <3> QED BY <2>1, <3>1, <3>2 DEF TablesType
  <2>5. copy' = [copy EXCEPT ![b] = [copy[b] EXCEPT !.rows[act[b]][w] = "set"]]
    BY <1>1 DEF EditWidget
  <2>6. copy' \in [Browsers -> TablesType]
    BY <2>4, <2>5 DEF TypeOK
  <2>7. dirty' \in [Browsers -> SUBSET Widgets] /\ UNCHANGED <<act, drawn>>
    BY <1>1 DEF EditWidget, TypeOK
  <2> QED BY <2>1, <2>3, <2>6, <2>7 DEF TypeOK
<1>2. ASSUME NEW w \in Widgets, ResetWidget(b, w) PROVE TypeOK'
  <2>1. act[b] \in Ids /\ edits' \in 0..MaxEdits /\ UNCHANGED <<db, nextId, down, last, drops>>
    BY <1>2, EditingTyped DEF ResetWidget
  <2>2. [Listed(b) EXCEPT ![w] = "default"] \in WidgetList
    BY <2>1, ListedTyped DEF WidgetList, Options
  <2>3. up' \in [Browsers -> Seq(RequestType)]
    BY <1>2, <2>1, <2>2, StoreTyped DEF ResetWidget
  <2>4. UNCHANGED <<copy, act, drawn, dirty>>
    BY <1>2 DEF ResetWidget, browserVars
  <2> QED BY <2>1, <2>3, <2>4 DEF TypeOK
<1>3. ASSUME NEW w \in Widgets, DeleteWidget(b, w) PROVE TypeOK'
  <2>1. act[b] \in Ids /\ edits' \in 0..MaxEdits /\ UNCHANGED <<db, nextId, down, last, drops>>
    BY <1>3, EditingTyped DEF DeleteWidget
  <2>2. [Listed(b) EXCEPT ![w] = "none"] \in WidgetList
    BY <2>1, ListedTyped DEF WidgetList, Options
  <2>3. up' \in [Browsers -> Seq(RequestType)]
    BY <1>3, <2>1, <2>2, StoreTyped DEF DeleteWidget
  <2>4. drawn' \in [Browsers -> SUBSET Widgets] /\ UNCHANGED <<copy, act, dirty>>
    BY <1>3 DEF DeleteWidget, TypeOK
  <2> QED BY <2>1, <2>3, <2>4 DEF TypeOK
<1>4. ASSUME DropWidget(b) PROVE TypeOK'
  <2>1. act[b] \in Ids /\ edits' \in 0..MaxEdits /\ UNCHANGED <<db, nextId, down, last, drops>>
    BY <1>4, EditingTyped DEF DropWidget
  <2>2. up' \in [Browsers -> Seq(RequestType)]
    <3>1. Listed(b) \in WidgetList /\ {} \in SUBSET Widgets
      BY <2>1, ListedTyped
    <3>2. StoreThenRefresh(b, Listed(b), {})
      BY <1>4 DEF DropWidget
    <3> QED BY <2>1, <3>1, <3>2, StoreTyped
  <2>3. UNCHANGED <<copy, act, drawn, dirty>>
    BY <1>4 DEF DropWidget, browserVars
  <2> QED BY <2>1, <2>2, <2>3 DEF TypeOK
<1>5. ASSUME NEW w \in Widgets, NEW to \in Ids, MoveWidget(b, w, to) PROVE TypeOK'
  <2>1. act[b] \in Ids /\ edits' \in 0..MaxEdits /\ UNCHANGED <<db, nextId, down, last, drops>>
    BY <1>5, EditingTyped DEF MoveWidget
  <2> DEFINE m == [kind |-> "move", key |-> w, from |-> act[b], to |-> to]
  <2>2. m \in RequestType
    BY <2>1 DEF RequestType
  <2>3. up[b] \o <<m>> \in Seq(RequestType)
    BY <2>2, Joined DEF TypeOK
  <2>4. up' = [up EXCEPT ![b] = @ \o <<m>>]
    BY <1>5 DEF MoveWidget, Ask
  <2>5. up' \in [Browsers -> Seq(RequestType)]
    BY <2>3, <2>4 DEF TypeOK
  <2>6. drawn' \in [Browsers -> SUBSET Widgets] /\ UNCHANGED <<copy, act, dirty>>
    BY <1>5 DEF MoveWidget, TypeOK
  <2> QED BY <2>1, <2>5, <2>6 DEF TypeOK
<1>6. ASSUME NewDashboard(b) \/ DeleteDashboard(b) PROVE TypeOK'
  <2>1. PICK m \in RequestType : up' = [up EXCEPT ![b] = @ \o <<m, Refresh>>]
    <3>1. CASE NewDashboard(b)
      <4>1. [kind |-> "new"] \in RequestType
        BY DEF RequestType
      <4> QED BY <3>1, <4>1 DEF NewDashboard, Ask
    <3>2. CASE DeleteDashboard(b)
      <4>1. [kind |-> "delete", id |-> act[b]] \in RequestType
        BY <3>2, EditingTyped DEF DeleteDashboard, RequestType
      <4> QED BY <3>2, <4>1 DEF DeleteDashboard, Ask
    <3> QED BY <1>6, <3>1, <3>2
  <2>2. Refresh \in RequestType
    BY DEF Refresh, RequestType
  <2>3. up[b] \o <<m, Refresh>> \in Seq(RequestType)
    BY <2>2, Joined DEF TypeOK
  <2>4. up' \in [Browsers -> Seq(RequestType)]
    BY <2>1, <2>3 DEF TypeOK
  <2>5. edits' \in 0..MaxEdits /\ UNCHANGED <<db, nextId, down, last, drops, copy, act, drawn, dirty>>
    BY <1>6, DashboardsAssumption
       DEF NewDashboard, DeleteDashboard, Editing, Edit, browserVars, TypeOK
  <2> QED BY <2>4, <2>5 DEF TypeOK
<1>7. ASSUME NEW d \in Ids, SelectDashboard(b, d) PROVE TypeOK'
  <2>1. act' \in [Browsers -> Ids \union {0}] /\ drawn' \in [Browsers -> SUBSET Widgets]
    BY <1>7 DEF SelectDashboard, InitDashboard, Active, Keys, TypeOK, TablesType
  <2>2. UNCHANGED <<db, nextId, up, down, last, edits, drops, copy, dirty>>
    BY <1>7 DEF SelectDashboard, InitDashboard
  <2> QED BY <2>1, <2>2 DEF TypeOK
<1>8. ASSUME NEW chosen \in SUBSET Widgets, AddWidget(b, chosen) PROVE TypeOK'
  <2>1. act[b] \in Ids /\ edits' \in 0..MaxEdits /\ UNCHANGED <<db, nextId, down, last, drops>>
    BY <1>8, EditingTyped DEF AddWidget
  <2>2. up' \in [Browsers -> Seq(RequestType)]
    BY <1>8, <2>1, AddTyped, StoreTyped
  <2>3. UNCHANGED <<copy, act, drawn, dirty>>
    BY <1>8 DEF AddWidget, browserVars
  <2> QED BY <2>1, <2>2, <2>3 DEF TypeOK
<1> QED BY <1>1, <1>2, <1>3, <1>4, <1>5, <1>6, <1>7, <1>8 DEF User

(* What all steps of the daemon for a request of browser b have in common. *)
LEMMA HandlesTyped ==
    ASSUME TypeOK, NEW b \in Browsers, NEW kind, Handles(b, kind)
    PROVE  /\ up[b] # <<>> /\ Request(b) \in RequestType /\ Request(b).kind = kind
           /\ up' = [up EXCEPT ![b] = Tail(@)]
           /\ up' \in [Browsers -> Seq(RequestType)]
           /\ UNCHANGED <<copy, act, drawn, dirty, edits, drops>>
<1>1. up[b] # <<>> /\ up[b] \in Seq(RequestType)
  BY DEF Handles, TypeOK
<1>2. Head(up[b]) \in RequestType /\ Tail(up[b]) \in Seq(RequestType)
  BY <1>1, HeadAndTail
<1>3. up' \in [Browsers -> Seq(RequestType)]
  BY <1>2 DEF Handles, TypeOK
<1> QED BY <1>1, <1>2, <1>3 DEF Handles, Request, browserVars

LEMMA AnswerTyped ==
    ASSUME TypeOK, NEW b \in Browsers, NEW events \in Seq(EventType), Answer(b, events)
    PROVE  down' \in [Browsers -> Seq(EventType)]
<1>1. down[b] \o events \in Seq(EventType)
  BY Joined DEF TypeOK
<1> QED BY <1>1 DEF Answer, TypeOK

(* The tables after each request; a step on them by browser b. *)
LEMMA StoreDb ==
    ASSUME TypeOK, NEW b \in Browsers, HandleStore(b)
    PROVE  /\ UNCHANGED <<nextId, down>>
           /\ Request(b).id \in Ids
           /\ \/ Request(b).id \notin db.ids /\ UNCHANGED <<db, last>>
              \/ /\ Request(b).id \in db.ids /\ last' = b
                 /\ db' = [ids |-> db.ids,
                           rows |-> [db.rows EXCEPT ![Request(b).id] = Request(b).list],
                           ver |-> [db.ver EXCEPT ![Request(b).id] = @ + 1]]
           /\ db' \in TablesType
<1>1. Request(b).id \in Ids /\ Request(b).list \in WidgetList
  BY HandlesTyped, RequestKinds DEF HandleStore
<1>2. db \in TablesType
  BY DEF TypeOK
<1>3. CASE Request(b).id \notin db.ids
  BY <1>1, <1>2, <1>3 DEF HandleStore
<1>4. CASE Request(b).id \in db.ids
  <2>1. last' = b /\ UNCHANGED <<nextId, down>>
    BY <1>4 DEF HandleStore, Changes
  <2>2. db' = [ids |-> db.ids,
               rows |-> [db.rows EXCEPT ![Request(b).id] = Request(b).list],
               ver |-> [db.ver EXCEPT ![Request(b).id] = @ + 1]]
    BY <1>2, <1>4 DEF HandleStore, TablesType
  <2>3. db' \in TablesType
    BY <1>1, <1>2, <2>2 DEF TablesType
  <2> QED BY <1>1, <1>4, <2>1, <2>2, <2>3
<1> QED BY <1>3, <1>4

LEMMA NewDb ==
    ASSUME TypeOK, NEW b \in Browsers, HandleNew(b)
    PROVE  /\ last' = b /\ UNCHANGED down /\ nextId' = nextId + 1 /\ nextId \in Ids
           /\ db' = [ids |-> db.ids \union {nextId}, rows |-> db.rows,
                     ver |-> [db.ver EXCEPT ![nextId] = @ + 1]]
           /\ db' \in TablesType /\ nextId' \in 2..(MaxId + 1)
<1>1. db \in TablesType /\ nextId \in Ids
  BY DashboardsAssumption DEF TypeOK, HandleNew, Ids
<1>2. db' = [ids |-> db.ids \union {nextId}, rows |-> db.rows,
             ver |-> [db.ver EXCEPT ![nextId] = @ + 1]]
  BY <1>1 DEF HandleNew, TablesType
<1>3. db' \in TablesType
  BY <1>1, <1>2 DEF TablesType
<1>4. last' = b /\ UNCHANGED down /\ nextId' = nextId + 1 /\ nextId' \in 2..(MaxId + 1)
  BY DashboardsAssumption DEF HandleNew, Changes, TypeOK
<1> QED BY <1>1, <1>2, <1>3, <1>4

LEMMA DeleteDb ==
    ASSUME TypeOK, NEW b \in Browsers, HandleDelete(b)
    PROVE  /\ last' = b /\ UNCHANGED <<nextId, down>> /\ Request(b).id \in Ids
           /\ db' = [ids |-> db.ids \ {Request(b).id},
                     rows |-> [db.rows EXCEPT ![Request(b).id] = NoWidgets], ver |-> db.ver]
           /\ db' \in TablesType
<1>1. db \in TablesType /\ Request(b).id \in Ids /\ NoWidgets \in WidgetList
  BY HandlesTyped, RequestKinds DEF TypeOK, HandleDelete, NoWidgets, WidgetList
<1>2. db' = [ids |-> db.ids \ {Request(b).id},
             rows |-> [db.rows EXCEPT ![Request(b).id] = NoWidgets], ver |-> db.ver]
  BY <1>1 DEF HandleDelete, TablesType
<1>3. db' \in TablesType
  BY <1>1, <1>2 DEF TablesType
<1> QED BY <1>1, <1>2, <1>3 DEF HandleDelete, Changes

(* The tables D with widget w of dashboard d set to x. *)
Put(D, d, w, x) == [D EXCEPT !.rows[d][w] = x, !.ver[d] = @ + 1]

LEMMA WidgetPut ==
    ASSUME NEW D \in TablesType, NEW d \in Ids, NEW w \in Widgets,
           NEW x \in Options \union {"none"}, NEW E, E = Put(D, d, w, x)
    PROVE  /\ E \in TablesType /\ E.ids = D.ids
           /\ E.ver[d] > D.ver[d]
           /\ \A e \in Ids \ {d} : E.ver[e] = D.ver[e] /\ E.rows[e] = D.rows[e]
<1>1. PICK ids \in SUBSET Ids, rows \in [Ids -> WidgetList], ver \in [Ids -> Nat] :
        D = [ids |-> ids, rows |-> rows, ver |-> ver]
  BY DEF TablesType
<1>2. PICK rows2, ver2 : /\ rows2 = [rows EXCEPT ![d] = [rows[d] EXCEPT ![w] = x]]
                         /\ ver2 = [ver EXCEPT ![d] = @ + 1]
  OBVIOUS
<1>3. [rows[d] EXCEPT ![w] = x] \in WidgetList
  BY DEF WidgetList
<1>4. rows2 \in [Ids -> WidgetList] /\ ver2 \in [Ids -> Nat]
  BY <1>2, <1>3
<1>5. E = [ids |-> ids, rows |-> rows2, ver |-> ver2]
  BY <1>1, <1>2 DEF Put
<1>6. E \in TablesType
  BY <1>4, <1>5 DEF TablesType
<1>7. ver2[d] > ver[d] /\ \A e \in Ids \ {d} : ver2[e] = ver[e] /\ rows2[e] = rows[e]
  BY <1>2
<1> QED BY <1>1, <1>5, <1>6, <1>7

LEMMA MoveDb ==
    ASSUME TypeOK, NEW b \in Browsers, HandleMove(b)
    PROVE  /\ UNCHANGED nextId
           /\ \/ UNCHANGED <<db, last, down>>
              \/ /\ last' = b
                 /\ down' = [down EXCEPT ![b] = @ \o <<DashboardsEvent(Tables')>>]
                 /\ db'.ids = db.ids
                 /\ \A d \in Ids : \/ db'.ver[d] = db.ver[d] /\ db'.rows[d] = db.rows[d]
                                   \/ db'.ver[d] > db.ver[d]
           /\ db' \in TablesType
<1>1. Request(b) \in RequestType /\ Request(b).kind = "move"
  BY HandlesTyped DEF HandleMove
<1>2. PICK key \in Widgets, from \in Ids, to \in Ids :
        Request(b).key = key /\ Request(b).from = from /\ Request(b).to = to
  BY <1>1, RequestKinds
<1>3. db \in TablesType /\ UNCHANGED nextId
  BY DEF TypeOK, HandleMove
<1>4. CASE db.rows[from][key] = "none"
  BY <1>2, <1>3, <1>4 DEF HandleMove
<1>5. CASE db.rows[from][key] # "none"
  <2>0. PICK without : without = Put(db, from, key, "none")
    OBVIOUS
  <2>1. /\ db' = Moved(Request(b)) /\ last' = b
        /\ down' = [down EXCEPT ![b] = @ \o <<DashboardsEvent(Tables')>>]
    BY <1>2, <1>5 DEF HandleMove, Changes, Answer
  <2>2. /\ without \in TablesType /\ without.ids = db.ids
        /\ without.ver[from] > db.ver[from]
        /\ \A e \in Ids \ {from} : without.ver[e] = db.ver[e] /\ without.rows[e] = db.rows[e]
    BY <1>3, <2>0, WidgetPut
  <2>3. PICK x : x = IF without.rows[to][key] = "none" THEN db.rows[from][key]
                     ELSE without.rows[to][key]
    OBVIOUS
  <2>4. db' = Put(without, to, key, x)
    BY <1>2, <2>0, <2>1, <2>3 DEF Moved, Put
  <2>5. x \in Options \union {"none"}
    BY <1>3, <2>2, <2>3 DEF TablesType, WidgetList
  <2>6. PICK E : E = db'
    OBVIOUS
  <2>7. E = Put(without, to, key, x)
    BY <2>4, <2>6
  <2>8. /\ E \in TablesType /\ E.ids = without.ids
        /\ E.ver[to] > without.ver[to]
        /\ \A e \in Ids \ {to} : E.ver[e] = without.ver[e] /\ E.rows[e] = without.rows[e]
    BY <2>2, <2>5, <2>7, WidgetPut
  <2>9. \A d \in Ids : db.ver[d] \in Nat /\ without.ver[d] \in Nat /\ E.ver[d] \in Nat
    BY <1>3, <2>2, <2>8 DEF TablesType
  <2>10. \A d \in Ids : \/ E.ver[d] = db.ver[d] /\ E.rows[d] = db.rows[d]
                        \/ E.ver[d] > db.ver[d]
    BY <2>2, <2>8, <2>9
  <2>11. E \in TablesType /\ E.ids = db.ids
    BY <2>2, <2>8
  <2> QED BY <1>3, <2>1, <2>6, <2>10, <2>11
<1> QED BY <1>4, <1>5

LEMMA TablesTypedAfter ==
    ASSUME db' \in TablesType
    PROVE  Tables' \in TablesType
BY DEF Tables, TablesType, NoWidgets, WidgetList

LEMMA DaemonType ==
    ASSUME TypeOK, NEW b \in Browsers,
           \/ HandleStore(b) \/ HandleNew(b) \/ HandleDelete(b)
           \/ HandleMove(b) \/ HandleRefresh(b)
    PROVE  TypeOK'
<1>1. up' \in [Browsers -> Seq(RequestType)] /\ UNCHANGED <<copy, act, drawn, dirty, edits, drops>>
  BY HandlesTyped DEF HandleStore, HandleNew, HandleDelete, HandleMove, HandleRefresh
<1>2. CASE HandleStore(b)
  BY <1>1, <1>2, StoreDb DEF TypeOK
<1>3. CASE HandleNew(b)
  BY <1>1, <1>3, NewDb DEF TypeOK
<1>4. CASE HandleDelete(b)
  BY <1>1, <1>4, DeleteDb DEF TypeOK
<1>5. CASE HandleMove(b)
  <2>1. db' \in TablesType /\ UNCHANGED nextId
    BY <1>5, MoveDb
  <2>2. CASE UNCHANGED <<db, last, down>>
    BY <1>1, <2>1, <2>2 DEF TypeOK
  <2>3. CASE last' = b /\ down' = [down EXCEPT ![b] = @ \o <<DashboardsEvent(Tables')>>]
    <3>1. DashboardsEvent(Tables') \in EventType
      BY <2>1, TablesTypedAfter DEF DashboardsEvent, EventType
    <3>2. down[b] \o <<DashboardsEvent(Tables')>> \in Seq(EventType)
      BY <3>1, Joined DEF TypeOK
    <3>3. down' \in [Browsers -> Seq(EventType)]
      BY <2>3, <3>2 DEF TypeOK
    <3> QED BY <1>1, <2>1, <2>3, <3>3 DEF TypeOK
  <2> QED BY <1>5, <2>2, <2>3, MoveDb
<1>6. CASE HandleRefresh(b)
  <2>1. <<DashboardsEvent(Tables), InitEvent>> \in Seq(EventType)
    BY TablesTyped DEF DashboardsEvent, InitEvent, EventType
  <2>2. down' \in [Browsers -> Seq(EventType)]
    BY <1>6, <2>1, AnswerTyped DEF HandleRefresh
  <2>3. UNCHANGED <<db, nextId, last>>
    BY <1>6 DEF HandleRefresh
  <2> QED BY <1>1, <2>2, <2>3 DEF TypeOK
<1> QED BY <1>2, <1>3, <1>4, <1>5, <1>6

LEMMA MessageType ==
    ASSUME TypeOK, NEW b \in Browsers, Reconnect(b) \/ GetDashboards(b) \/ GetInit(b)
    PROVE  TypeOK'
<1>1. CASE Reconnect(b)
  <2>1. <<[kind |-> "login"]>> \in Seq(RequestType) /\ <<>> \in Seq(EventType)
    BY DEF RequestType
  <2>2. up' \in [Browsers -> Seq(RequestType)] /\ down' \in [Browsers -> Seq(EventType)]
    BY <1>1, <2>1 DEF Reconnect, TypeOK
  <2>3. drops' \in 0..MaxDrops /\ UNCHANGED <<db, nextId, copy, act, drawn, dirty, last, edits>>
    BY <1>1, DashboardsAssumption DEF Reconnect, TypeOK, browserVars
  <2> QED BY <2>2, <2>3 DEF TypeOK
<1>2. CASE GetDashboards(b)
  <2>1. down[b] \in Seq(EventType) /\ down[b] # <<>>
    BY <1>2 DEF GetDashboards, TypeOK
  <2>2. Head(down[b]) \in EventType /\ Tail(down[b]) \in Seq(EventType)
    BY <2>1, HeadAndTail
  <2>3. Head(down[b]).tables \in TablesType
    BY <1>2, <2>2, EventKinds DEF GetDashboards
  <2>4. /\ copy' \in [Browsers -> TablesType] /\ dirty' \in [Browsers -> SUBSET Widgets]
        /\ down' \in [Browsers -> Seq(EventType)]
    BY <1>2, <2>2, <2>3 DEF GetDashboards, TypeOK
  <2> QED BY <1>2, <2>4 DEF GetDashboards, TypeOK
<1>3. CASE GetInit(b)
  <2>1. down[b] \in Seq(EventType) /\ down[b] # <<>>
    BY <1>3 DEF GetInit, TypeOK
  <2>2. Tail(down[b]) \in Seq(EventType)
    BY <2>1, HeadAndTail
  <2>3. down' \in [Browsers -> Seq(EventType)]
    BY <1>3, <2>2 DEF GetInit, TypeOK
  <2>4. act' \in [Browsers -> Ids \union {0}] /\ drawn' \in [Browsers -> SUBSET Widgets]
    BY <1>3 DEF GetInit, InitDashboard, Active, Keys, TypeOK, TablesType
  <2>5. UNCHANGED <<db, nextId, up, copy, dirty, last, edits, drops>>
    BY <1>3 DEF GetInit, InitDashboard
  <2> QED BY <2>3, <2>4, <2>5 DEF TypeOK
<1> QED BY <1>1, <1>2, <1>3

LEMMA InitType == Init => TypeOK
<1> SUFFICES ASSUME Init PROVE TypeOK
  OBVIOUS
<1>1. db \in TablesType /\ 1 \in Ids
  BY DashboardsAssumption DEF Init, TablesType, NoWidgets, WidgetList, Options, Ids
<1>2. nextId \in 2..(MaxId + 1)
  BY DashboardsAssumption DEF Init
<1>3. Keys(db.rows[1]) \in SUBSET Widgets
  BY DEF Keys
<1>4. copy \in [Browsers -> TablesType] /\ act \in [Browsers -> Ids \union {0}]
      /\ drawn \in [Browsers -> SUBSET Widgets] /\ dirty \in [Browsers -> SUBSET Widgets]
  BY <1>1, <1>3 DEF Init
<1>5. <<>> \in Seq(RequestType) /\ <<>> \in Seq(EventType)
  OBVIOUS
<1>6. up \in [Browsers -> Seq(RequestType)] /\ down \in [Browsers -> Seq(EventType)]
  BY <1>5 DEF Init
<1>7. last \in Browsers /\ edits \in 0..MaxEdits /\ drops \in 0..MaxDrops
  BY DashboardsAssumption DEF Init
<1> QED BY <1>1, <1>2, <1>4, <1>6, <1>7 DEF TypeOK

LEMMA StepType == TypeOK /\ [Next]_vars => TypeOK'
<1> SUFFICES ASSUME TypeOK, [Next]_vars PROVE TypeOK'
  OBVIOUS
<1>1. CASE UNCHANGED vars
  BY <1>1 DEF vars, browserVars, TypeOK
<1>2. CASE Next
  BY <1>2, UserType, DaemonType, MessageType DEF Next
<1> QED BY <1>1, <1>2

(* All variables keep their types: no request or answer carries a          *)
(* dashboard or a widget that was never known to the tables.               *)
THEOREM TypeCorrect == Spec => []TypeOK
<1>1. Init => TypeOK
  BY InitType
<1>2. TypeOK /\ [Next]_vars => TypeOK'
  BY StepType
<1> QED BY <1>1, <1>2, PTL DEF Spec

-----------------------------------------------------------------------------
(* Deleted dashboards. *)

LEMMA QuietOnTables ==
    ASSUME NEW b \in Browsers,
           \/ User(b) \/ Reconnect(b) \/ GetDashboards(b) \/ GetInit(b) \/ HandleRefresh(b)
    PROVE  UNCHANGED <<db, last>>
BY DEF User, EditWidget, ResetWidget, DeleteWidget, AddWidget, DropWidget, MoveWidget,
       NewDashboard, DeleteDashboard, SelectDashboard, Editing, Edit, Reconnect,
       GetDashboards, GetInit, HandleRefresh

LEMMA StepIds == TypeOK /\ [Next]_vars => db'.ids \subseteq db.ids \union {nextId}
<1> SUFFICES ASSUME TypeOK, [Next]_vars PROVE db'.ids \subseteq db.ids \union {nextId}
  OBVIOUS
<1>1. CASE UNCHANGED vars
  BY <1>1 DEF vars
<1>2. ASSUME NEW b \in Browsers,
             \/ User(b) \/ Reconnect(b) \/ GetDashboards(b) \/ GetInit(b) \/ HandleRefresh(b)
      PROVE  db' = db
  BY <1>2, QuietOnTables
<1>3. ASSUME NEW b \in Browsers, HandleStore(b) PROVE db'.ids \subseteq db.ids
  BY <1>3, StoreDb
<1>4. ASSUME NEW b \in Browsers, HandleNew(b) PROVE db'.ids = db.ids \union {nextId}
  BY <1>4, NewDb
<1>5. ASSUME NEW b \in Browsers, HandleDelete(b) PROVE db'.ids \subseteq db.ids
  BY <1>5, DeleteDb
<1>6. ASSUME NEW b \in Browsers, HandleMove(b) PROVE db'.ids \subseteq db.ids
  BY <1>6, MoveDb
<1> QED BY <1>1, <1>2, <1>3, <1>4, <1>5, <1>6 DEF Next

(* Whatever requests browsers with an old copy have under way, none of     *)
(* them brings back a dashboard that was deleted.                          *)
THEOREM DeletedForGood == Spec => DeletedStaysDeleted
<1>1. TypeOK /\ [Next]_vars => [db'.ids \subseteq db.ids \union {nextId}]_vars
  BY StepIds
<1> QED BY <1>1, TypeCorrect, PTL DEF Spec, DeletedStaysDeleted

-----------------------------------------------------------------------------
(* Copies and versions.  A copy whose version of a dashboard is the        *)
(* tables' has the same widgets there, but for those the user changed in   *)
(* the copy.  Versions only grow, and a dashboard changes with its version. *)

UpToDate(T, D, x) ==
    \A d \in Ids :
        /\ T.ver[d] <= D.ver[d]
        /\ d \in D.ids /\ T.ver[d] = D.ver[d] =>
           \A w \in Widgets \ x : T.rows[d][w] = D.rows[d][w]

RequestKnown(r, D) ==
    r.kind = "store" =>
    /\ r.ver <= D.ver[r.id]
    /\ r.whole /\ r.id \in D.ids /\ r.ver = D.ver[r.id] =>
       \A w \in Widgets \ r.changed : r.list[w] = D.rows[r.id][w]

EventKnown(e, D) == e.event = "dashboards" => UpToDate(e.tables, D, {})

Grows(D, E) ==
    \A d \in Ids :
        /\ D.ver[d] <= E.ver[d]
        /\ d \in E.ids /\ D.ver[d] = E.ver[d] => d \in D.ids /\ D.rows[d] = E.rows[d]

CopiesKnown == \A b \in Browsers : UpToDate(copy[b], db, dirty[b])
RequestsKnown == \A b \in Browsers : \A i \in 1..Len(up[b]) : RequestKnown(up[b][i], db)
EventsKnown == \A b \in Browsers : \A i \in 1..Len(down[b]) : EventKnown(down[b][i], db)
Known == CopiesKnown /\ RequestsKnown /\ EventsKnown

LEMMA UpToDateGrows ==
    ASSUME NEW T \in TablesType, NEW D \in TablesType, NEW E \in TablesType, NEW x,
           UpToDate(T, D, x), Grows(D, E)
    PROVE  UpToDate(T, E, x)
<1>1. \A d \in Ids : T.ver[d] \in Nat /\ D.ver[d] \in Nat /\ E.ver[d] \in Nat
  BY DEF TablesType
<1> SUFFICES ASSUME NEW d \in Ids
             PROVE  /\ T.ver[d] <= E.ver[d]
                    /\ d \in E.ids /\ T.ver[d] = E.ver[d] =>
                       \A w \in Widgets \ x : T.rows[d][w] = E.rows[d][w]
  BY DEF UpToDate
<1>2. T.ver[d] <= D.ver[d] /\ D.ver[d] <= E.ver[d]
  BY DEF UpToDate, Grows
<1>3. T.ver[d] <= E.ver[d] /\ (T.ver[d] = E.ver[d] => T.ver[d] = D.ver[d] /\ D.ver[d] = E.ver[d])
  BY <1>1, <1>2
<1> QED BY <1>3 DEF UpToDate, Grows

LEMMA RequestGrows ==
    ASSUME NEW r \in RequestType, NEW D \in TablesType, NEW E \in TablesType,
           RequestKnown(r, D), Grows(D, E)
    PROVE  RequestKnown(r, E)
<1> SUFFICES ASSUME r.kind = "store"
             PROVE  /\ r.ver <= E.ver[r.id]
                    /\ r.whole /\ r.id \in E.ids /\ r.ver = E.ver[r.id] =>
                       \A w \in Widgets \ r.changed : r.list[w] = E.rows[r.id][w]
  BY DEF RequestKnown
<1>1. r.id \in Ids /\ r.ver \in Nat
  BY RequestKinds
<1>2. D.ver[r.id] \in Nat /\ E.ver[r.id] \in Nat
  BY <1>1 DEF TablesType
<1>3. r.ver <= D.ver[r.id] /\ D.ver[r.id] <= E.ver[r.id]
  BY <1>1 DEF RequestKnown, Grows
<1>4. r.ver <= E.ver[r.id] /\ (r.ver = E.ver[r.id] => r.ver = D.ver[r.id] /\ D.ver[r.id] = E.ver[r.id])
  BY <1>1, <1>2, <1>3
<1> QED BY <1>1, <1>4 DEF RequestKnown, Grows

LEMMA EventGrows ==
    ASSUME NEW e \in EventType, NEW D \in TablesType, NEW E \in TablesType,
           EventKnown(e, D), Grows(D, E)
    PROVE  EventKnown(e, E)
BY EventKinds, UpToDateGrows DEF EventKnown

LEMMA TablesUpToDate ==
    ASSUME db \in TablesType
    PROVE  UpToDate(Tables, db, {})
<1>1. \A d \in Ids : db.ver[d] \in Nat
  BY DEF TablesType
<1> QED BY <1>1 DEF UpToDate, Tables

LEMMA StepGrows ==
    ASSUME TypeOK, [Next]_vars
    PROVE  Grows(db, db')
<1>1. \A d \in Ids : db.ver[d] \in Nat
  BY DEF TypeOK, TablesType
<1>2. ASSUME db' = db PROVE Grows(db, db')
  BY <1>1, <1>2 DEF Grows
<1>3. ASSUME NEW b \in Browsers,
             \/ User(b) \/ Reconnect(b) \/ GetDashboards(b) \/ GetInit(b) \/ HandleRefresh(b)
      PROVE  db' = db
  BY <1>3, QuietOnTables
<1>4. ASSUME NEW b \in Browsers, HandleStore(b) PROVE Grows(db, db')
  <2>1. CASE db' = db
    BY <1>2, <2>1
  <2>2. CASE db' # db
    <3>1. PICK i \in Ids : /\ db'.ids = db.ids
                           /\ db'.ver = [db.ver EXCEPT ![i] = @ + 1]
                           /\ \A d \in Ids \ {i} : db'.rows[d] = db.rows[d]
      <4> DEFINE i == Request(b).id
      <4>1. i \in Ids /\ db'.ids = db.ids
            /\ db'.rows = [db.rows EXCEPT ![i] = Request(b).list]
            /\ db'.ver = [db.ver EXCEPT ![i] = @ + 1]
        BY <1>4, <2>2, StoreDb
      <4>2. \A d \in Ids \ {i} : db'.rows[d] = db.rows[d]
        BY <4>1 DEF TypeOK, TablesType
      <4> HIDE DEF i
      <4> QED BY <4>1, <4>2
    <3> QED BY <1>1, <3>1 DEF Grows, TypeOK, TablesType
  <2> QED BY <2>1, <2>2
<1>5. ASSUME NEW b \in Browsers, HandleNew(b) PROVE Grows(db, db')
  <2>1. /\ db'.ids = db.ids \union {nextId} /\ db'.rows = db.rows /\ nextId \in Ids
        /\ db'.ver = [db.ver EXCEPT ![nextId] = @ + 1]
    BY <1>5, NewDb
  <2> QED BY <1>1, <2>1 DEF Grows, TypeOK, TablesType
<1>6. ASSUME NEW b \in Browsers, HandleDelete(b) PROVE Grows(db, db')
  <2>1. /\ db'.ids = db.ids \ {Request(b).id} /\ db'.ver = db.ver
        /\ \A d \in Ids \ {Request(b).id} : db'.rows[d] = db.rows[d]
    BY <1>6, DeleteDb DEF TypeOK, TablesType
  <2> QED BY <1>1, <2>1 DEF Grows
<1>7. ASSUME NEW b \in Browsers, HandleMove(b) PROVE Grows(db, db')
  <2>1. CASE db' = db
    BY <1>2, <2>1
  <2>2. CASE db' # db
    <3>1. /\ db'.ids = db.ids /\ db' \in TablesType
          /\ \A d \in Ids : \/ db'.ver[d] = db.ver[d] /\ db'.rows[d] = db.rows[d]
                            \/ db'.ver[d] > db.ver[d]
      BY <1>7, <2>2, MoveDb
    <3>2. \A d \in Ids : db'.ver[d] \in Nat
      BY <3>1 DEF TablesType
    <3> QED BY <1>1, <3>1, <3>2 DEF Grows
  <2> QED BY <2>1, <2>2
<1>8. CASE UNCHANGED vars
  BY <1>2, <1>8 DEF vars
<1> QED BY <1>2, <1>3, <1>4, <1>5, <1>6, <1>7, <1>8 DEF Next

(* What the user stores is what the copy has, but for what was edited. *)
LEMMA StoreKnown ==
    ASSUME TypeOK, CopiesKnown, NEW b \in Browsers, NEW changed \in SUBSET Widgets,
           NEW list \in WidgetList, act[b] \in Ids,
           \A w \in Widgets \ changed : list[w] = Listed(b)[w]
    PROVE  RequestKnown(StoreRequest(b, list, changed), db)
<1> DEFINE r == StoreRequest(b, list, changed)
           T == copy[b]
<1>1. /\ r.id = act[b] /\ r.list = list /\ r.ver = T.ver[act[b]]
      /\ r.whole = (drawn[b] \union changed = Keys(T.rows[act[b]]) \union changed)
      /\ r.changed = changed \union dirty[b]
  BY DEF StoreRequest
<1>2. UpToDate(T, db, dirty[b])
  BY DEF CopiesKnown
<1>3. r.ver <= db.ver[r.id]
  BY <1>1, <1>2 DEF UpToDate
<1>4. ASSUME r.whole, r.id \in db.ids, r.ver = db.ver[r.id], NEW w \in Widgets \ r.changed
      PROVE  r.list[w] = db.rows[r.id][w]
  <2>1. w \in Widgets /\ w \notin changed /\ w \notin dirty[b]
    BY <1>1, <1>4
  <2>2. T.rows[act[b]][w] = db.rows[act[b]][w]
    BY <1>1, <1>2, <1>4, <2>1 DEF UpToDate
  <2>3. w \in drawn[b] <=> w \in Keys(T.rows[act[b]])
    BY <1>1, <1>4, <2>1
  <2>4. Listed(b)[w] = T.rows[act[b]][w]
    BY <2>1, <2>3 DEF Listed, Keys
  <2> QED BY <1>1, <2>1, <2>2, <2>4
<1> QED
  <2> HIDE DEF r
  <2>1. r.whole /\ r.id \in db.ids /\ r.ver = db.ver[r.id] =>
        \A w \in Widgets \ r.changed : r.list[w] = db.rows[r.id][w]
    BY <1>4
  <2>2. RequestKnown(r, db)
    BY <1>3, <2>1 DEF RequestKnown
  <2> QED BY <2>2 DEF r

LEMMA StepCopies ==
    ASSUME TypeOK, TypeOK', CopiesKnown, EventsKnown, [Next]_vars
    PROVE  CopiesKnown'
<1>1. Grows(db, db') /\ db \in TablesType /\ db' \in TablesType
  BY StepGrows DEF TypeOK
<1> SUFFICES ASSUME NEW c \in Browsers PROVE UpToDate(copy'[c], db', dirty'[c])
  BY DEF CopiesKnown
<1>2. UpToDate(copy[c], db, dirty[c]) /\ copy[c] \in TablesType
  BY DEF CopiesKnown, TypeOK
<1>3. CASE copy'[c] = copy[c] /\ dirty'[c] = dirty[c]
  BY <1>1, <1>2, <1>3, UpToDateGrows
<1>4. ASSUME NEW b \in Browsers, NEW w \in Widgets, EditWidget(b, w)
      PROVE  UpToDate(copy'[c], db', dirty'[c])
  <2>1. db' = db
    BY <1>4 DEF EditWidget, Editing, Edit
  <2>2. CASE c # b
    BY <1>3, <1>4, <2>2 DEF EditWidget, TypeOK
  <2>3. CASE c = b
    <3>1. dirty'[c] = dirty[c] \union {w} /\ copy'[c] = [copy[c] EXCEPT !.rows[act[c]][w] = "set"]
      BY <1>4, <2>3 DEF EditWidget, TypeOK
    <3>2. copy'[c].ver = copy[c].ver
      BY <1>2, <3>1 DEF TablesType
    <3>3. \A d \in Ids : \A v \in Widgets \ {w} : copy'[c].rows[d][v] = copy[c].rows[d][v]
      BY <1>2, <3>1 DEF TablesType, WidgetList
    <3> QED BY <1>2, <2>1, <3>1, <3>2, <3>3 DEF UpToDate
  <2> QED BY <2>2, <2>3
<1>5. ASSUME NEW b \in Browsers, GetDashboards(b) PROVE UpToDate(copy'[c], db', dirty'[c])
  <2>1. CASE c # b
    BY <1>3, <1>5, <2>1 DEF GetDashboards, TypeOK
  <2>2. CASE c = b
    <3>1. down[b] \in Seq(EventType) /\ down[b] # <<>>
      BY <1>5 DEF GetDashboards, TypeOK
    <3>2. Head(down[b]) = down[b][1] /\ 1 \in 1..Len(down[b])
      BY <3>1
    <3>3. EventKnown(Head(down[b]), db)
      BY <3>2 DEF EventsKnown
    <3>4. UpToDate(Head(down[b]).tables, db, {})
      BY <1>5, <3>3 DEF GetDashboards, EventKnown
    <3>5. copy'[c] = Head(down[b]).tables /\ dirty'[c] = {} /\ db' = db
      BY <1>5, <2>2 DEF GetDashboards, TypeOK
    <3> QED BY <3>4, <3>5
  <2> QED BY <2>1, <2>2
<1>6. ASSUME NEW b \in Browsers,
             \/ \E w \in Widgets : \/ ResetWidget(b, w) \/ DeleteWidget(b, w)
                                   \/ \E to \in Ids : MoveWidget(b, w, to)
             \/ \E chosen \in SUBSET Widgets : AddWidget(b, chosen)
             \/ DropWidget(b) \/ NewDashboard(b) \/ DeleteDashboard(b)
             \/ \E d \in Ids : SelectDashboard(b, d)
             \/ Reconnect(b) \/ GetInit(b)
      PROVE  UNCHANGED <<copy, dirty>>
  BY <1>6 DEF ResetWidget, DeleteWidget, AddWidget, DropWidget, MoveWidget, NewDashboard,
              DeleteDashboard, SelectDashboard, InitDashboard, Reconnect, GetInit, browserVars
<1>7. ASSUME NEW b \in Browsers,
             \/ HandleStore(b) \/ HandleNew(b) \/ HandleDelete(b)
             \/ HandleMove(b) \/ HandleRefresh(b)
      PROVE  UNCHANGED <<copy, dirty>>
  BY <1>7 DEF HandleStore, HandleNew, HandleDelete, HandleMove, HandleRefresh, Handles, browserVars
<1>8. CASE UNCHANGED vars
  BY <1>3, <1>8 DEF vars, browserVars
<1> QED BY <1>3, <1>4, <1>5, <1>6, <1>7, <1>8 DEF Next, User

(* Requests that are not stores say nothing of the tables. *)
LEMMA OtherRequests ==
    ASSUME NEW r, NEW D, r.kind # "store" PROVE RequestKnown(r, D)
BY DEF RequestKnown

(* What a user's step appends. *)
AsksKnown(b) == \E m \in Seq(RequestType) :
    Ask(b, m) /\ \A i \in 1..Len(m) : RequestKnown(m[i], db)

LEMMA OneRequest ==
    ASSUME NEW b, NEW r \in RequestType, Ask(b, <<r>>), RequestKnown(r, db)
    PROVE  AsksKnown(b)
<1>1. <<r>> \in Seq(RequestType) /\ \A i \in 1..Len(<<r>>) : RequestKnown(<<r>>[i], db)
  OBVIOUS
<1> QED BY <1>1 DEF AsksKnown

LEMMA TwoRequests ==
    ASSUME NEW b, NEW r \in RequestType, Ask(b, <<r, Refresh>>), RequestKnown(r, db)
    PROVE  AsksKnown(b)
<1>1. PICK f \in RequestType : f = Refresh
  BY DEF Refresh, RequestType
<1>2. RequestKnown(f, db)
  BY <1>1, OtherRequests DEF Refresh
<1>3. <<r, f>> \in Seq(RequestType) /\ \A i \in 1..Len(<<r, f>>) : RequestKnown(<<r, f>>[i], db)
  BY <1>2
<1>4. Ask(b, <<r, f>>)
  BY <1>1
<1> QED BY <1>3, <1>4 DEF AsksKnown

LEMMA UserAsks ==
    ASSUME TypeOK, CopiesKnown, NEW b \in Browsers, User(b)
    PROVE  AsksKnown(b) \/ UNCHANGED up
<1>1. ASSUME NEW list \in WidgetList, NEW changed \in SUBSET Widgets, act[b] \in Ids,
             \A w \in Widgets \ changed : list[w] = Listed(b)[w],
             StoreThenRefresh(b, list, changed)
      PROVE  AsksKnown(b)
  <2>1. PICK r \in RequestType : r = StoreRequest(b, list, changed)
    <3>1. <<StoreRequest(b, list, changed), Refresh>> \in Seq(RequestType)
      BY <1>1, StoreTyped
    <3>2. <<StoreRequest(b, list, changed), Refresh>>[1] \in RequestType
      BY <3>1
    <3> QED BY <3>2
  <2>2. RequestKnown(r, db)
    BY <1>1, <2>1, StoreKnown
  <2>3. Ask(b, <<r, Refresh>>)
    BY <1>1, <2>1 DEF StoreThenRefresh, StoreRequest
  <2> QED BY <2>2, <2>3, TwoRequests
<1>2. ASSUME Editing(b) PROVE act[b] \in Ids /\ Listed(b) \in WidgetList
  BY <1>2, EditingTyped, ListedTyped
<1>3. ASSUME NEW w \in Widgets, NEW x \in Options \union {"none"}, Editing(b),
             StoreThenRefresh(b, [Listed(b) EXCEPT ![w] = x], {w})
      PROVE  AsksKnown(b)
  <2>1. PICK list \in WidgetList : list = [Listed(b) EXCEPT ![w] = x]
    BY <1>2, <1>3 DEF WidgetList
  <2>2. \A v \in Widgets \ {w} : list[v] = Listed(b)[v]
    BY <1>2, <1>3, <2>1 DEF WidgetList
  <2>3. StoreThenRefresh(b, list, {w})
    BY <1>3, <2>1
  <2> QED BY <1>1, <1>2, <1>3, <2>2, <2>3
<1>4. ASSUME NEW w \in Widgets, EditWidget(b, w) PROVE AsksKnown(b)
  BY <1>3, <1>4 DEF EditWidget, Options
<1>5. ASSUME NEW w \in Widgets, ResetWidget(b, w) PROVE AsksKnown(b)
  BY <1>3, <1>5 DEF ResetWidget, Options
<1>6. ASSUME NEW w \in Widgets, DeleteWidget(b, w) PROVE AsksKnown(b)
  BY <1>3, <1>6 DEF DeleteWidget
<1>7. ASSUME NEW w \in Widgets, NEW to \in Ids, MoveWidget(b, w, to) PROVE AsksKnown(b)
  <2>1. act[b] \in Ids
    BY <1>7, <1>2 DEF MoveWidget
  <2>2. PICK r \in RequestType :
          r = [kind |-> "move", key |-> w, from |-> act[b], to |-> to]
    BY <2>1 DEF RequestType
  <2>3. RequestKnown(r, db)
    BY <2>2, OtherRequests
  <2> QED BY <1>7, <2>2, <2>3, OneRequest DEF MoveWidget
<1>8. CASE NewDashboard(b)
  <2>1. PICK r \in RequestType : r = [kind |-> "new"]
    BY DEF RequestType
  <2>2. RequestKnown(r, db)
    BY <2>1, OtherRequests
  <2> QED BY <1>8, <2>1, <2>2, TwoRequests DEF NewDashboard
<1>9. CASE DeleteDashboard(b)
  <2>1. PICK r \in RequestType : r = [kind |-> "delete", id |-> act[b]]
    BY <1>2, <1>9 DEF DeleteDashboard, RequestType
  <2>2. RequestKnown(r, db)
    BY <2>1, OtherRequests
  <2> QED BY <1>9, <2>1, <2>2, TwoRequests DEF DeleteDashboard
<1>10. CASE DropWidget(b)
  <2>1. Listed(b) \in WidgetList /\ act[b] \in Ids /\ {} \in SUBSET Widgets
    BY <1>2, <1>10 DEF DropWidget
  <2>2. StoreThenRefresh(b, Listed(b), {})
    BY <1>10 DEF DropWidget
  <2> QED BY <1>1, <2>1, <2>2
<1>11. ASSUME NEW d \in Ids, SelectDashboard(b, d) PROVE UNCHANGED up
  BY <1>11 DEF SelectDashboard
<1>12. ASSUME NEW chosen \in SUBSET Widgets, AddWidget(b, chosen) PROVE AsksKnown(b)
  BY <1>1, <1>12, AddTyped DEF AddWidget
<1> QED BY <1>4, <1>5, <1>6, <1>7, <1>8, <1>9, <1>10, <1>11, <1>12 DEF User

LEMMA StepRequests ==
    ASSUME TypeOK, TypeOK', CopiesKnown, RequestsKnown, [Next]_vars
    PROVE  RequestsKnown'
<1>1. Grows(db, db') /\ db \in TablesType /\ db' \in TablesType
  BY StepGrows DEF TypeOK
<1> SUFFICES ASSUME NEW c \in Browsers, NEW i \in 1..Len(up'[c])
             PROVE  RequestKnown(up'[c][i], db')
  BY DEF RequestsKnown
<1>2. ASSUME NEW j \in 1..Len(up[c]) PROVE RequestKnown(up[c][j], db')
  <2>0. up[c] \in Seq(RequestType)
    BY DEF TypeOK
  <2>1. up[c][j] \in RequestType /\ RequestKnown(up[c][j], db)
    <3>1. up[c][j] \in RequestType
      BY <2>0
    <3> QED BY <3>1 DEF RequestsKnown
  <2> QED BY <1>1, <2>1, RequestGrows
<1>3. CASE up'[c] = up[c]
  BY <1>2, <1>3
<1>4. ASSUME NEW b \in Browsers, User(b) PROVE RequestKnown(up'[c][i], db')
  <2>1. CASE UNCHANGED up
    BY <1>3, <2>1
  <2>2. CASE AsksKnown(b)
    <3>1. PICK m \in Seq(RequestType) :
            up' = [up EXCEPT ![b] = @ \o m] /\ \A k \in 1..Len(m) : RequestKnown(m[k], db)
      BY <2>2 DEF AsksKnown, Ask
    <3>2. db' = db
      BY <1>4, QuietOnTables
    <3>3. CASE c # b
      BY <1>3, <3>1, <3>3 DEF TypeOK
    <3>4. CASE c = b
      <4>1. up[c] \in Seq(RequestType) /\ up'[c] = up[c] \o m
        BY <3>1, <3>4 DEF TypeOK
      <4>2. CASE i <= Len(up[c])
        BY <1>2, <4>1, <4>2
      <4>3. CASE i > Len(up[c])
        <5>1. i - Len(up[c]) \in 1..Len(m) /\ up'[c][i] = m[i - Len(up[c])]
          BY <4>1, <4>3
        <5> QED BY <3>1, <3>2, <5>1
      <4> QED BY <4>1, <4>2, <4>3
    <3> QED BY <3>3, <3>4
  <2> QED BY <1>4, <2>1, <2>2, UserAsks
<1>5. ASSUME NEW b \in Browsers, NEW kind, Handles(b, kind) PROVE RequestKnown(up'[c][i], db')
  <2>1. CASE c # b
    BY <1>3, <1>5, <2>1 DEF Handles, TypeOK
  <2>2. CASE c = b
    <3>1. up[c] \in Seq(RequestType) /\ up[c] # <<>> /\ up'[c] = Tail(up[c])
      BY <1>5, <2>2 DEF Handles, TypeOK
    <3>2. i + 1 \in 1..Len(up[c]) /\ up'[c][i] = up[c][i+1]
      BY <3>1, HeadAndTail
    <3> QED BY <1>2, <3>2
  <2> QED BY <2>1, <2>2
<1>6. ASSUME NEW b \in Browsers, Reconnect(b) PROVE RequestKnown(up'[c][i], db')
  <2>1. CASE c # b
    BY <1>3, <1>6, <2>1 DEF Reconnect, TypeOK
  <2>2. CASE c = b
    <3>1. up'[c] = <<[kind |-> "login"]>>
      BY <1>6, <2>2 DEF Reconnect, TypeOK
    <3>2. up'[c][i] = [kind |-> "login"]
      BY <3>1
    <3> QED BY <3>2, OtherRequests
  <2> QED BY <2>1, <2>2
<1>7. ASSUME NEW b \in Browsers, GetDashboards(b) \/ GetInit(b)
      PROVE  RequestKnown(up'[c][i], db')
  BY <1>3, <1>7 DEF GetDashboards, GetInit
<1>8. ASSUME NEW b \in Browsers,
             \/ HandleStore(b) \/ HandleNew(b) \/ HandleDelete(b)
             \/ HandleMove(b) \/ HandleRefresh(b)
      PROVE  RequestKnown(up'[c][i], db')
  BY <1>5, <1>8 DEF HandleStore, HandleNew, HandleDelete, HandleMove, HandleRefresh
<1>9. CASE UNCHANGED vars
  BY <1>3, <1>9 DEF vars
<1> QED BY <1>4, <1>6, <1>7, <1>8, <1>9 DEF Next

(* What an answer appends. *)
AnswersKnown(b) == \E m \in Seq(EventType) :
    Answer(b, m) /\ \A i \in 1..Len(m) : EventKnown(m[i], db')

LEMMA DaemonAnswers ==
    ASSUME TypeOK, TypeOK', NEW b \in Browsers, HandleMove(b) \/ HandleRefresh(b)
    PROVE  AnswersKnown(b) \/ UNCHANGED down
<1>1. CASE HandleMove(b)
  <2>1. CASE UNCHANGED down
    BY <2>1
  <2>2. CASE Answer(b, <<DashboardsEvent(Tables')>>)
    <3>1. Tables' \in TablesType /\ UpToDate(Tables', db', {})
      <4>1. db' \in TablesType
        BY DEF TypeOK
      <4>2. \A d \in Ids : db'.ver[d] \in Nat
        BY <4>1 DEF TablesType
      <4>3. UpToDate(Tables', db', {})
        BY <4>2 DEF UpToDate, Tables
      <4> QED BY <4>1, <4>3, TablesTypedAfter
    <3>2. PICK e \in EventType : e = DashboardsEvent(Tables')
      BY <3>1 DEF DashboardsEvent, EventType
    <3>3. EventKnown(e, db')
      BY <3>1, <3>2 DEF EventKnown, DashboardsEvent
    <3>4. <<e>> \in Seq(EventType) /\ \A i \in 1..Len(<<e>>) : EventKnown(<<e>>[i], db')
      BY <3>3
    <3> QED BY <2>2, <3>2, <3>4 DEF AnswersKnown
  <2> QED BY <1>1, <2>1, <2>2 DEF HandleMove
<1>2. CASE HandleRefresh(b)
  <2>1. db' = db /\ db \in TablesType
    BY <1>2 DEF HandleRefresh, TypeOK
  <2>2. UpToDate(Tables, db', {}) /\ Tables \in TablesType
    BY <2>1, TablesUpToDate, TablesTyped
  <2>3. PICK e \in EventType, f \in EventType : e = DashboardsEvent(Tables) /\ f = InitEvent
    BY <2>2 DEF DashboardsEvent, InitEvent, EventType
  <2>4. EventKnown(e, db') /\ EventKnown(f, db')
    BY <2>2, <2>3 DEF EventKnown, DashboardsEvent, InitEvent
  <2>5. <<e, f>> \in Seq(EventType) /\ \A i \in 1..Len(<<e, f>>) : EventKnown(<<e, f>>[i], db')
    BY <2>4
  <2> QED BY <1>2, <2>3, <2>5 DEF HandleRefresh, AnswersKnown
<1> QED BY <1>1, <1>2

LEMMA StepEvents ==
    ASSUME TypeOK, TypeOK', EventsKnown, [Next]_vars
    PROVE  EventsKnown'
<1>1. Grows(db, db') /\ db \in TablesType /\ db' \in TablesType
  BY StepGrows DEF TypeOK
<1> SUFFICES ASSUME NEW c \in Browsers, NEW i \in 1..Len(down'[c])
             PROVE  EventKnown(down'[c][i], db')
  BY DEF EventsKnown
<1>2. ASSUME NEW j \in 1..Len(down[c]) PROVE EventKnown(down[c][j], db')
  <2>0. down[c] \in Seq(EventType)
    BY DEF TypeOK
  <2>1. down[c][j] \in EventType /\ EventKnown(down[c][j], db)
    <3>1. down[c][j] \in EventType
      BY <2>0
    <3> QED BY <3>1 DEF EventsKnown
  <2> QED BY <1>1, <2>1, EventGrows
<1>3. CASE down'[c] = down[c]
  BY <1>2, <1>3
<1>4. ASSUME NEW b \in Browsers, HandleMove(b) \/ HandleRefresh(b)
      PROVE  EventKnown(down'[c][i], db')
  <2>1. CASE UNCHANGED down
    BY <1>3, <2>1
  <2>2. CASE AnswersKnown(b)
    <3>1. PICK m \in Seq(EventType) :
            down' = [down EXCEPT ![b] = @ \o m] /\ \A k \in 1..Len(m) : EventKnown(m[k], db')
      BY <2>2 DEF AnswersKnown, Answer
    <3>2. CASE c # b
      BY <1>3, <3>1, <3>2 DEF TypeOK
    <3>3. CASE c = b
      <4>1. down[c] \in Seq(EventType) /\ down'[c] = down[c] \o m
        BY <3>1, <3>3 DEF TypeOK
      <4>2. CASE i <= Len(down[c])
        BY <1>2, <4>1, <4>2
      <4>3. CASE i > Len(down[c])
        <5>1. i - Len(down[c]) \in 1..Len(m) /\ down'[c][i] = m[i - Len(down[c])]
          BY <4>1, <4>3
        <5> QED BY <3>1, <5>1
      <4> QED BY <4>1, <4>2, <4>3
    <3> QED BY <3>2, <3>3
  <2> QED BY <1>4, <2>1, <2>2, DaemonAnswers
<1>5. ASSUME NEW b \in Browsers, GetDashboards(b) \/ GetInit(b)
      PROVE  EventKnown(down'[c][i], db')
  <2>1. CASE c # b
    BY <1>3, <1>5, <2>1 DEF GetDashboards, GetInit, TypeOK
  <2>2. CASE c = b
    <3>1. down[c] \in Seq(EventType) /\ down[c] # <<>> /\ down'[c] = Tail(down[c])
      BY <1>5, <2>2 DEF GetDashboards, GetInit, TypeOK
    <3>2. i + 1 \in 1..Len(down[c]) /\ down'[c][i] = down[c][i+1]
      BY <3>1, HeadAndTail
    <3> QED BY <1>2, <3>2
  <2> QED BY <2>1, <2>2
<1>6. ASSUME NEW b \in Browsers, Reconnect(b) PROVE EventKnown(down'[c][i], db')
  <2>1. CASE c # b
    BY <1>3, <1>6, <2>1 DEF Reconnect, TypeOK
  <2>2. CASE c = b
    BY <1>6, <2>2 DEF Reconnect, TypeOK
  <2> QED BY <2>1, <2>2
<1>7. ASSUME NEW b \in Browsers,
             User(b) \/ HandleStore(b) \/ HandleNew(b) \/ HandleDelete(b)
      PROVE  UNCHANGED down
  BY <1>7 DEF User, EditWidget, ResetWidget, DeleteWidget, AddWidget, DropWidget, MoveWidget,
              NewDashboard, DeleteDashboard, SelectDashboard, Editing, Edit,
              HandleStore, HandleNew, HandleDelete
<1>8. CASE UNCHANGED vars
  BY <1>3, <1>8 DEF vars
<1> QED BY <1>3, <1>4, <1>5, <1>6, <1>7, <1>8 DEF Next

LEMMA InitKnown == Init => Known
<1> SUFFICES ASSUME Init PROVE Known
  OBVIOUS
<1>1. db \in TablesType
  BY InitType DEF TypeOK
<1>2. \A d \in Ids : db.ver[d] \in Nat
  BY <1>1 DEF TablesType
<1>3. CopiesKnown
  <2>1. UpToDate(db, db, {})
    BY <1>2 DEF UpToDate
  <2>2. \A b \in Browsers : copy[b] = db /\ dirty[b] = {}
    BY DEF Init
  <2> QED BY <2>1, <2>2 DEF CopiesKnown
<1>4. RequestsKnown /\ EventsKnown
  BY DEF Init, RequestsKnown, EventsKnown
<1> QED BY <1>3, <1>4 DEF Known

(* The only steps that take a store out of a queue handle it or drop the   *)
(* whole connection, and the second leave the tables as they are.          *)
LEMMA StoreStep ==
    ASSUME TypeOK, Known, [Next]_vars, NEW b \in Browsers,
           up[b] # <<>>, Request(b).kind = "store", up'[b] = Tail(up[b])
    PROVE  HandleStore(b) \/ db' = db
<1>1. up[b] \in Seq(RequestType)
  BY DEF TypeOK
<1>2. up'[b] # up[b]
  <2>1. PICK q \in Seq(RequestType) : q = up[b] /\ q # <<>>
    BY <1>1
  <2>2. Len(Tail(q)) = Len(q) - 1 /\ Len(q) \in Nat
    BY <2>1, HeadAndTail
  <2>3. Len(Tail(q)) # Len(q)
    BY <2>2
  <2> QED BY <2>1, <2>3
<1>3. ASSUME NEW c \in Browsers,
             \/ User(c) \/ Reconnect(c) \/ GetDashboards(c) \/ GetInit(c) \/ HandleRefresh(c)
      PROVE  db' = db
  BY <1>3, QuietOnTables
<1>4. ASSUME NEW c \in Browsers, NEW kind, Handles(c, kind) PROVE c = b /\ kind = "store"
  BY <1>2, <1>4 DEF Handles, TypeOK
<1>5. ASSUME NEW c \in Browsers, HandleNew(c) \/ HandleDelete(c) \/ HandleMove(c)
      PROVE  FALSE
  BY <1>4, <1>5 DEF HandleNew, HandleDelete, HandleMove
<1>6. ASSUME NEW c \in Browsers, HandleStore(c) PROVE c = b
  BY <1>4, <1>6 DEF HandleStore
<1>7. CASE UNCHANGED vars
  BY <1>7 DEF vars
<1> QED BY <1>3, <1>5, <1>6, <1>7 DEF Next

LEMMA StepFresh ==
    ASSUME TypeOK, Known, [Next]_vars, NEW b \in Browsers,
           up[b] # <<>>, Request(b).kind = "store", up'[b] = Tail(up[b]),
           Request(b).whole, Request(b).ver = db.ver[Request(b).id],
           NEW w \in Widgets \ Request(b).changed
    PROVE  db'.rows[Request(b).id][w] = db.rows[Request(b).id][w]
<1>1. CASE db' = db
  BY <1>1
<1>2. CASE HandleStore(b) /\ db' # db
  <2>1. up[b] \in Seq(RequestType) /\ up[b] # <<>>
    BY DEF TypeOK
  <2>2. Request(b) = up[b][1] /\ 1 \in 1..Len(up[b])
    BY <2>1 DEF Request
  <2>3. RequestKnown(Request(b), db)
    BY <2>2 DEF Known, RequestsKnown
  <2>4. Request(b).id \in Ids /\ Request(b).id \in db.ids
        /\ db'.rows = [db.rows EXCEPT ![Request(b).id] = Request(b).list]
    BY <1>2, StoreDb
  <2>5. db'.rows[Request(b).id] = Request(b).list
    BY <2>4 DEF TypeOK, TablesType
  <2> QED BY <2>3, <2>4, <2>5 DEF RequestKnown
<1> QED BY <1>1, <1>2, StoreStep

(* Storing the whole list is safe for a browser that has the newest tables *)
(* and draws all of them: nothing but what its user edited changes, also   *)
(* when other browsers' requests were handled since.                       *)
THEOREM FreshEditsKeepRest == Spec => FreshEditKeepsRest
<1> DEFINE Keeps == \A b \in Browsers :
        up[b] # <<>> /\ Request(b).kind = "store" /\ up'[b] = Tail(up[b]) =>
        LET r == Request(b)
        IN r.whole /\ r.ver = db.ver[r.id] =>
           \A w \in Widgets \ r.changed : db'.rows[r.id][w] = db.rows[r.id][w]
<1>1. Init => Known
  BY InitKnown
<1>2. TypeOK /\ TypeOK' /\ Known /\ [Next]_vars => Known'
  BY StepCopies, StepRequests, StepEvents DEF Known
<1>3. TypeOK /\ Known /\ [Next]_vars => [Keeps]_vars
  BY StepFresh
<1> QED BY <1>1, <1>2, <1>3, TypeCorrect, PTL DEF Spec, FreshEditKeepsRest

-----------------------------------------------------------------------------
(* The editor's copy.  A request that changes the tables, but for a move,  *)
(* is followed by a refresh; so the browser whose request changed them     *)
(* last has an answer to come that shows them as they are, or has seen it. *)

NeedsRefresh == {"store", "new", "delete"}
Answered == {"refresh", "login"}

Followed == \A b \in Browsers : \A i \in 1..Len(up[b]) :
    up[b][i].kind \in NeedsRefresh =>
    i + 1 \in 1..Len(up[b]) /\ up[b][i+1].kind = "refresh"

Pending(b) == \E i \in 1..Len(up[b]) : up[b][i].kind \in Answered

Newest(b, tables) ==
    \/ /\ copy[b] = tables
       /\ \A k \in 1..Len(down[b]) : down[b][k].event # "dashboards"
    \/ \E j \in 1..Len(down[b]) :
        /\ down[b][j].event = "dashboards" /\ down[b][j].tables = tables
        /\ \A k \in (j+1)..Len(down[b]) : down[b][k].event # "dashboards"

EditorInformed == \A b \in Browsers : last = b => Pending(b) \/ Newest(b, Tables)

AsksWithRefresh(b) == \E m \in Seq(RequestType) : Len(m) = 2 /\ m[2] = Refresh /\ Ask(b, m)
AsksMove(b) == \E m \in Seq(RequestType) : Len(m) = 1 /\ m[1].kind = "move" /\ Ask(b, m)

LEMMA RefreshAsked ==
    ASSUME NEW b, NEW r \in RequestType, Ask(b, <<r, Refresh>>)
    PROVE  AsksWithRefresh(b)
<1>1. PICK f \in RequestType : f = Refresh
  BY DEF Refresh, RequestType
<1>2. PICK m : m = <<r, f>>
  OBVIOUS
<1>3. m \in Seq(RequestType) /\ Len(m) = 2 /\ m[2] = f
  BY <1>2
<1>4. Ask(b, m)
  BY <1>1, <1>2
<1> QED BY <1>1, <1>3, <1>4 DEF AsksWithRefresh

LEMMA MoveAsked ==
    ASSUME NEW b, NEW r \in RequestType, r.kind = "move", Ask(b, <<r>>)
    PROVE  AsksMove(b)
<1>1. PICK m : m = <<r>>
  OBVIOUS
<1>2. m \in Seq(RequestType) /\ Len(m) = 1 /\ m[1] = r
  BY <1>1
<1>3. Ask(b, m)
  BY <1>1
<1> QED BY <1>2, <1>3 DEF AsksMove

LEMMA UserShape ==
    ASSUME TypeOK, NEW b \in Browsers, User(b)
    PROVE  \/ AsksWithRefresh(b)
           \/ UNCHANGED copy /\ (AsksMove(b) \/ UNCHANGED up)
<1>1. ASSUME NEW list \in WidgetList, NEW changed \in SUBSET Widgets, Editing(b),
             StoreThenRefresh(b, list, changed)
      PROVE  AsksWithRefresh(b)
  <2>1. act[b] \in Ids
    BY <1>1, EditingTyped
  <2>2. PICK r \in RequestType : r = StoreRequest(b, list, changed)
    <3>1. <<StoreRequest(b, list, changed), Refresh>> \in Seq(RequestType)
      BY <1>1, <2>1, StoreTyped
    <3>2. <<StoreRequest(b, list, changed), Refresh>>[1] \in RequestType
      BY <3>1
    <3> QED BY <3>2
  <2>3. Ask(b, <<r, Refresh>>)
    BY <1>1, <2>2 DEF StoreThenRefresh, StoreRequest
  <2> QED BY <2>3, RefreshAsked
<1>2. ASSUME NEW w \in Widgets, NEW x \in Options \union {"none"}, Editing(b),
             StoreThenRefresh(b, [Listed(b) EXCEPT ![w] = x], {w})
      PROVE  AsksWithRefresh(b)
  <2>1. PICK list \in WidgetList : list = [Listed(b) EXCEPT ![w] = x]
    BY <1>2, EditingTyped, ListedTyped DEF WidgetList
  <2>2. StoreThenRefresh(b, list, {w})
    BY <1>2, <2>1
  <2> QED BY <1>1, <1>2, <2>2
<1>3. ASSUME NEW w \in Widgets, EditWidget(b, w) \/ ResetWidget(b, w) \/ DeleteWidget(b, w)
      PROVE  AsksWithRefresh(b)
  BY <1>2, <1>3 DEF EditWidget, ResetWidget, DeleteWidget, Options
<1>4. CASE DropWidget(b)
  <2>1. PICK list \in WidgetList : list = Listed(b)
    BY <1>4, EditingTyped, ListedTyped DEF DropWidget
  <2>2. Editing(b) /\ StoreThenRefresh(b, list, {}) /\ {} \in SUBSET Widgets
    BY <1>4, <2>1 DEF DropWidget
  <2> QED BY <1>1, <2>2
<1>5. CASE NewDashboard(b)
  <2>1. PICK r \in RequestType : r = [kind |-> "new"]
    BY DEF RequestType
  <2>2. Ask(b, <<r, Refresh>>)
    BY <1>5, <2>1 DEF NewDashboard
  <2> QED BY <2>2, RefreshAsked
<1>6. CASE DeleteDashboard(b)
  <2>1. PICK r \in RequestType : r = [kind |-> "delete", id |-> act[b]]
    BY <1>6, EditingTyped DEF DeleteDashboard, RequestType
  <2>2. Ask(b, <<r, Refresh>>)
    BY <1>6, <2>1 DEF DeleteDashboard
  <2> QED BY <2>2, RefreshAsked
<1>7. ASSUME NEW w \in Widgets, NEW to \in Ids, MoveWidget(b, w, to)
      PROVE  AsksMove(b) /\ UNCHANGED copy
  <2>1. PICK r \in RequestType :
          r = [kind |-> "move", key |-> w, from |-> act[b], to |-> to]
    BY <1>7, EditingTyped DEF MoveWidget, RequestType
  <2>2. Ask(b, <<r>>) /\ r.kind = "move"
    BY <1>7, <2>1 DEF MoveWidget
  <2>3. UNCHANGED copy
    BY <1>7 DEF MoveWidget
  <2> QED BY <2>2, <2>3, MoveAsked
<1>8. ASSUME NEW d \in Ids, SelectDashboard(b, d) PROVE UNCHANGED <<up, copy>>
  BY <1>8 DEF SelectDashboard, InitDashboard
<1>9. ASSUME NEW chosen \in SUBSET Widgets, AddWidget(b, chosen) PROVE AsksWithRefresh(b)
  BY <1>1, <1>9, AddTyped DEF AddWidget
<1> QED BY <1>3, <1>4, <1>5, <1>6, <1>7, <1>8, <1>9 DEF User

(* Other browsers are not touched by what happens at browser b. *)
LEMMA OthersUntouched ==
    ASSUME TypeOK, NEW b \in Browsers, NEW c \in Browsers, c # b,
           \/ User(b) \/ Reconnect(b) \/ GetDashboards(b) \/ GetInit(b)
           \/ HandleStore(b) \/ HandleNew(b) \/ HandleDelete(b)
           \/ HandleMove(b) \/ HandleRefresh(b)
    PROVE  up'[c] = up[c] /\ down'[c] = down[c] /\ copy'[c] = copy[c]
<1>1. ASSUME User(b) PROVE up'[c] = up[c] /\ down'[c] = down[c] /\ copy'[c] = copy[c]
  <2>1. up'[c] = up[c]
    BY <1>1, UserShape DEF AsksWithRefresh, AsksMove, Ask, TypeOK
  <2>2. down' = down /\ copy'[c] = copy[c]
    BY <1>1 DEF User, EditWidget, ResetWidget, DeleteWidget, AddWidget, DropWidget, MoveWidget,
                NewDashboard, DeleteDashboard, SelectDashboard, InitDashboard, Editing, Edit,
                browserVars, TypeOK
  <2> QED BY <2>1, <2>2
<1>2. ASSUME Reconnect(b) \/ GetDashboards(b) \/ GetInit(b)
      PROVE  up'[c] = up[c] /\ down'[c] = down[c] /\ copy'[c] = copy[c]
  BY <1>2 DEF Reconnect, GetDashboards, GetInit, InitDashboard, browserVars, TypeOK
<1>3. ASSUME \/ HandleStore(b) \/ HandleNew(b) \/ HandleDelete(b)
             \/ HandleMove(b) \/ HandleRefresh(b)
      PROVE  up'[c] = up[c] /\ down'[c] = down[c] /\ copy'[c] = copy[c]
  <2>1. up'[c] = up[c] /\ copy' = copy
    BY <1>3 DEF HandleStore, HandleNew, HandleDelete, HandleMove, HandleRefresh, Handles,
                browserVars, TypeOK
  <2>2. down'[c] = down[c]
    BY <1>3 DEF HandleStore, HandleNew, HandleDelete, HandleMove, HandleRefresh, Answer, TypeOK
  <2> QED BY <2>1, <2>2
<1> QED BY <1>1, <1>2, <1>3

LEMMA StepFollowed ==
    ASSUME TypeOK, Followed, [Next]_vars
    PROVE  Followed'
<1> SUFFICES ASSUME NEW c \in Browsers, NEW i \in 1..Len(up'[c]),
                    up'[c][i].kind \in NeedsRefresh
             PROVE  i + 1 \in 1..Len(up'[c]) /\ up'[c][i+1].kind = "refresh"
  BY DEF Followed
<1>1. up[c] \in Seq(RequestType)
  BY DEF TypeOK
<1>2. CASE up'[c] = up[c]
  BY <1>2 DEF Followed
<1>3. ASSUME NEW b \in Browsers, User(b), c = b
      PROVE  i + 1 \in 1..Len(up'[c]) /\ up'[c][i+1].kind = "refresh"
  <2>1. ASSUME NEW m \in Seq(RequestType), Len(m) = 2, m[2] = Refresh, up'[c] = up[c] \o m
        PROVE  i + 1 \in 1..Len(up'[c]) /\ up'[c][i+1].kind = "refresh"
    <3>1. m[2].kind = "refresh"
      BY <2>1 DEF Refresh
    <3>2. /\ Len(up'[c]) = Len(up[c]) + 2 /\ Len(up[c]) \in Nat
          /\ \A k \in 1..Len(up[c]) : up'[c][k] = up[c][k]
          /\ up'[c][Len(up[c]) + 2] = m[2]
      <4>1. PICK q \in Seq(RequestType) : q = up[c]
        BY <1>1
      <4>2. /\ Len(q \o m) = Len(q) + 2 /\ Len(q) \in Nat
            /\ \A k \in 1..Len(q) : (q \o m)[k] = q[k]
            /\ (q \o m)[Len(q) + 2] = m[2]
        <5>1. Len(m) = 2
          BY <2>1
        <5> QED BY <5>1, JoinedTwo
      <4>3. up'[c] = q \o m
        BY <2>1, <4>1
      <4> QED BY <4>1, <4>2, <4>3
    <3>3. CASE i \in 1..Len(up[c])
      <4>1. up[c][i].kind \in NeedsRefresh
        BY <3>2, <3>3
      <4>2. i + 1 \in 1..Len(up[c]) /\ up[c][i+1].kind = "refresh"
        BY <3>3, <4>1 DEF Followed
      <4> QED BY <3>2, <4>2
    <3>4. CASE i = Len(up[c]) + 1
      BY <3>1, <3>2, <3>4
    <3>5. CASE i = Len(up[c]) + 2
      BY <3>1, <3>2, <3>5 DEF NeedsRefresh
    <3>6. i \in 1..Len(up[c]) \/ i = Len(up[c]) + 1 \/ i = Len(up[c]) + 2
      <4>1. i \in 1..Len(up'[c]) /\ Len(up'[c]) = Len(up[c]) + 2 /\ Len(up[c]) \in Nat
        BY <3>2
      <4> QED BY <4>1
    <3> QED BY <3>3, <3>4, <3>5, <3>6
  <2>2. ASSUME NEW m \in Seq(RequestType), Len(m) = 1, m[1].kind = "move", up'[c] = up[c] \o m
        PROVE  i + 1 \in 1..Len(up'[c]) /\ up'[c][i+1].kind = "refresh"
    <3>1. /\ Len(up'[c]) = Len(up[c]) + 1 /\ Len(up[c]) \in Nat
          /\ \A k \in 1..Len(up[c]) : up'[c][k] = up[c][k]
          /\ up'[c][Len(up[c]) + 1] = m[1]
      <4>1. PICK q \in Seq(RequestType) : q = up[c]
        BY <1>1
      <4>2. /\ Len(q \o m) = Len(q) + 1 /\ Len(q) \in Nat
            /\ \A k \in 1..Len(q) : (q \o m)[k] = q[k]
            /\ (q \o m)[Len(q) + 1] = m[1]
        <5>1. Len(m) = 1
          BY <2>2
        <5> QED BY <5>1, JoinedOne
      <4>3. up'[c] = q \o m
        BY <2>2, <4>1
      <4> QED BY <4>1, <4>2, <4>3
    <3>2. CASE i \in 1..Len(up[c])
      <4>1. up[c][i].kind \in NeedsRefresh
        BY <3>1, <3>2
      <4>2. i + 1 \in 1..Len(up[c]) /\ up[c][i+1].kind = "refresh"
        BY <3>2, <4>1 DEF Followed
      <4> QED BY <3>1, <4>2
    <3>3. CASE i = Len(up[c]) + 1
      BY <2>2, <3>1, <3>3 DEF NeedsRefresh
    <3>4. i \in 1..Len(up[c]) \/ i = Len(up[c]) + 1
      BY <3>1
    <3> QED BY <3>2, <3>3, <3>4
  <2>3. CASE AsksWithRefresh(b)
    BY <1>3, <2>1, <2>3 DEF AsksWithRefresh, Ask, TypeOK
  <2>4. CASE AsksMove(b)
    BY <1>3, <2>2, <2>4 DEF AsksMove, Ask, TypeOK
  <2>5. CASE UNCHANGED up
    BY <1>2, <2>5
  <2> QED BY <1>3, <2>3, <2>4, <2>5, UserShape
<1>4. ASSUME up[c] # <<>>, up'[c] = Tail(up[c])
      PROVE  i + 1 \in 1..Len(up'[c]) /\ up'[c][i+1].kind = "refresh"
  <2>1. /\ Len(up[c]) \in Nat /\ Len(up'[c]) = Len(up[c]) - 1
        /\ \A k \in 1..(Len(up[c]) - 1) : up'[c][k] = up[c][k+1]
    BY <1>1, <1>4, HeadAndTail
  <2>2. up[c][i+1].kind \in NeedsRefresh /\ i + 1 \in 1..Len(up[c])
    BY <2>1
  <2>3. i + 2 \in 1..Len(up[c]) /\ up[c][i+2].kind = "refresh"
    BY <2>2 DEF Followed
  <2>4. i + 1 \in 1..(Len(up[c]) - 1) /\ up'[c][i+1] = up[c][i+2]
    BY <2>1, <2>3
  <2> QED BY <2>1, <2>3, <2>4
<1>5. ASSUME NEW b \in Browsers, Reconnect(b), c = b PROVE FALSE
  <2>1. up'[c] = <<[kind |-> "login"]>>
    BY <1>5 DEF Reconnect, TypeOK
  <2>2. up'[c][i].kind = "login"
    BY <2>1
  <2> QED BY <2>2 DEF NeedsRefresh
<1>6. ASSUME NEW b \in Browsers, GetDashboards(b) \/ GetInit(b) PROVE up' = up
  BY <1>6 DEF GetDashboards, GetInit
<1>7. ASSUME NEW b \in Browsers, c = b,
             \/ HandleStore(b) \/ HandleNew(b) \/ HandleDelete(b)
             \/ HandleMove(b) \/ HandleRefresh(b)
      PROVE  up[c] # <<>> /\ up'[c] = Tail(up[c])
  BY <1>7 DEF HandleStore, HandleNew, HandleDelete, HandleMove, HandleRefresh, Handles, TypeOK
<1>8. CASE UNCHANGED vars
  BY <1>2, <1>8 DEF vars
<1> QED BY <1>2, <1>3, <1>4, <1>5, <1>6, <1>7, <1>8, OthersUntouched DEF Next

LEMMA HandlesShift ==
    ASSUME TypeOK, NEW b \in Browsers, NEW kind, Handles(b, kind)
    PROVE  /\ up[b] \in Seq(RequestType) /\ up[b] # <<>>
           /\ up[b][1].kind = kind /\ up'[b] = Tail(up[b])
           /\ Len(up[b]) \in Nat \ {0} /\ Len(up'[b]) = Len(up[b]) - 1
           /\ \A k \in 1..(Len(up[b]) - 1) : up'[b][k] = up[b][k+1]
           /\ copy'[b] = copy[b]
<1>1. up[b] \in Seq(RequestType) /\ up[b] # <<>> /\ up'[b] = Tail(up[b]) /\ copy' = copy
  BY DEF Handles, TypeOK, browserVars
<1>2. Head(up[b]).kind = kind
  BY DEF Handles, Request
<1>3. /\ Head(up[b]) = up[b][1] /\ Len(up[b]) \in Nat \ {0}
      /\ Len(Tail(up[b])) = Len(up[b]) - 1
      /\ \A k \in 1..(Len(up[b]) - 1) : Tail(up[b])[k] = up[b][k+1]
  BY <1>1, HeadAndTail
<1> QED BY <1>1, <1>2, <1>3

(* A request that needs a refresh leaves it pending. *)
LEMMA RefreshNext ==
    ASSUME TypeOK, Followed, NEW b \in Browsers, NEW kind \in NeedsRefresh, Handles(b, kind)
    PROVE  Pending(b)'
<1>1. /\ up[b][1].kind = kind /\ Len(up[b]) \in Nat \ {0} /\ Len(up'[b]) = Len(up[b]) - 1
      /\ \A k \in 1..(Len(up[b]) - 1) : up'[b][k] = up[b][k+1]
  BY HandlesShift
<1>2. 1 \in 1..Len(up[b])
  BY <1>1
<1>3. 2 \in 1..Len(up[b]) /\ up[b][2].kind = "refresh"
  BY <1>1, <1>2 DEF Followed
<1>4. 1 \in 1..Len(up'[b]) /\ up'[b][1].kind = "refresh"
  BY <1>1, <1>3
<1> QED BY <1>4 DEF Pending, Answered

(* What is pending stays so when a request of another kind is handled. *)
LEMMA PendingKept ==
    ASSUME TypeOK, NEW b \in Browsers, NEW kind, kind \notin Answered, Handles(b, kind),
           Pending(b)
    PROVE  Pending(b)'
<1>1. /\ up[b][1].kind = kind /\ Len(up[b]) \in Nat \ {0} /\ Len(up'[b]) = Len(up[b]) - 1
      /\ \A k \in 1..(Len(up[b]) - 1) : up'[b][k] = up[b][k+1]
  BY HandlesShift
<1>2. PICK i \in 1..Len(up[b]) : up[b][i].kind \in Answered
  BY DEF Pending
<1>3. i # 1
  BY <1>1, <1>2
<1>4. i - 1 \in 1..Len(up'[b]) /\ up'[b][i-1] = up[b][i]
  BY <1>1, <1>3
<1> QED BY <1>2, <1>4 DEF Pending

LEMMA StepInformed ==
    ASSUME TypeOK, Followed, EditorInformed, [Next]_vars
    PROVE  EditorInformed'
<1> SUFFICES ASSUME NEW c \in Browsers, last' = c
             PROVE  Pending(c)' \/ Newest(c, Tables)'
  BY DEF EditorInformed
<1>1. ASSUME up'[c] = up[c], down'[c] = down[c], copy'[c] = copy[c], db' = db, last' = last
      PROVE  Pending(c)' \/ Newest(c, Tables)'
  <2>1. Tables' = Tables
    BY <1>1 DEF Tables
  <2>2. Pending(c) \/ Newest(c, Tables)
    BY <1>1 DEF EditorInformed
  <2>3. CASE Pending(c)
    BY <1>1, <2>3 DEF Pending
  <2>4. CASE Newest(c, Tables)
    BY <1>1, <2>1, <2>4 DEF Newest
  <2> QED BY <2>2, <2>3, <2>4
<1>3. ASSUME NEW b \in Browsers, b # c,
             \/ User(b) \/ Reconnect(b) \/ GetDashboards(b) \/ GetInit(b)
             \/ HandleStore(b) \/ HandleNew(b) \/ HandleDelete(b)
             \/ HandleMove(b) \/ HandleRefresh(b)
      PROVE  Pending(c)' \/ Newest(c, Tables)'
  <2>1. up'[c] = up[c] /\ down'[c] = down[c] /\ copy'[c] = copy[c]
    BY <1>3, OthersUntouched
  <2>2. UNCHANGED <<db, last>>
    <3>1. CASE \/ User(b) \/ Reconnect(b) \/ GetDashboards(b) \/ GetInit(b) \/ HandleRefresh(b)
      BY <3>1, QuietOnTables
    <3>2. CASE HandleStore(b)
      BY <1>3, <3>2, StoreDb
    <3>3. CASE HandleNew(b) \/ HandleDelete(b)
      BY <1>3, <3>3 DEF HandleNew, HandleDelete, Changes
    <3>4. CASE HandleMove(b)
      BY <1>3, <3>4, MoveDb
    <3> QED BY <1>3, <3>1, <3>2, <3>3, <3>4
  <2> QED BY <1>1, <2>1, <2>2
<1>4. CASE User(c)
  <2>1. down' = down /\ UNCHANGED <<db, last>>
    BY <1>4, QuietOnTables DEF User, EditWidget, ResetWidget, DeleteWidget, AddWidget, DropWidget,
       MoveWidget, NewDashboard, DeleteDashboard, SelectDashboard, Editing, Edit
  <2>2. up[c] \in Seq(RequestType)
    BY DEF TypeOK
  <2>3. ASSUME AsksWithRefresh(c) PROVE Pending(c)'
    <3>1. PICK m \in Seq(RequestType) : Len(m) = 2 /\ m[2] = Refresh /\ up'[c] = up[c] \o m
      BY <2>3 DEF AsksWithRefresh, Ask, TypeOK
    <3>2. /\ Len(up[c]) \in Nat /\ Len(up[c] \o m) = Len(up[c]) + 2
          /\ (up[c] \o m)[Len(up[c]) + 2] = m[2]
      BY <2>2, <3>1, JoinedTwo
    <3>3. Len(up[c]) + 2 \in 1..Len(up'[c]) /\ up'[c][Len(up[c]) + 2].kind = "refresh"
      BY <3>1, <3>2 DEF Refresh
    <3> QED BY <3>3 DEF Pending, Answered
  <2>4. ASSUME AsksMove(c), UNCHANGED copy PROVE Pending(c)' \/ Newest(c, Tables)'
    <3>1. PICK m \in Seq(RequestType) : Len(m) = 1 /\ up'[c] = up[c] \o m
      BY <2>4 DEF AsksMove, Ask, TypeOK
    <3>2. /\ Len(up[c]) \in Nat /\ Len(up[c] \o m) = Len(up[c]) + 1
          /\ \A k \in 1..Len(up[c]) : (up[c] \o m)[k] = up[c][k]
      BY <2>2, <3>1, JoinedOne
    <3>3. Tables' = Tables
      BY <2>1 DEF Tables
    <3>4. CASE Pending(c)
      BY <3>1, <3>2, <3>4 DEF Pending
    <3>5. CASE Newest(c, Tables)
      BY <2>1, <2>4, <3>3, <3>5 DEF Newest
    <3> QED BY <2>1, <3>4, <3>5 DEF EditorInformed
  <2>5. ASSUME UNCHANGED <<up, copy>> PROVE Pending(c)' \/ Newest(c, Tables)'
    BY <1>1, <2>1, <2>5
  <2> QED BY <1>4, <2>3, <2>4, <2>5, UserShape
<1>5. CASE Reconnect(c)
  <2>1. up'[c] = <<[kind |-> "login"]>>
    BY <1>5 DEF Reconnect, TypeOK
  <2>2. 1 \in 1..Len(up'[c]) /\ up'[c][1].kind = "login"
    BY <2>1
  <2> QED BY <2>2 DEF Pending, Answered
<1>6. CASE GetDashboards(c) \/ GetInit(c)
  <2>1. down[c] \in Seq(EventType) /\ down[c] # <<>> /\ down'[c] = Tail(down[c])
        /\ up' = up /\ UNCHANGED <<db, last>>
    BY <1>6 DEF GetDashboards, GetInit, TypeOK
  <2>2. /\ Head(down[c]) = down[c][1] /\ Len(down[c]) \in Nat \ {0}
        /\ Len(down'[c]) = Len(down[c]) - 1
        /\ \A k \in 1..(Len(down[c]) - 1) : down'[c][k] = down[c][k+1]
    BY <2>1, HeadAndTail
  <2>3. Tables' = Tables
    BY <2>1 DEF Tables
  <2>4. CASE Pending(c)
    BY <2>1, <2>4 DEF Pending
  <2>5. CASE Newest(c, Tables)
    <3>1. ASSUME NEW j \in 1..Len(down[c]), j # 1,
                 down[c][j].event = "dashboards", down[c][j].tables = Tables,
                 \A k \in (j+1)..Len(down[c]) : down[c][k].event # "dashboards"
          PROVE  Newest(c, Tables)'
      <4>1. j - 1 \in 1..Len(down'[c]) /\ down'[c][j-1] = down[c][j]
        BY <2>2, <3>1
      <4>2. \A k \in j..Len(down'[c]) : down'[c][k] = down[c][k+1] /\ k + 1 \in (j+1)..Len(down[c])
        BY <2>2
      <4>3. \A k \in ((j-1)+1)..Len(down'[c]) : down'[c][k].event # "dashboards"
        BY <3>1, <4>2
      <4> QED BY <2>3, <3>1, <4>1, <4>3 DEF Newest
    <3>2. CASE GetDashboards(c)
      <4>1. down[c][1].event = "dashboards" /\ copy'[c] = down[c][1].tables /\ 1 \in 1..Len(down[c])
        BY <2>2, <3>2 DEF GetDashboards, TypeOK
      <4>2. PICK j \in 1..Len(down[c]) :
              /\ down[c][j].event = "dashboards" /\ down[c][j].tables = Tables
              /\ \A k \in (j+1)..Len(down[c]) : down[c][k].event # "dashboards"
        BY <2>5, <4>1 DEF Newest
      <4>3. CASE j = 1
        <5>1. copy'[c] = Tables
          BY <4>1, <4>2, <4>3
        <5>2. \A k \in 1..Len(down'[c]) : down'[c][k] = down[c][k+1] /\ k + 1 \in (j+1)..Len(down[c])
          BY <2>2, <4>3
        <5>3. \A k \in 1..Len(down'[c]) : down'[c][k].event # "dashboards"
          BY <4>2, <5>2
        <5> QED BY <2>3, <5>1, <5>3 DEF Newest
      <4>4. CASE j # 1
        BY <3>1, <4>2, <4>4
      <4> QED BY <4>3, <4>4
    <3>3. CASE GetInit(c)
      <4>1. down[c][1].event = "init" /\ copy' = copy
        BY <2>2, <3>3 DEF GetInit, InitDashboard
      <4>2. CASE /\ copy[c] = Tables
                 /\ \A k \in 1..Len(down[c]) : down[c][k].event # "dashboards"
        <5>1. \A k \in 1..Len(down'[c]) : down'[c][k] = down[c][k+1] /\ k + 1 \in 1..Len(down[c])
          BY <2>2
        <5>2. \A k \in 1..Len(down'[c]) : down'[c][k].event # "dashboards"
          BY <4>2, <5>1
        <5> QED BY <2>3, <4>1, <4>2, <5>2 DEF Newest
      <4>3. ASSUME NEW j \in 1..Len(down[c]),
                   down[c][j].event = "dashboards", down[c][j].tables = Tables,
                   \A k \in (j+1)..Len(down[c]) : down[c][k].event # "dashboards"
            PROVE  Newest(c, Tables)'
        <5>1. j # 1
          BY <4>1, <4>3
        <5> QED BY <3>1, <4>3, <5>1
      <4> QED BY <2>5, <4>2, <4>3 DEF Newest
    <3> QED BY <1>6, <3>2, <3>3
  <2> QED BY <2>1, <2>4, <2>5 DEF EditorInformed
<1>7. CASE HandleStore(c)
  <2>1. Handles(c, "store") /\ "store" \in NeedsRefresh
    BY <1>7 DEF HandleStore, NeedsRefresh
  <2> QED BY <2>1, RefreshNext
<1>8. CASE HandleNew(c)
  <2>1. Handles(c, "new") /\ "new" \in NeedsRefresh
    BY <1>8 DEF HandleNew, NeedsRefresh
  <2> QED BY <2>1, RefreshNext
<1>9. CASE HandleDelete(c)
  <2>1. Handles(c, "delete") /\ "delete" \in NeedsRefresh
    BY <1>9 DEF HandleDelete, NeedsRefresh
  <2> QED BY <2>1, RefreshNext
<1>10. CASE HandleMove(c)
  <2>1. Handles(c, "move") /\ "move" \notin Answered
    BY <1>10 DEF HandleMove, Answered
  <2>2. copy'[c] = copy[c]
    BY <2>1, HandlesShift
  <2>3. CASE UNCHANGED <<db, last, down>>
    <3>1. Tables' = Tables /\ (Pending(c) \/ Newest(c, Tables))
      BY <2>3 DEF Tables, EditorInformed
    <3>2. CASE Pending(c)
      BY <2>1, <3>2, PendingKept
    <3>3. CASE Newest(c, Tables)
      BY <2>2, <2>3, <3>1, <3>3 DEF Newest
    <3> QED BY <3>1, <3>2, <3>3
  <2>4. CASE down' = [down EXCEPT ![c] = @ \o <<DashboardsEvent(Tables')>>]
    <3>1. PICK e : e = DashboardsEvent(Tables')
      OBVIOUS
    <3>2. e.event = "dashboards" /\ e.tables = Tables'
      BY <3>1 DEF DashboardsEvent
    <3>3. down'[c] = down[c] \o <<e>> /\ down[c] \in Seq(EventType)
      BY <2>4, <3>1 DEF TypeOK
    <3>4. Len(down[c]) \in Nat /\ Len(down'[c]) = Len(down[c]) + 1
          /\ down'[c][Len(down[c]) + 1] = e
      BY <3>3
    <3>5. Len(down[c]) + 1 \in 1..Len(down'[c])
          /\ \A k \in ((Len(down[c]) + 1) + 1)..Len(down'[c]) : down'[c][k].event # "dashboards"
      BY <3>4
    <3> QED BY <3>2, <3>4, <3>5 DEF Newest
  <2> QED BY <1>10, <2>3, <2>4, MoveDb
<1>11. CASE HandleRefresh(c)
  <2>1. UNCHANGED <<db, last>> /\ down' = [down EXCEPT ![c] = @ \o <<DashboardsEvent(Tables), InitEvent>>]
    BY <1>11 DEF HandleRefresh, Answer
  <2>2. Tables' = Tables
    BY <2>1 DEF Tables
  <2>3. PICK e, f : e = DashboardsEvent(Tables) /\ f = InitEvent
    OBVIOUS
  <2>4. e.event = "dashboards" /\ e.tables = Tables' /\ f.event # "dashboards"
    BY <2>2, <2>3 DEF DashboardsEvent, InitEvent
  <2>5. down'[c] = down[c] \o <<e, f>> /\ down[c] \in Seq(EventType)
    BY <2>1, <2>3 DEF TypeOK
  <2>6. Len(down[c]) \in Nat /\ Len(down'[c]) = Len(down[c]) + 2
        /\ down'[c][Len(down[c]) + 1] = e /\ down'[c][Len(down[c]) + 2] = f
    BY <2>5
  <2>7. Len(down[c]) + 1 \in 1..Len(down'[c])
        /\ \A k \in ((Len(down[c]) + 1) + 1)..Len(down'[c]) : k = Len(down[c]) + 2
    BY <2>6
  <2> QED BY <2>4, <2>6, <2>7 DEF Newest
<1>12. CASE UNCHANGED vars
  BY <1>1, <1>12 DEF vars, browserVars
<1> QED BY <1>3, <1>4, <1>5, <1>6, <1>7, <1>8, <1>9, <1>10, <1>11, <1>12 DEF Next

LEMMA InitInformed == Init => Followed /\ EditorInformed
<1> SUFFICES ASSUME Init PROVE Followed /\ EditorInformed
  OBVIOUS
<1>1. Followed
  BY DEF Init, Followed
<1>2. db = Tables
  <2>1. PICK w \in Widgets :
          db = [ids |-> {1}, rows |-> [d \in Ids |-> IF d = 1 THEN [NoWidgets EXCEPT ![w] = "default"]
                                                     ELSE NoWidgets],
                ver |-> [d \in Ids |-> 0]]
    BY DEF Init
  <2>2. [d \in Ids |-> IF d \in db.ids THEN db.rows[d] ELSE NoWidgets] = db.rows
    BY <2>1
  <2>3. Tables = [ids |-> db.ids, rows |-> db.rows, ver |-> db.ver]
    BY <2>2 DEF Tables
  <2> QED BY <2>1, <2>3
<1>3. \A b \in Browsers : copy[b] = Tables /\ down[b] = <<>>
  BY <1>2 DEF Init
<1>4. \A b \in Browsers : Newest(b, Tables)
  BY <1>3 DEF Newest
<1> QED BY <1>1, <1>4 DEF EditorInformed

(* When all is answered, the browser whose request changed the tables last *)
(* has them as they are.                                                   *)
THEOREM EditorInformedAtLast == Spec => []EditorSeesTables
<1>1. Init => Followed /\ EditorInformed
  BY InitInformed
<1>2. TypeOK /\ Followed /\ EditorInformed /\ [Next]_vars => (Followed /\ EditorInformed)'
  BY StepFollowed, StepInformed
<1>3. EditorInformed => EditorSeesTables
  <2> SUFFICES ASSUME EditorInformed, NEW b \in Browsers, Quiet(b), last = b
               PROVE  copy[b] = Tables
    BY DEF EditorSeesTables
  <2>1. Len(up[b]) = 0 /\ Len(down[b]) = 0
    BY DEF Quiet
  <2>2. ~ Pending(b)
    BY <2>1 DEF Pending
  <2> QED BY <2>1, <2>2 DEF EditorInformed, Newest
<1> QED BY <1>1, <1>2, <1>3, TypeCorrect, PTL DEF Spec
=============================================================================
