----------------------------- MODULE Dashboards ------------------------------
(***************************************************************************)
(* Editing of dashboards by several browsers.                              *)
(*                                                                         *)
(* The daemon keeps the dashboards and their widgets in two tables; each   *)
(* browser has a copy (`dashboards' of main.js) and draws one of them.     *)
(* Except for a move, an edit sends the whole list of widgets of a         *)
(* dashboard: the keys of what is drawn, with the options of the copy.     *)
(* Only the browser that edits asks for the tables again; the others keep  *)
(* their copies until they edit something or connect again.                *)
(*                                                                         *)
(* The order of dashboards and widgets, titles, groups and the settings of *)
(* a dashboard are left out.  Options of a widget are `default' or `set'.  *)
(***************************************************************************)
EXTENDS Naturals, Sequences, FiniteSets

CONSTANTS
    Browsers,
    Widgets,      \* keys of widgets, type and address
    MaxId,        \* bound: dashboards ever created
    MaxEdits,     \* bound: edits by all browsers
    MaxDrops      \* bound: connections lost

ASSUME DashboardsAssumption ==
    /\ Browsers # {} /\ MaxId \in Nat \ {0}
    /\ MaxEdits \in Nat /\ MaxDrops \in Nat

Ids == 1..MaxId
Options == {"default", "set"}
WidgetList == [Widgets -> Options \union {"none"}]
NoWidgets == [w \in Widgets |-> "none"]
Keys(list) == {w \in Widgets : list[w] # "none"}

VARIABLES
    db,           \* the tables: ids, the rows of widgets, a version for each id
    nextId,       \* auto increment of dashboards.id
    copy,         \* the same as each browser got it last
    act, drawn,   \* actDashboard and the widgets in the document, 0 without
    dirty,        \* widgets whose options were changed in the copy only
    up, down,     \* messages on the way to the daemon and to the browser
    last,         \* the browser whose request changed the tables last
    edits, drops  \* counts, for the bounds

browserVars == <<copy, act, drawn, dirty>>
vars == <<db, nextId, browserVars, up, down, last, edits, drops>>

(* The rows of a dashboard that does not exist are never seen. *)
Tables == [ids |-> db.ids,
           rows |-> [d \in Ids |-> IF d \in db.ids THEN db.rows[d] ELSE NoWidgets],
           ver |-> db.ver]

-----------------------------------------------------------------------------
(* The browser.                                                            *)

Ask(b, m) == up' = [up EXCEPT ![b] = @ \o m]
Refresh == [kind |-> "refresh"]
Edit == edits < MaxEdits /\ edits' = edits + 1 /\ UNCHANGED <<db, nextId, down, last, drops>>

(* Mutant: the keys only, the daemon fills in defaults. *)
ListedKeys(b) == [w \in Widgets |-> IF w \in drawn[b] THEN "default" ELSE "none"]

(* What every edit sends: the keys drawn, an unknown key has no options    *)
(* and is left out of the message.                                         *)
Listed(b) == [w \in Widgets |-> IF w \in drawn[b] THEN copy[b].rows[act[b]][w] ELSE "none"]

(* `ver', `whole' and `changed' serve the properties only: which version   *)
(* the copy had, whether all of it was drawn, and what the user edited.    *)
StoreThenRefresh(b, list, changed) ==
    Ask(b, <<[kind |-> "store", id |-> act[b], list |-> list,
              ver |-> copy[b].ver[act[b]],
              whole |-> drawn[b] \union changed = Keys(copy[b].rows[act[b]]) \union changed,
              changed |-> changed \union dirty[b]], Refresh>>)

Editing(b) == Edit /\ act[b] \in copy[b].ids

(* widgetSetup, Ok: the options are changed in the copy, too. *)
EditWidget(b, w) ==
    /\ Editing(b) /\ w \in drawn[b] /\ copy[b].rows[act[b]][w] # "none"
    /\ copy' = [copy EXCEPT ![b].rows[act[b]][w] = "set"]
    /\ dirty' = [dirty EXCEPT ![b] = @ \union {w}]
    /\ StoreThenRefresh(b, [Listed(b) EXCEPT ![w] = "set"], {w})
    /\ UNCHANGED <<act, drawn>>

(* widgetSetup, Reset: the daemon fills in the defaults. *)
ResetWidget(b, w) ==
    /\ Editing(b) /\ w \in drawn[b]
    /\ StoreThenRefresh(b, [Listed(b) EXCEPT ![w] = "default"], {w})
    /\ UNCHANGED browserVars

DeleteWidget(b, w) ==
    /\ Editing(b) /\ w \in drawn[b]
    /\ drawn' = [drawn EXCEPT ![b] = @ \ {w}]
    /\ StoreThenRefresh(b, [Listed(b) EXCEPT ![w] = "none"], {w})
    /\ UNCHANGED <<copy, act, dirty>>

(* addWidget, Ok: those selected, of all there are (also some the dashboard *)
(* has already), get the defaults; they are drawn when the answer comes.   *)
AddWidget(b, chosen) ==
    /\ Editing(b)
    /\ StoreThenRefresh(b, [w \in Widgets |-> IF w \in chosen THEN "default" ELSE Listed(b)[w]],
                        chosen)
    /\ UNCHANGED browserVars

(* dropWidget: another order, the widgets are stored all the same. *)
DropWidget(b) ==
    /\ Editing(b) /\ drawn[b] # {}
    /\ StoreThenRefresh(b, Listed(b), {})
    /\ UNCHANGED browserVars

(* dropDashboard with a widget; the daemon answers without a refresh. *)
MoveWidget(b, w, to) ==
    /\ Editing(b) /\ w \in drawn[b] /\ to \in copy[b].ids
    /\ drawn' = [drawn EXCEPT ![b] = @ \ {w}]
    /\ Ask(b, <<[kind |-> "move", key |-> w, from |-> act[b], to |-> to]>>)
    /\ UNCHANGED <<copy, act, dirty>>

NewDashboard(b) ==
    /\ Edit
    /\ Ask(b, <<[kind |-> "new"], Refresh>>)
    /\ UNCHANGED browserVars

DeleteDashboard(b) ==
    /\ Editing(b)
    /\ Ask(b, <<[kind |-> "delete", id |-> act[b]], Refresh>>)
    /\ UNCHANGED browserVars

(* initDashboard: a dashboard that does not exist gives way to the first   *)
(* one, which may be any, as their order is left out.                      *)
Active(tables, remembered) ==
    IF remembered \in tables.ids THEN {remembered}
    ELSE IF tables.ids = {} THEN {0} ELSE tables.ids

InitDashboard(b, remembered) ==
    /\ \E d \in Active(copy[b], remembered) :
        /\ act' = [act EXCEPT ![b] = d]
        /\ drawn' = [drawn EXCEPT ![b] = IF d = 0 THEN {} ELSE Keys(copy[b].rows[d])]
    /\ UNCHANGED <<copy, dirty>>

SelectDashboard(b, d) ==
    /\ d \in copy[b].ids /\ d # act[b]
    /\ InitDashboard(b, d)
    /\ UNCHANGED <<db, nextId, up, down, last, edits, drops>>

(* dispatchMessage: `dashboards' replaces the copy, `init' draws it. *)
GetDashboards(b) ==
    /\ down[b] # <<>> /\ Head(down[b]).event = "dashboards"
    /\ copy' = [copy EXCEPT ![b] = Head(down[b]).tables]
    /\ dirty' = [dirty EXCEPT ![b] = {}]
    /\ down' = [down EXCEPT ![b] = Tail(@)]
    /\ UNCHANGED <<db, nextId, act, drawn, up, last, edits, drops>>

GetInit(b) ==
    /\ down[b] # <<>> /\ Head(down[b]).event = "init"
    /\ InitDashboard(b, act[b])
    /\ down' = [down EXCEPT ![b] = Tail(@)]
    /\ UNCHANGED <<db, nextId, up, last, edits, drops>>

(* The connection is lost with all that is under way; what is edited       *)
(* before the next login is denied, so the login comes at once.            *)
Reconnect(b) ==
    /\ drops < MaxDrops /\ drops' = drops + 1
    /\ up' = [up EXCEPT ![b] = <<[kind |-> "login"]>>]
    /\ down' = [down EXCEPT ![b] = <<>>]
    /\ UNCHANGED <<db, nextId, browserVars, last, edits>>

-----------------------------------------------------------------------------
(* The daemon, storeDashboards and performForceRefresh.                    *)

Request(b) == Head(up[b])
Handles(b, kind) ==
    /\ up[b] # <<>> /\ Request(b).kind = kind
    /\ up' = [up EXCEPT ![b] = Tail(@)]
    /\ UNCHANGED <<browserVars, edits, drops>>

Changes(b) == last' = b
Answer(b, events) == down' = [down EXCEPT ![b] = @ \o events]
DashboardsEvent(tables) == [event |-> "dashboards", tables |-> tables]
InitEvent == [event |-> "init"]

(* Mutant: a missing dashboard is inserted. *)
HandleStoreInserts(b) ==
    LET r == Request(b)
    IN /\ Handles(b, "store")
       /\ db' = [db EXCEPT !.ids = @ \union {r.id}, !.rows[r.id] = r.list,
                           !.ver[r.id] = @ + 1]
       /\ Changes(b)
       /\ UNCHANGED <<nextId, down>>

(* The rows are deleted and written again. *)
HandleStore(b) ==
    LET r == Request(b)
    IN /\ Handles(b, "store")
       /\ IF r.id \in db.ids
          THEN db' = [db EXCEPT !.rows[r.id] = r.list, !.ver[r.id] = @ + 1] /\ Changes(b)
          ELSE UNCHANGED <<db, last>>
       /\ UNCHANGED <<nextId, down>>

(* Mutant: getLastInsertId is not asked. *)
HandleNewNoId(b) ==
    /\ Handles(b, "new") /\ nextId <= MaxId
    /\ db' = [db EXCEPT !.ids = @ \union {0}]
    /\ nextId' = nextId + 1
    /\ Changes(b)
    /\ UNCHANGED down

HandleNew(b) ==
    /\ Handles(b, "new") /\ nextId <= MaxId
    /\ db' = [db EXCEPT !.ids = @ \union {nextId}, !.ver[nextId] = @ + 1]
    /\ nextId' = nextId + 1
    /\ Changes(b)
    /\ UNCHANGED down

HandleDelete(b) ==
    /\ Handles(b, "delete")
    /\ db' = [db EXCEPT !.ids = @ \ {Request(b).id}, !.rows[Request(b).id] = NoWidgets]
    /\ Changes(b)
    /\ UNCHANGED <<nextId, down>>

Moved(r) ==
    LET opts == db.rows[r.from][r.key]
        without == [db EXCEPT !.rows[r.from][r.key] = "none", !.ver[r.from] = @ + 1]
    IN [without EXCEPT !.rows[r.to][r.key] = IF @ = "none" THEN opts ELSE @,
                       !.ver[r.to] = @ + 1]

(* Mutant: the tables are not pushed. *)
HandleMoveSilent(b) ==
    /\ Handles(b, "move")
    /\ IF db.rows[Request(b).from][Request(b).key] = "none"
       THEN UNCHANGED <<db, last>>
       ELSE db' = Moved(Request(b)) /\ Changes(b)
    /\ UNCHANGED <<nextId, down>>

(* A row the target has already is kept, the insert of another one fails.  *)
(* Whether the target exists is not checked.                               *)
HandleMove(b) ==
    /\ Handles(b, "move")
    /\ IF db.rows[Request(b).from][Request(b).key] = "none"
       THEN UNCHANGED <<db, last, down>>
       ELSE /\ db' = Moved(Request(b)) /\ Changes(b)
            /\ Answer(b, <<DashboardsEvent(Tables')>>)
    /\ UNCHANGED nextId

(* forcerefresh, and the end of performLogin. *)
HandleRefresh(b) ==
    /\ Handles(b, "refresh") \/ Handles(b, "login")
    /\ Answer(b, <<DashboardsEvent(Tables), InitEvent>>)
    /\ UNCHANGED <<db, nextId, last>>

-----------------------------------------------------------------------------
(* One dashboard with one widget, seen by all. *)
Init ==
    /\ \E w \in Widgets :
        db = [ids |-> {1}, rows |-> [d \in Ids |-> IF d = 1 THEN [NoWidgets EXCEPT ![w] = "default"]
                                                   ELSE NoWidgets],
              ver |-> [d \in Ids |-> 0]]
    /\ nextId = 2
    /\ copy = [b \in Browsers |-> db]
    /\ act = [b \in Browsers |-> 1]
    /\ drawn = [b \in Browsers |-> Keys(db.rows[1])]
    /\ dirty = [b \in Browsers |-> {}]
    /\ up = [b \in Browsers |-> <<>>] /\ down = [b \in Browsers |-> <<>>]
    /\ last \in Browsers
    /\ edits = 0 /\ drops = 0

User(b) ==
    \/ \E w \in Widgets : \/ EditWidget(b, w) \/ ResetWidget(b, w) \/ DeleteWidget(b, w)
                          \/ \E to \in Ids : MoveWidget(b, w, to)
    \/ \E chosen \in SUBSET Widgets : AddWidget(b, chosen)
    \/ DropWidget(b) \/ NewDashboard(b) \/ DeleteDashboard(b)
    \/ \E d \in Ids : SelectDashboard(b, d)

Next == \E b \in Browsers :
    \/ User(b) \/ Reconnect(b)
    \/ GetDashboards(b) \/ GetInit(b)
    \/ HandleStore(b) \/ HandleNew(b) \/ HandleDelete(b) \/ HandleMove(b) \/ HandleRefresh(b)

Spec == Init /\ [][Next]_vars

-----------------------------------------------------------------------------
TablesType == [ids : SUBSET Ids, rows : [Ids -> WidgetList], ver : [Ids -> Nat]]

RequestType ==
    [kind : {"store"}, id : Ids, list : WidgetList, ver : Nat, whole : BOOLEAN,
     changed : SUBSET Widgets]
    \union [kind : {"move"}, key : Widgets, from : Ids, to : Ids]
    \union [kind : {"delete"}, id : Ids]
    \union [kind : {"new", "refresh", "login"}]

EventType == [event : {"dashboards"}, tables : TablesType] \union [event : {"init"}]

(* The types of the variables. *)
TypeOK ==
    /\ db \in TablesType /\ nextId \in 2..(MaxId + 1)
    /\ copy \in [Browsers -> TablesType]
    /\ act \in [Browsers -> Ids \union {0}]
    /\ drawn \in [Browsers -> SUBSET Widgets]
    /\ dirty \in [Browsers -> SUBSET Widgets]
    /\ up \in [Browsers -> Seq(RequestType)] /\ down \in [Browsers -> Seq(EventType)]
    /\ last \in Browsers
    /\ edits \in 0..MaxEdits /\ drops \in 0..MaxDrops

Quiet(b) == up[b] = <<>> /\ down[b] = <<>>

(* When everything is answered, the browser that edited last has the       *)
(* tables as they are: the refresh is asked for behind the edit, and a     *)
(* move, which has none, is answered with the tables.                      *)
EditorSeesTables ==
    \A b \in Browsers : Quiet(b) /\ last = b => copy[b] = Tables

(* A dashboard that was deleted never comes back, whatever browsers with   *)
(* an older copy store, move or draw afterwards.                           *)
DeletedStaysDeleted == [][db'.ids \subseteq db.ids \union {nextId}]_vars

(* An edit by a browser with an up to date copy, all of it drawn, changes  *)
(* nothing but what the user edited, although the whole list is replaced.  *)
FreshEditKeepsRest ==
    [][\A b \in Browsers :
        up[b] # <<>> /\ Request(b).kind = "store" /\ up'[b] = Tail(up[b]) =>
        LET r == Request(b)
        IN r.whole /\ r.ver = db.ver[r.id] =>
           \A w \in Widgets \ r.changed : db'.rows[r.id][w] = db.rows[r.id][w]]_vars
=============================================================================
