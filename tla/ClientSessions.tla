--------------------------- MODULE ClientSessions ---------------------------
(***************************************************************************)
(* What the web interface promises a browser: each connection has its own  *)
(* requests, handled in the order they were sent, and its own rights, from *)
(* the last login it sent itself.  There is no shared queue and there are  *)
(* no addresses here; ClientRequests is shown to implement this module.    *)
(***************************************************************************)
EXTENDS Naturals, Sequences

CONSTANTS
    Conns,                \* connections
    Requests,             \* what a browser may send: [event, user, token]
    Granted(_),           \* the rights an accepted login gives
    Allowed(_, _)         \* whether an event is allowed with these rights

VARIABLES
    phase,        \* new, open or gone
    pending,      \* requests of each connection not yet handled
    granted,      \* its rights
    decided       \* the last request handled: connection, event, result

svars == <<phase, pending, granted, decided>>

SessionInit ==
    /\ phase = [c \in Conns |-> "new"]
    /\ pending = [c \in Conns |-> <<>>]
    /\ granted = [c \in Conns |-> {}]
    /\ decided = [conn |-> 0, event |-> "logout", ok |-> FALSE]

Open(c) ==
    /\ phase[c] = "new"
    /\ phase' = [phase EXCEPT ![c] = "open"]
    /\ UNCHANGED <<pending, granted, decided>>

Leave(c) ==
    /\ phase[c] = "open"
    /\ phase' = [phase EXCEPT ![c] = "gone"]
    /\ UNCHANGED <<pending, granted, decided>>

(* Only the server says logout, and only for a connection that is gone. *)
Send(c, r) ==
    /\ IF r.event = "logout" THEN phase[c] = "gone" ELSE phase[c] = "open"
    /\ pending' = [pending EXCEPT ![c] = Append(@, r)]
    /\ UNCHANGED <<phase, granted, decided>>

Handle(c) ==
    /\ pending[c] # <<>>
    /\ LET r == Head(pending[c])
       IN /\ decided' = [conn |-> c, event |-> r.event, ok |-> Allowed(r.event, granted[c])]
          /\ granted' = [granted EXCEPT ![c] =
                CASE r.event = "login"  -> Granted(r)
                  [] r.event = "logout" -> {}
                  [] OTHER              -> @]
    /\ pending' = [pending EXCEPT ![c] = Tail(@)]
    /\ UNCHANGED phase

SessionNext ==
    \E c \in Conns : Open(c) \/ Leave(c) \/ Handle(c) \/ \E r \in Requests : Send(c, r)

SessionSpec == SessionInit /\ [][SessionNext]_svars
=============================================================================
