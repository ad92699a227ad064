\* Two addresses and two connections, side by side or one after the other at the same
\* address, up to two requests in the queue.
CONSTANTS
    w1 = w1
    w2 = w2
    Clients = {w1, w2}
    Users = {"user"}
    UserRights <- MCUserRights
    Events = {"toggleio"}
    FactRights = {"urControl"}
    MaxConn = 2
    MaxPending = 2
SPECIFICATION Spec
INVARIANTS TypeOK RightsOfSender SessionHasConnectionOrLogout
PROPERTIES ClosedSessionForgotten QueueDrained ImplementsSessions
