CONSTANTS
    w1 = w1
    w2 = w2
    Clients = {w1}
    Users = {"user"}
    UserRights <- MCUserRights
    Events = {"toggleio"}
    FactRights = {"urControl"}
    MaxConn = 1
    MaxPending = 1
SPECIFICATION Spec
INVARIANTS ClosedClientRemoved
