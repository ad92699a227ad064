\* An outage or a broken connection, also after an outage from the start; of three
\* sockets one can be lost.
CONSTANTS
    t1 = t1
    t2 = t2
    Threads = {t1, t2}
    SendBuffer = 2
    MaxFaults = 1
    Descriptors = 3
    Addresses = 1
SPECIFICATION Spec
INVARIANTS TypeOK OneRefresher
PROPERTIES MainKeepsRunning OnlineAgain
