\* One fault is enough.
CONSTANTS
    t1 = t1
    t2 = t2
    Threads = {t1, t2}
    SendBuffer = 2
    MaxFaults = 1
    Descriptors = 3
    Addresses = 1
SPECIFICATION Spec
INVARIANTS SocketsClosed
