\* Safety and liveness: two browsers, two messages of up to two chunks.
CONSTANTS
    w1 = w1
    w2 = w2
    Clients = {w1, w2}
    MaxMessages = 2
    MaxChunks = 2
SPECIFICATION Spec
INVARIANTS TypeOK NothingLostOrMixed
PROPERTIES MessagesSent
