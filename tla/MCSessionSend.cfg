SPECIFICATION FairSpec
CONSTANTS
    w1 = w1
    w2 = w2
    Workers <- TwoWorkers
    Nobody = Nobody
    BufferCapacity = 3
    MaxMessages = 3
    MaxWantRead = 1
    MaxWire = 3
INVARIANTS
    TypeOK
    StreamIsWhole
PROPERTIES
    KernelBufferIsStable
    PushedMessageIsSent
