SPECIFICATION Spec
CONSTANTS
    w1 = w1
    w2 = w2
    Workers <- TwoWorkers
    Nobody = Nobody
    BufferCapacity = 4
    BodySizes <- ThreeMessages
    MaxMailbox = 4
INVARIANT NoMessageIsDispatchedTwice
CHECK_DEADLOCK FALSE
