SPECIFICATION FairSpec
CONSTANTS
    Contexts = {c1}
    Workers = {w1, w2}
    Actors = {a1}
    NoThread = NoThread
    NoContext = NoContext
    MaxDispatch = 1
INVARIANTS
    TypeOK
    FlagHasOneOwner
    IoNeverOutlivesSession
    ServedSessionIsAlive
PROPERTIES
    ImplementsSessionStream
    ClosingSessionIsReported
    ExclusiveLockIsGranted
CHECK_DEADLOCK FALSE
