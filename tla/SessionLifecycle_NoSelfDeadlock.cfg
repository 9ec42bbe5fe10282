SPECIFICATION Spec
CONSTANTS
    Contexts = {c1}
    Workers = {w1, w2}
    Actors = {a1}
    NoThread = NoThread
    NoContext = NoContext
    MaxDispatch = 1
INVARIANT NoSelfDeadlock
CHECK_DEADLOCK FALSE
