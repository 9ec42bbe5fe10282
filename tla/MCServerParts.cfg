SPECIFICATION PartsSpec
CONSTANTS
    Pushers = {p1, p2}
    Messages = {m1, m2, m3}
    NoThread = NoThread
    Moved = Moved
    Clients = {g1, g2, g3, g4}
    Connections = {d1, d2}
    MaxAcquires = 1
    NoConnection = NoConnection
    NoClient = NoClient
    WorkerThreadCount = 2
    ChunkSizes = {2}
    AxisCounts = {0, 3}
    Resultless = {1}
    IndexModulus = 10
    MaxCalls = 2
    Capacity = 4
    SpscBlockSizes = {1, 2, 3}
    ByteValues = 5
    Producers = {q1}
    Blocks = {b1, b2, b3}
    BlockSizes = {16, 32}
    MessageSizes = {16, 17}
    NullBlock = NullBlock
    NodesPerPage = 2
    NullNode = NullNode
    NullIndex = NullIndex
    MaxIds = 3
    NamedIds = {1, 2}
    Data = {1}
    NoIteration = NoIteration
    Interfaces <- EitherWay
    ArrayIds = {0, 1, 2, 3}
    ArrayData = {1, 2}
    NoPlace = NoPlace
    MaxEntities = 3
    IdCount = 2
    Versions = 2
    MaxCreations = 3
    Contexts = {1, 2}
    Players = {1, 2}
    Characters = {1, 2}
    EntityIds = {1, 2}
    EntityVersions = {1, 2}
    MaxEvents = 2
    NullEntity = NullEntity
INVARIANTS
    TypeOK
    DrainedVectorIsPrivate
    PoolIsExact
    ResultsAreExact
    PeekedBytesAreNext
    BlocksAreSound
    ContainerIsExact
    EntityNamesOneCreation
    GlobalMapsAgree
PROPERTIES
    ImplementsMessageQueue
    PushedMessageIsHandled
    AcquireReturns
    ImplementsForkJoin
    CallReturns
    IterationIsComplete
    ImplementsIdMap
CHECK_DEADLOCK FALSE
