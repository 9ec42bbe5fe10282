SPECIFICATION FairSpec
CONSTANTS
    w1 = w1
    w2 = w2
    w3 = w3
    Workers <- ThreeWorkers
    NumActors = 2
    VersionModulus = 4
INVARIANTS
    TypeOK
    ActorRunsInOneThread
    NoWorkerFallsBehind
    NoLostWakeup
PROPERTIES
    ImplementsActorRounds
    EveryActorRunsForever
