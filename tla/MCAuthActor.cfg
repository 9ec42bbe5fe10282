SPECIFICATION FairSpec
CONSTANTS
    c1 = c1
    c2 = c2
    a1 = a1
    a2 = a2
    Contexts <- TwoContexts
    Accounts <- TwoAccounts
    InvalidId = InvalidId
    MaxRequests = 3
INVARIANTS
    TypeOK
    MapsAreInverse
    JobsAreAnsweredInOrder
PROPERTY
    FinishedJobIsAnswered
