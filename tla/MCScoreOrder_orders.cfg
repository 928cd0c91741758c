SPECIFICATION Spec
CONSTANTS
    Requests = {r1, r2}
    Nodes = {n1, n2}
    Users = {u1}
    Orders = {o1}
    Amounts = {1}
    InitScore = 1
    InitAgent = 1
    BuyScore = TRUE
    Merged = TRUE
    RetryCount = 2
    MongoFails = TRUE
    LockFails = TRUE
    MaxCrashes = 1
    GameDeltas <- Losses
    NoOwner = NoOwner
SYMMETRY Interchangeable
INVARIANTS
    TypeOK
    AppliedAtMostOnce
    AnswerIsTruthful
    CacheSound
    LeaseHeld
