SPECIFICATION FairSpec
CONSTANTS
    Requests = {r1, r2}
    Nodes = {n1, n2}
    Users = {u1, u2}
    Orders = {o1, o2}
    Amounts = {1}
    InitScore = 1
    InitAgent = 1
    BuyScore = TRUE
    Merged = FALSE
    RetryCount = 1
    MongoFails = FALSE
    LockFails = TRUE
    MaxCrashes = 0
    GameDeltas = {}
    NoOwner = NoOwner
INVARIANTS
    MoneyConserved
    NoOverdraftIfSticky
PROPERTIES
    AllAnswered
    LockIsLease
