SPECIFICATION Spec
CONSTANTS
    c1 = c1
    c2 = c2
    c3 = c3
    t1 = t1
    t2 = t2
    Calls = {c1, c2, c3}
    Threads = {t1, t2}
    ThreadOf <- TwoThenOne
    N = 2
    TTL = 2
    Second = 2
    Drift = 1
    IntMax = 8
    StartTime = 7
    MaxTime = 10
    RetryCount = 2
    Continue = {t1}
    NoOwner = NoOwner
INVARIANTS
    TypeOK
    Exclusive
PROPERTIES
    IsLeaseLock
    GrantSafe
CHECK_DEADLOCK FALSE
