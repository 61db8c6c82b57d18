CONSTANTS
    Requests = {r1, r2, r3}
    alpha = alpha
    beta = beta
    Pooled <- MCPooled
    UnknownIds = {ghost}
    MaxConnections <- MCMaxConnections
    Unset = Unset
    DefaultMax = 2
SPECIFICATION FairPoolSpec
INVARIANTS
    PoolTypeOK
    CountWithinCapacity
    HandlesCounted
    NoIdlePermit
    TotalWithinCapacity
PROPERTIES
    WaiterLeavesQueue
    ImplementsLimiter
