CONSTANTS
    Clients = {c1, c2}
    Keys = {k1}
    Weights = {0, 1, 3}
    Rates = {0, 1, 3}
    Bursts = {0, 1, 3}
    TicksPerSecond = 2
    MaxTime = 5
SPECIFICATION BucketSpec
SYMMETRY ClientSymmetry
INVARIANTS
    WindowInv
    AdmittedWithinRate
    WaitSuffices
CHECK_DEADLOCK FALSE
