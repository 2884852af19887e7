SPECIFICATION LimitsSpec
CONSTANTS
    k1 = k1
    k2 = k2
    NoKey = NoKey
    Addresses = {a1, a2}
    Keys = {k1, k2}
    Requests = {r1, r2}
    Capacity <- MCCapacity
    Period <- MCPeriod
    SweepAt = 1
    MaxTime = 3
INVARIANTS
    WaitIsEnough
PROPERTIES
    KeepsTheBudgets
