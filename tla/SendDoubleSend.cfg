CONSTANTS
    Recipients = {r1}
    Workers = {w1}
    NoRecipient = NoRecipient
    MaxRetries = 0
    PoolCap = 1
    WarmingCap = 1
    HardStop = TRUE
    MaxFaults = 1
    MaxQueued = 1
SPECIFICATION Spec
SYMMETRY Symmetry
INVARIANT NeverDoubleSends
