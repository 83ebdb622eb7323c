CONSTANTS
    Recipients = {r1, r2}
    Workers = {w1, w2}
    NoRecipient = NoRecipient
    MaxRetries = 1
    PoolCap = 1
    WarmingCap = 2
    HardStop = FALSE
    MaxFaults = 2
    MaxQueued = 0
SPECIFICATION Spec
SYMMETRY Symmetry
INVARIANTS
    TypeOK
    AcceptBound
    LateBound
    CountersMatchLedger
    DailyCapBound
PROPERTY LedgerKept
CONSTRAINT TwoDisturbances
