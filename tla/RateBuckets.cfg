CONSTANTS
    Workers = {w1, w2}
    Domains = {d1, d2}
    Global = Global
    NoDomain = NoDomain
    Minute = 2
    Cost <- CostValue
    MaxTries = 2
    MaxClock = 4
SPECIFICATION Spec
SYMMETRY Symmetry
INVARIANTS
    TypeOK
    WindowBound
    RetryIsEnough
    ContentionIsProgress
CHECK_DEADLOCK FALSE
