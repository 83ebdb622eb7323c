CONSTANTS
    Runs = {r1, r2}
    Contacts = {c1}
    Workers = {w1, w2}
    None = None
    Grid <- MCGrid
    FirstWeekday = 0
    FirstDay = 8
    LastDay = 9
    Shifts = {0, 1}
    Interval = 1
    MaxFaults = 1
SPECIFICATION Spec
SYMMETRY Symmetry
CHECK_DEADLOCK FALSE
CONSTRAINTS
    OneDisturbance
    OneCell
INVARIANTS
    TypeOK
    TwinsExplained
    FrequencyHeld
    SentIsLogged
