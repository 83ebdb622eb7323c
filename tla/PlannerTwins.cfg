CONSTANTS
    Runs = {r1, r2}
    Contacts = {c1}
    Workers = {w1}
    None = None
    Grid <- MCGrid
    FirstWeekday = 0
    FirstDay = 8
    LastDay = 8
    Shifts <- MCShifts
    Interval = 2
    MaxFaults = 0
SPECIFICATION Spec
SYMMETRY Symmetry
CHECK_DEADLOCK FALSE
INVARIANT OneRunPerDay
