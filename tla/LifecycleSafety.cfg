CONSTANTS
    Contacts = {c1}
    Requests = {q1}
    Workers = {w1, w2}
    Requested = {"pause", "resume", "cancel", "delete", "schedule", "edit"}
    NoContact = NoContact
    MaxFaults = 1
    MaxTasks = 1
SPECIFICATION Spec
SYMMETRY Symmetry
CHECK_DEADLOCK FALSE
INVARIANTS
    TypeOK
    CompletedOrOverlapped
    TotalMatchesLedger
PROPERTY CancelSticks
