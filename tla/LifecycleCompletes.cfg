CONSTANTS
    Contacts = {c1}
    Requests = {q1}
    Workers = {w1, w2}
    Requested = {"pause"}
    NoContact = NoContact
    MaxFaults = 0
    MaxTasks = 1
SPECIFICATION Spec
CHECK_DEADLOCK FALSE
INVARIANT CompletedIsDrained
