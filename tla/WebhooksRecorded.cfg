CONSTANTS
    r1 = r1
    a1 = a1
    m1 = m1
    m2 = m2
    sent1 = sent1
    spam1 = spam1
    fail1 = fail1
    soft2 = soft2
    Rows = {r1}
    Addresses = {a1}
    AddressOf <- MCAddressOf
    Messages = {m1, m2}
    RowOf <- MCRowOf
    Webhooks = {sent1, spam1, fail1, soft2}
    MessageOf <- MCMessageOf
    EventType <- MCEventType
    EventStatus <- MCEventStatus
    Workers = {w1, w2}
    Requests = {q1}
    None = None
    MaxFaults = 0
SPECIFICATION Spec
CHECK_DEADLOCK FALSE
PROPERTY EventsRecorded
