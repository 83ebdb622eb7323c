CONSTANTS
    l1 = l1
    l2 = l2
    ann = ann
    bob = bob
    cid = cid
    Addresses = {ann, bob, cid}
    FreeProviders = {ann}
    DeadDomains = {ann, bob}
    BadRow = BadRow
    Lists = {l1, l2}
    NoList = NoList
    FileOf <- MCFileOf
    Filtered = {l2}
    Workers = {w1, w2}
    Requests = {q1}
    Nobody = Nobody
    ImportBatch = 2
    VerifyBatch = 2
    MaxFaults = 1
SPECIFICATION Spec
SYMMETRY Symmetry
CONSTRAINT FaultsOnOneList
INVARIANTS
    TypeOK
    NothingDropped
    InvalidIsSuppressed
    OnlyDeadDomains
    ReadyMeansChecked
    QuietMeansSettled
