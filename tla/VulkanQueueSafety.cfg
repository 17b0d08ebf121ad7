CONSTANTS
    kSlots = 2
    batch_limit = 2
    Threads = {t1, t2}
    Nobody = Nobody
    Commands = {a, b}
    MaxIssued = 3
    MaxSerial = 3
    MaxCaptured = 2
    MaxFails = 0
SPECIFICATION Spec
SYMMETRY Symmetry
INVARIANTS
    TypeOK
    StreamInvariant
    SlotsExclusive
    EventMeansDone
    FreedBuffersNotQueued
PROPERTIES
    WaitsDeliver
    ExecutesInOrder
CHECK_DEADLOCK FALSE
