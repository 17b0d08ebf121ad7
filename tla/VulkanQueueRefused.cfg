CONSTANTS
    kSlots = 2
    batch_limit = 2
    Threads = {t1, t2}
    Nobody = Nobody
    Commands = {a}
    MaxIssued = 2
    MaxSerial = 3
    MaxCaptured = 1
    MaxFails = 1
SPECIFICATION FairSpec
PROPERTIES
    SlotReusable
CHECK_DEADLOCK FALSE
