CONSTANTS
    kSlots = 1
    batch_limit = 2
    Threads = {t1, t2}
    Nobody = Nobody
    Commands = {a}
    MaxIssued = 2
    MaxSerial = 3
    MaxCaptured = 1
    MaxFails = 0
SPECIFICATION PollingSpec
PROPERTIES
    SlotReusable
    CallsReturn
    PolledEventCompletes
CHECK_DEADLOCK FALSE
