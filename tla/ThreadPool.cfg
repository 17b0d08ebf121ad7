CONSTANTS
    Workers = {w1, w2}
    Caller = Caller
    MaxN = 3
    MaxRuns = 3
    MaxShutdowns = 2
SPECIFICATION FairSpec
INVARIANTS
    TypeOK
    EachIndexOnce
    JobStillRunning
PROPERTIES
    CallsReturn
CHECK_DEADLOCK FALSE
