CONSTANTS
    Threads = {t1, t2, t3}
    Hashes = {0, 1, 2, 3}
    kCapacity = 2
    FoldedZero = 5
    NoHandle = NoHandle
    MaxCalls = 5
SPECIFICATION Spec
SYMMETRY Symmetry
INVARIANTS
    TypeOK
    UniqueKeys
    PublishedIsWritten
    RightTrace
    NoFalseMiss
PROPERTIES
    WriteOnce
