CONSTANTS
    kSlots = 2
    batch_limit = 2
    Blocks = {b1, b2}
    Cells = {1}
    Threads = {t1, t2}
    Nobody = Nobody
    Unguarded = {"capture"}
    MaxCommands = 2
    MaxSerial = 4
SPECIFICATION Spec
SYMMETRY Symmetry
INVARIANTS
    GraphMemoryHeld
