SPECIFICATION Spec
CONSTANTS
    Records <- TwoEpochs
    Workers = {w1}
    Loop = loop
    MaxMarks = 3
    MaxSpawns = 1
    MaxBoots = 2
    MaxDamage = 1
    None = None
CHECK_DEADLOCK FALSE
INVARIANTS
    MissingIsReported
PROPERTIES
    MemoryIsSettled
