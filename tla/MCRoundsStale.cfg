SPECIFICATION Spec
CONSTANTS
    None = None
    u1 = u1
    u2 = u2
    MaxGen = 2
    MaxRound = 3
    MaxPatch = 3
    Units <- TwoUnits
    Setups <- Stale
CHECK_DEADLOCK FALSE
INVARIANTS
    EvidenceMatchesPatches
