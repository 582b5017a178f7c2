SPECIFICATION Spec
CONSTANTS
    None = None
    u1 = u1
    u2 = u2
    MaxGen = 4
    MaxRound = 2
    MaxPatch = 4
    Units <- TwoUnits
    Setups <- Safety
CHECK_DEADLOCK FALSE
INVARIANTS
    EvidenceMatchesPatches
    SettledRecordsKept
    StartupNeverRefuses
    SettlementNeverConflicts
    NothingUnresolved
    RoundsDistinct
    ChampionChain
PROPERTIES
    ReceiptsRetained
