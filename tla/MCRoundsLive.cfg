SPECIFICATION FairSpec
CONSTANTS
    None = None
    u1 = u1
    u2 = u2
    MaxGen = 2
    MaxRound = 2
    MaxPatch = 4
    Units <- OneUnit
    Setups <- Live
CHECK_DEADLOCK FALSE
PROPERTIES
    RoundEnds
    StartupEnds
    ReceiptProtocol
