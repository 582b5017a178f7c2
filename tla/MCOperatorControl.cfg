SPECIFICATION FairSpec
CONSTANTS
    Briefs = {1, 2}
    MaxEpochs = 2
    MaxGens = 2
    MaxTarget = 1
    MaxWrites = 2
    MaxCrashes = 1
CHECK_DEADLOCK FALSE
INVARIANTS
    EffectsOnceAndRecorded
    RoundsUnderTheirContract
PROPERTIES
    PublicationsFinish
