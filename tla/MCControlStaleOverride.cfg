SPECIFICATION Spec
CONSTANTS
    Briefs = {1, 2}
    MaxEpochs = 2
    MaxGens = 1
    MaxTarget = 1
    MaxWrites = 2
    MaxCrashes = 0
CHECK_DEADLOCK FALSE
INVARIANTS
    OverridesInTheirEpoch
