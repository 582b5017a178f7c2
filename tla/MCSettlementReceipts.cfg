SPECIFICATION FairSpec
CONSTANTS
    None = None
    Rounds = {0, 1}
    Decisions = {reject, promote}
    Hooked = {promote}
CHECK_DEADLOCK FALSE
INVARIANTS
    HookAtMostOnce
    HookRecordTruthful
PROPERTIES
    ReceiptsOnlyAdvance
    DecisionsComplete
