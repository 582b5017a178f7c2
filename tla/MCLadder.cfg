SPECIFICATION Spec
CONSTANTS
    None = None
    q1 = q1
    q2 = q2
    q3 = q3
    Queries <- MCQueries
    Budget = 2
    Threshold = 2
    Improvements <- MCImprovements
    Scalars <- MCScalars
    MaxLosses = 1
SYMMETRY Symmetry
INVARIANTS
    ObservationsWithinBudget
    StoredRecordDecodes
    ChargesAccounted
    BestIsLeastReleased
    PromotionConfirmed
    LockHeldInSection
PROPERTIES
    NeverReseeded
CHECK_DEADLOCK FALSE
