SPECIFICATION Spec
CONSTANTS
    N = 2
    Texts = {1, 2}
    Processes = {p1, p2}
    MaxEdits = 1
    MaxRevisions = 2
    MaxCrashes = 1
    None = None
SYMMETRY Symmetry
CHECK_DEADLOCK FALSE
INVARIANTS
    LiveIsWhole
PROPERTIES
    CaptureIsSnapshot
    EditsSurvive
