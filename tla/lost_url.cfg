SPECIFICATION Spec
CONSTANTS
    CRs = {c1}
    NoCodewind = NoCodewind
    OnOpenShift = FALSE
    Lagging = {}
    ForeignFinalizers = {}
    FaultKinds = {}
    Losable = {}
    MaxCreates = 1
    MaxEdits = 1
    MaxFaults = 0
    MaxCrashes = 0
    MaxLosses = 0
INVARIANTS PublishedURL
CHECK_DEADLOCK FALSE
