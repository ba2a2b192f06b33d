SPECIFICATION Spec
CONSTANTS
    CRs = {c1}
    NoCodewind = NoCodewind
    OnOpenShift = TRUE
    Lagging = {}
    ForeignFinalizers = {}
    FaultKinds = {"delete"}
    Losable = {}
    MaxCreates = 1
    MaxEdits = 0
    MaxFaults = 1
    MaxCrashes = 0
    MaxLosses = 0
INVARIANTS NoLostWork
CHECK_DEADLOCK FALSE
