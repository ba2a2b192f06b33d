SPECIFICATION Spec
CONSTANTS
    CRs = {c1}
    NoCodewind = NoCodewind
    OnOpenShift = FALSE
    Lagging = {}
    ForeignFinalizers = {"other"}
    FaultKinds = {}
    Losable = {}
    MaxCreates = 1
    MaxEdits = 0
    MaxFaults = 0
    MaxCrashes = 0
    MaxLosses = 0
INVARIANTS NoOrphanBinding
CHECK_DEADLOCK FALSE
