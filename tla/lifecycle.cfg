SPECIFICATION Spec
CONSTANTS
    CRs = {c1}
    NoCodewind = NoCodewind
    OnOpenShift = TRUE
    Lagging = {}
    ForeignFinalizers = {}
    FaultKinds = {"write", "read", "keycloak"}
    Losable = {}
    MaxCreates = 2
    MaxEdits = 1
    MaxFaults = 1
    MaxCrashes = 1
    MaxLosses = 0
INVARIANTS GuardHolds NoOrphanBinding NoLostWork
PROPERTIES ImplementsLifecycle
CHECK_DEADLOCK FALSE
