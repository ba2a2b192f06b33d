SPECIFICATION FairSpec
CONSTANTS
    CRs = {c1}
    NoCodewind = NoCodewind
    OnOpenShift = TRUE
    Lagging = {}
    ForeignFinalizers = {}
    FaultKinds = {"write", "keycloak"}
    Losable = {"PFE", "AuthSecret", "Route"}
    MaxCreates = 1
    MaxEdits = 1
    MaxFaults = 1
    MaxCrashes = 1
    MaxLosses = 1
PROPERTIES EventuallyServed EventuallyGone EventuallyCollected
CHECK_DEADLOCK FALSE
