SPECIFICATION Spec
CONSTANTS
    OnOpenShift = FALSE
    PodsFirst = FALSE
    FaultKinds = {}
    MaxCreates = 1
    MaxEdits = 0
    MaxFaults = 0
    MaxUnread = 0
INVARIANTS NoMissedWakeUp
CHECK_DEADLOCK FALSE
