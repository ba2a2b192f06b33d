SPECIFICATION FairSpec
CONSTANTS
    OnOpenShift = TRUE
    PodsFirst = TRUE
    FaultKinds = {"detect", "read", "write", "keycloak", "empty", "crash"}
    MaxCreates = 1
    MaxEdits = 1
    MaxFaults = 1
    MaxUnread = 1
INVARIANTS TypeOK PodBacked RealmAcknowledged
PROPERTIES AuthIDStable StatusKept EventuallyRealm
CHECK_DEADLOCK FALSE
