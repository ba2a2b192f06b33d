SPECIFICATION Spec
CONSTANTS
    CRs = {c1}
    NoCodewind = NoCodewind
    OnOpenShift = FALSE
    Lagging = {"ClusterRole", "Secret"}
    ForeignFinalizers = {"other"}
    FaultKinds = {"detect", "read", "readBinding", "write", "delete", "keycloak"}
    Losable = {}
    MaxCreates = 1
    MaxEdits = 1
    MaxFaults = 1
    MaxCrashes = 1
    MaxLosses = 0
INVARIANTS TypeOK CopiesTrail DeploymentsBacked AuthSecretUsable CompleteMeansDeployed
PROPERTIES WorkspaceStable
CHECK_DEADLOCK FALSE
