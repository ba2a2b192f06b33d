SPECIFICATION Spec
CONSTANTS
    Codewinds = {c1}
    NoCodewind = NoCodewind
    Realms = {r1, r2}
    Nothing = Nothing
    Defaults = r1
    MaxTries = 1
    FaultKinds = {"crash", "start", "write", "keycloak", "empty"}
    MaxKeycloaks = 2
    MaxEdits = 1
    MaxFaults = 1
INVARIANTS TypeOK DeployedRegistered RecordedRealmAcknowledged
PROPERTIES SettingsKept
CHECK_DEADLOCK FALSE
