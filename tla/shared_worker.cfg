SPECIFICATION FairSpec
CONSTANTS
    Codewinds = {c1, c2}
    NoCodewind = NoCodewind
    Realms = {r1}
    Nothing = Nothing
    Defaults = r1
    MaxTries = 2
    FaultKinds = {}
    MaxKeycloaks = 1
    MaxEdits = 2
    MaxFaults = 0
PROPERTIES DeletionNotHeldUp ServedInTheEnd
CHECK_DEADLOCK FALSE
