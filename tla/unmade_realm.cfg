SPECIFICATION Spec
CONSTANTS
    Workspaces = {w1}
    NoWorkspace = NoWorkspace
    Removable = {}
    Errors = {"empty"}
    MaxFaults = 1
    MaxOutages = 0
    MaxRepeats = 0
    MaxCrashes = 0
    MaxRemovals = 0
INVARIANTS RecordedRealmMade
CHECK_DEADLOCK FALSE
