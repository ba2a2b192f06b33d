SPECIFICATION FairSpec
CONSTANTS
    Workspaces = {w1, w2}
    NoWorkspace = NoWorkspace
    Removable = {w2}
    Errors = {"refused", "empty", "unsent", "unanswered"}
    MaxFaults = 1
    MaxOutages = 1
    MaxRepeats = 1
    MaxCrashes = 1
    MaxRemovals = 1
INVARIANTS TypeOK CompleteMeansRegistered
PROPERTIES EventuallyRegistered ImplementsPromise
CHECK_DEADLOCK FALSE
