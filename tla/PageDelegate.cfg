SPECIFICATION Spec
CONSTANTS
    w1 = w1
    w2 = w2
    None = None
    Watcher = {w1, w2}
    MaxCommits = 3
    MaxCalls = 4
    MaxFaults = 1
INVARIANT ReadYourWrites
INVARIANT BranchIsHead
INVARIANT WatchersMoveForward
CHECK_DEADLOCK FALSE
PROPERTY OperationsAnswered
PROPERTY WatchersCatchUp
