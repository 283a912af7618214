SPECIFICATION FairSpec
CONSTANTS
    a = a
    b = b
    d = d
    m = m
    j1 = j1
    j2 = j2
    Root = Root
    None = None
    Commit = {a, b, d, m}
    Parents <- MCParents
    Remote = {a, b, m}
    Journal = {j1}
    MaxBatch = 3
    MaxFaults = 1
    MaxCrashes = 1
    InOrder = FALSE
    RecoveryFaults = TRUE
INVARIANT ParentsStored
INVARIANT LeavesAreHeads
PROPERTY LockIsReleased
CHECK_DEADLOCK FALSE
