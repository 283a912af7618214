SPECIFICATION Spec
CONSTANTS
    a = a
    b = b
    d = d
    m = m
    j1 = j1
    j2 = j2
    Root = Root
    None = None
    Commit = {a, b, m}
    Parents <- MCParents
    Remote = {b, m}
    Journal = {j1, j2}
    MaxBatch = 2
    MaxFaults = 1
    MaxCrashes = 1
    InOrder = TRUE
    RecoveryFaults = FALSE
SYMMETRY Symmetry
INVARIANT TypeOK
INVARIANT HeadsAreLeaves
INVARIANT ImplicitNotLost
INVARIANT HeadsHaveTrees
PROPERTY SyncedStaysSynced
CHECK_DEADLOCK FALSE
