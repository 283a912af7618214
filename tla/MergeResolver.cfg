SPECIFICATION Spec
CONSTANTS
    d1 = d1
    d2 = d2
    k1 = k1
    k2 = k2
    None = None
    Device = {d1, d2}
    Key = {k1, k2}
    Value = {0, 1, 2}
    Write <- MCWrite
    Policy = {"auto"}
    MaxMergeCommits = 4
    MaxCommits = 7
    Active = {d1}
    MaxFaults = 1
    MaxDisturbed = 2
INVARIANT AncestorIsNearest
INVARIANT StrategyOutlivesMerge
CHECK_DEADLOCK FALSE
PROPERTY Converges
