SPECIFICATION FairSpec
CONSTANTS
    root = root
    child = child
    None = None
    Module = {root, child}
    Root = root
    Path <- MCPath
    Parent <- MCParent
    Url = {1}
    Stored <- MCStored
    MaxCalls = 3
    MaxRemote = 1
    MaxEvents = 1
    MaxFaults = 1
PROPERTY QueueDrains
INVARIANT RunsWhatIsStored
INVARIANT StateFollowsRoot
INVARIANT NoViewForgotten
CHECK_DEADLOCK FALSE
