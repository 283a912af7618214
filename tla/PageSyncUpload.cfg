SPECIFICATION FairSpec
CONSTANTS
    a = a
    b = b
    c = c
    m = m
    Root = Root
    Commit = {a, b, m}
    Parents <- MCParents
    Generation <- MCGeneration
    Local = {a, m}
    Remote = {b}
    Racing = {a}
    MaxConcurrentUploads = 2
    MaxGets = 1
    MaxTemporary = 1
    MaxPermanent = 1
    MaxCrashes = 1
    MaxFaults = 1
INVARIANT SyncedIsInCloud
INVARIANT ObjectsBeforeCommits
PROPERTY EventuallyUploaded
CHECK_DEADLOCK FALSE
