SPECIFICATION FairSpec
CONSTANTS
    a = a
    b = b
    c = c
    m = m
    Root = Root
    Commit = {a, b, m}
    Parents <- MCParents
    Generation <- MCGeneration
    Local = {}
    Remote = {a, b, m}
    Racing = {}
    MaxConcurrentUploads = 1
    MaxGets = 1
    MaxTemporary = 1
    MaxPermanent = 1
    MaxCrashes = 1
    MaxFaults = 4
INVARIANT TokenIsCovered
PROPERTY EventuallyDownloaded
PROPERTY BacklogIsStored
CHECK_DEADLOCK FALSE
