SPECIFICATION Spec
CONSTANTS
    n1 = n1
    t1 = t1
    t2 = t2
    None = None
    Name = {n1}
    Token = {t1, t2}
    MaxCalls = 3
    MaxMessages = 2
    MaxFaults = 1
    MaxCrashes = 1
INVARIANT WatcherIsTold
INVARIANT ReaderIsServed
PROPERTY KeepsPromise
CHECK_DEADLOCK FALSE
