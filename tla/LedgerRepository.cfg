SPECIFICATION FairSpec
CONSTANTS
    l1 = l1
    p1 = p1
    r1 = r1
    r2 = r2
    Ledger = {l1}
    Page = {p1}
    LedgerOf <- MCLedgerOf
    Request = {r1, r2}
    MaxConnections = 1
    MaxWork = 1
    MaxFaults = 2
PROPERTY RequestsAnswered
PROPERTY UnusedIsDropped
INVARIANT UploadFollowsCheck
CHECK_DEADLOCK FALSE
