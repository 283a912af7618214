SPECIFICATION FairSpec
CONSTANTS
    Link = {1}
    Covers <- MCApart
    Field = {1, 2}
    Asked <- MCTwo
    Time = {1, 2}
    MaxEvents = 2
PROPERTY ChangesReachPage
INVARIANT QuietLinkIsReplay
INVARIANT WatchersAreCurrent
CHECK_DEADLOCK FALSE
