SPECIFICATION FairSpec
CONSTANTS
    Link = {1, 2}
    Covers <- MCPrefix
    Field = {1, 2}
    Asked <- MCTwo
    Time = {1}
    MaxEvents = 1
INVARIANT QuietLinkIsReplay
CHECK_DEADLOCK FALSE
