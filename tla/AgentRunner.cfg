SPECIFICATION FairSpec
CONSTANTS
    a1 = a1
    a2 = a2
    Agent = {a1, a2}
    Tasked = {a1}
    MaxCalls = 3
    MaxFaults = 2
INVARIANT RequestsAreKept
INVARIANT WatchersKnowAgents
INVARIANT AlarmsFollowPage
PROPERTY UnusedAgentStops
PROPERTY TeardownEnds
CHECK_DEADLOCK FALSE
