CONSTANTS
    Id = 1
    MaxCluster = 1
    ElectionTick = 2
    MaxProposals = 1
    MaxCalls = 0
SPECIFICATION FairSpec
PROPERTIES
    TickAdvancesClock
CHECK_DEADLOCK FALSE
