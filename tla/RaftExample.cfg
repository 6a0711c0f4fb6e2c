CONSTANTS
    Id = 1
    MaxCluster = 3
    ElectionTick = 2
    MaxProposals = 3
    MaxCalls = 2
SPECIFICATION FairSpec
INVARIANTS
    ExampleTypeOK
    TickNeedsNodeFirst
    TimerCannotElect
    OnlyAloneServes
    ProposalsInOrder
    
PROPERTIES
    
    AcceptedIsHanded
    StartupEnds
CHECK_DEADLOCK FALSE
