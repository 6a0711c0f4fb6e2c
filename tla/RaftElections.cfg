CONSTANTS
    n1 = n1
    n2 = n2
    n3 = n3
    n4 = n4
    Server = {n1, n2, n4}
    Voters = {n1, n2}
    Peer = {n1, n2, n3, n4}
    None = None
    ElectionTimeout = 2
    HeartbeatTimeout = 1
    PreVote = FALSE
    CheckQuorum = TRUE
    Learners = {n4}
    MaxWord = 1
    Terms = {0}
    Snapshot = 0
    GrantGarbage = {0, 2}
    Inject <- MCTimersInject
    Batching = FALSE
    PublicSends = {"SendHeartbeat"}
    MaxLast = 0
    MaxElapsed = 4
SPECIFICATION FairElectionSpec
INVARIANTS
    ElapsedBounded
    ElectionsSpaced
    OnlyVotersCampaign
PROPERTIES
    TimerRestarts
