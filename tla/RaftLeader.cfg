CONSTANTS
    n1 = n1
    n2 = n2
    n3 = n3
    n4 = n4
    Server = {n1, n2}
    Voters = {n1, n2, n3}
    Peer = {n1, n2, n3, n4}
    None = None
    ElectionTimeout = 1
    HeartbeatTimeout = 0
    PreVote = FALSE
    CheckQuorum = FALSE
    Learners = {}
    MaxWord = 4
    Terms = {0, 1}
    Snapshot = 0
    GrantGarbage = {0, 2}
    Inject <- MCLeaderInject
    Batching = TRUE
    PublicSends = {"SendHeartbeat"}
    MaxLast = 2
    MaxElapsed = 2
SPECIFICATION Spec
INVARIANTS
    MatchWasAcked
    LeaderWasElected
    CommittedWasAcked
    LeadersStayUnknown
    OnlyAnsweredLead
PROPERTIES
    LeaderCommitsStored
    DecidesHighest
