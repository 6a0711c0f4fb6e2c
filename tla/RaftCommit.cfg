CONSTANTS
    n1 = n1
    n2 = n2
    n3 = n3
    n4 = n4
    Server = {n1, n2}
    Voters = {n1, n2, n3}
    Peer = {n1, n2, n3, n4}
    None = None
    ElectionTimeout = 1
    HeartbeatTimeout = 0
    PreVote = FALSE
    CheckQuorum = TRUE
    Learners = {}
    MaxWord = 2
    Terms = {0}
    Snapshot = 0
    GrantGarbage = {1}
    Inject <- MCCommitInject
    Batching = FALSE
    PublicSends = {"SendAppend"}
    MaxLast = 0
    MaxElapsed = 2
SPECIFICATION Spec
INVARIANTS
    TypeOK
    NextAheadOfMatch
    AppCommitsReached
    QuorumBacked
PROPERTIES
    ImplementsQuorumCommit
    
