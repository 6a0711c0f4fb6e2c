CONSTANTS
    v1 = v1
    v2 = v2
    v3 = v3
    Server = {v1, v2}
    Voters = {v1, v2, v3}
    Quorums <- MCQuorums
    MaxWord = 2
    Snapshot = 0
SPECIFICATION Spec
INVARIANTS
    TypeOK
    QuorumBacked
