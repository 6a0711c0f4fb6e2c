--------------------------- MODULE MCQuorumCommit ---------------------------
(* An instance of QuorumCommit for TLC: three voters, any two decide.       *)
EXTENDS QuorumCommit, FiniteSets

CONSTANTS v1, v2, v3

MCQuorums == {Q \in SUBSET Voters : Cardinality(Q) >= 2}
=============================================================================
