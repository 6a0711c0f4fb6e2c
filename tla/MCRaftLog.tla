----------------------------- MODULE MCRaftLog -----------------------------
(* An instance of RaftLog for TLC: the memory beside a vector holds an entry *)
(* of another position.                                                      *)
EXTENDS RaftLog

CONSTANT h1

OneStale == {[index |-> 0, term |-> 1]}
=============================================================================
