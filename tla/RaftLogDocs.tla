---------------------------- MODULE RaftLogDocs ----------------------------
(***************************************************************************)
(* What log_unstable.h says of the unstable entries and log_unstable.cpp   *)
(* does not do.  The run of the property ends in a counterexample.         *)
(***************************************************************************)
EXTENDS MCRaftLog

(***************************************************************************)
(* "unstable.entries[i] has raft log position i+unstable.offset"           *)
(* (log_unstable.h:27), of the entries that were read inside the vector.   *)
(* A batch that overlaps the unstable entries without starting at offset_  *)
(* leaves others than those that precede it (log_unstable.cpp:65).         *)
(***************************************************************************)
EntriesAtPositions ==
    \A i \in 1..Len(unstable) :
        unstable[i] \notin StaleMemory => unstable[i].index = offset + i - 1
=============================================================================
