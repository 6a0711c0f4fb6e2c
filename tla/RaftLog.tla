------------------------------ MODULE RaftLog ------------------------------
(***************************************************************************)
(* RaftLog and Unstable (raft_log.cpp, log_unstable.cpp) above the         *)
(* MemoryStorage they read, one action per method that changes a log.  The *)
(* application fills and compacts the storage before it starts the node    *)
(* and goes on appending to it afterwards; it compacts nothing beyond      *)
(* applied_ (storage.h:80-82).                                             *)
(***************************************************************************)
EXTENDS MemoryStorage

CONSTANT StaleMemory    \* entries found where Unstable reads outside its vector

ASSUME StaleAssumption == StaleMemory \subseteq Entry /\ StaleMemory # {}

VARIABLES
    created,        \* whether NewLog has run
    offset,         \* offset_ of Unstable
    unstable,       \* entries_ of Unstable
    committed,      \* committed_
    applied,        \* applied_
    truncated       \* history: a batch went to the last branch of TruncateAndAppend

unstableVars == <<offset, unstable, truncated>>
raftLogVars  == <<created, unstableVars, committed, applied>>
allVars      == <<vars, raftLogVars>>

LogInit ==
    /\ Init
    /\ created = FALSE
    /\ offset = 0 /\ unstable = <<>>
    /\ committed = 0 /\ applied = 0
    /\ truncated = FALSE

-----------------------------------------------------------------------------
\* FirstIndex(): MaybeFirstIndex of Unstable never knows better.
LogFirst == FirstIndex

\* Mutant: the later of the two ends.
LogLastOfBoth ==
    LET end == offset + Len(unstable) - 1
    IN  IF unstable # <<>> /\ end > LastIndex THEN end ELSE LastIndex

\* LastIndex(): the unstable entries answer if there are any.
LogLast == IF unstable # <<>> THEN offset + Len(unstable) - 1 ELSE LastIndex

\* Whether MatchTerm(i, t) may answer TRUE, FALSE: outside the window the term
\* is 0, inside Term returns nothing.
MatchTerm(i, t) == IF i >= LogFirst - 1 /\ i <= LogLast THEN BOOLEAN ELSE {t = 0}

\* MustCheckOutOfBounds(lo, hi) = ErrNone.
InBounds(lo, hi) == lo <= hi /\ lo >= LogFirst /\ hi <= LogLast + 1

\* The two parts of Slice(lo, hi): what it asks of the storage, what of Unstable.
StoredUpTo(hi)   == IF hi < offset THEN hi ELSE offset
UnstableFrom(lo) == IF lo > offset THEN lo ELSE offset
UnstablePart(lo, hi) == SubSeq(unstable, UnstableFrom(lo) - offset + 1, hi - offset)

-----------------------------------------------------------------------------
\* Mutant: the log counts as applied what the storage holds.
NewLogAllApplied ==
    /\ offset' = LastIndex + 1
    /\ applied' = LastIndex

\* Mutant: the unstable entries begin one position too far.
NewLogPastNext ==
    /\ offset' = LastIndex + 2
    /\ applied' = FirstIndex - 1

\* NewLog; StartNode overwrites the committed_ it sets.
NewLog ==
    /\ offset' = LastIndex + 1
    /\ applied' = FirstIndex - 1

\* StartNode: the log is created, its bootstrap entries go to a stub, and all
\* the storage holds counts as committed.
StartNode ==
    /\ ~created
    /\ created' = TRUE
    /\ NewLog
    /\ committed' = LastIndex
    /\ UNCHANGED <<vars, unstable, truncated>>

\* Mutant: the replaced entries keep the old offset.
TruncateKeepingOffset(batch) ==
    LET after == batch[1].index
        next  == offset + Len(unstable)
    IN  /\ UNCHANGED <<offset, truncated>>
        /\ unstable' = IF after = next THEN unstable \o batch
                       ELSE IF after <= offset THEN batch ELSE unstable

\* TruncateAndAppend: continue the unstable entries; or replace them all; or
\* copy those at vector positions offset_ to after - 1, which are not the ones
\* that precede the batch, and forget the batch.  What lies outside the vector
\* is whatever the memory holds.
TruncateAndAppend(batch) ==
    LET after == batch[1].index
        next  == offset + Len(unstable)
    IN  \/ /\ after = next
           /\ unstable' = unstable \o batch
           /\ UNCHANGED <<offset, truncated>>
        \/ /\ after # next /\ after <= offset
           /\ unstable' = batch
           /\ offset' = after
           /\ UNCHANGED truncated
        \/ /\ after # next /\ after > offset
           /\ LET end  == IF after < Len(unstable) THEN after ELSE Len(unstable)
                  kept == SubSeq(unstable, offset + 1, end)
              IN  \E stale \in [1..(after - offset - Len(kept)) -> StaleMemory] :
                     unstable' = kept \o stale
           /\ truncated' = TRUE
           /\ UNCHANGED offset

\* Append(entries) of a batch that leaves no gap.  The panic on a batch at or
\* before committed_ is a comment.
AppendUnstable(batch) ==
    /\ created
    /\ batch[1].index <= LogLast + 1
    /\ TruncateAndAppend(batch)
    /\ UNCHANGED <<vars, created, committed, applied>>

\* Mutant: the commit index follows whatever it is told.
CommitBack(i) ==
    /\ committed' = i
    /\ UNCHANGED <<vars, created, unstableVars, applied>>

\* CommitTo: never back; the comparison with LastIndex() guards a comment.
CommitTo(i) ==
    /\ committed' = IF i > committed THEN i ELSE committed
    /\ UNCHANGED <<vars, created, unstableVars, applied>>

MaybeCommit(i, t) ==
    /\ created
    /\ i > committed /\ TRUE \in MatchTerm(i, t)
    /\ CommitTo(i)

\* MaybeAppend(i, t, c, entries) with n entries, of which it appends none; what
\* FindConflict finds decides nothing.
MaybeAppend(i, t, c, n) ==
    /\ created
    /\ TRUE \in MatchTerm(i, t)
    /\ CommitTo(IF c < i + n THEN c ELSE i + n)

\* The application's calls on the storage.
AppendStorage(batch) == AppendBatch(batch) /\ UNCHANGED raftLogVars

CompactStorage(i) ==
    /\ created => i <= applied
    /\ Compact(i)
    /\ UNCHANGED raftLogVars

SaveHardState(hs) == SetHardState(hs) /\ UNCHANGED raftLogVars

LogNext ==
    \/ StartNode
    \/ \E batch \in Batches :
          /\ LastOf(batch) <= MaxIndex
          /\ AppendUnstable(batch) \/ AppendStorage(batch)
    \/ \E i \in 0..MaxIndex, t \in Terms : MaybeCommit(i, t)
    \/ \E i \in 0..MaxIndex, c \in 0..MaxIndex, t \in Terms, n \in 0..MaxBatch :
          MaybeAppend(i, t, c, n)
    \/ \E i \in 0..MaxIndex : CompactStorage(i)
    \/ \E hs \in HardStates : SaveHardState(hs)

LogSpec == LogInit /\ [][LogNext]_allVars

-----------------------------------------------------------------------------
LogTypeOK ==
    /\ TypeOK
    /\ created \in BOOLEAN /\ truncated \in BOOLEAN
    /\ offset \in 0..MaxIndex + 1
    /\ unstable \in Seq(Entry)
    /\ committed \in 0..MaxIndex
    /\ applied \in 0..MaxIndex

(***************************************************************************)
(* A range that passes MustCheckOutOfBounds is there: its first part       *)
(* passes the checks of the storage however that has grown or shrunk since *)
(* the log was created, and its second part lies within the unstable       *)
(* entries unless there are none (raft_log.cpp:229-256; with none, a       *)
(* storage that has overtaken offset_ makes Slice read outside an empty    *)
(* vector).                                                                *)
(***************************************************************************)
SliceInBounds ==
    created =>
        \A lo \in 0..MaxIndex + 1, hi \in 0..MaxIndex + 1 :
            InBounds(lo, hi) =>
                /\ lo < offset => /\ lo > Offset
                                  /\ StoredUpTo(hi) <= Offset + Len(entries)
                /\ hi > offset /\ unstable # <<>> =>
                      hi - offset <= Len(unstable)

(***************************************************************************)
(* "unstable.entries[i] has raft log position i+unstable.offset"           *)
(* (log_unstable.h:27), as Slice sees it: what it returns of the unstable  *)
(* entries for lo to hi - 1 are the entries of these positions, as long as *)
(* no batch has gone to the last branch of TruncateAndAppend.              *)
(***************************************************************************)
UnstablePositions ==
    ~truncated /\ unstable # <<>> =>
        \A lo \in 0..MaxIndex + 1, hi \in 0..MaxIndex + 1 :
            InBounds(lo, hi) /\ hi > offset =>
                \A k \in 1..(hi - UnstableFrom(lo)) :
                    UnstablePart(lo, hi)[k].index = UnstableFrom(lo) + k - 1

(***************************************************************************)
(* "Invariant: applied <= committed" (raft_log.h:105-107), whatever commit *)
(* indexes late messages carry and whatever is compacted or appended.      *)
(***************************************************************************)
AppliedBehindCommitted == applied <= committed

(***************************************************************************)
(* Nothing ever moves applied_ after NewLog, so an application that keeps  *)
(* to storage.h:80-82 can compact nothing while the node runs: the window  *)
(* never loses its beginning, and the storage only grows.                  *)
(***************************************************************************)
NeverCompacted ==
    [][created => Offset' = Offset /\ LastIndex' >= LastIndex]_allVars
=============================================================================
