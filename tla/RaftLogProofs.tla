--------------------------- MODULE RaftLogProofs ---------------------------
(***************************************************************************)
(* Proofs about RaftLog, for any terms and bounds.  They rest on what      *)
(* MemoryStorageProofs shows of the storage below the log.                 *)
(***************************************************************************)
EXTENDS RaftLog, MemoryStorageProofs

\* The unstable entries continue the storage without a hole.
NoHole == offset <= LastIndex + 1

Positions == \A k \in 1..Len(unstable) : unstable[k].index = offset + k - 1

LogInv ==
    /\ LogTypeOK /\ Contiguous
    /\ created => applied = Offset /\ NoHole
    /\ ~created => unstable = <<>> /\ applied = 0
    /\ applied <= committed
    /\ ~truncated => Positions

\* The numbers the invariant compares.
LEMMA LogFacts ==
    ASSUME LogInv
    PROVE  /\ Inv
           /\ Len(entries) \in Nat /\ Len(entries) >= 1
           /\ Offset \in 0..MaxIndex /\ Offset \in Nat
           /\ LastIndex \in 0..MaxIndex /\ LastIndex \in Nat /\ Offset <= LastIndex
           /\ MaxIndex \in Nat
           /\ offset \in Nat /\ committed \in Nat /\ applied \in Nat
           /\ unstable \in Seq(Entry) /\ Len(unstable) \in Nat
<1>1. Inv /\ MaxIndex \in Nat
  BY StorageAssumption DEF LogInv, LogTypeOK, Inv
<1>2. /\ Len(entries) \in Nat /\ Len(entries) >= 1
      /\ Offset \in 0..MaxIndex /\ Offset \in Nat
      /\ entries[Len(entries)] \in Entry
  BY <1>1, EntriesFacts DEF Inv
<1>3. entries[Len(entries)].index = Offset + Len(entries) - 1
  BY <1>2 DEF LogInv, Contiguous
<1>4. LastIndex \in 0..MaxIndex /\ LastIndex \in Nat /\ Offset <= LastIndex
  BY <1>1, <1>2, <1>3 DEF Entry, LastIndex
<1>5. offset \in Nat /\ committed \in Nat /\ applied \in Nat
  BY <1>1 DEF LogInv, LogTypeOK
<1>6. unstable \in Seq(Entry) /\ Len(unstable) \in Nat
  BY LenProperties DEF LogInv, LogTypeOK
<1>. QED  BY <1>1, <1>2, <1>4, <1>5, <1>6

LEMMA LogInitInv == LogInit => LogInv
<1>. SUFFICES ASSUME LogInit PROVE LogInv
  OBVIOUS
<1>1. Inv
  BY InitInv DEF LogInit
<1>2. MaxIndex \in Nat
  BY StorageAssumption
<1>3. unstable \in Seq(Entry) /\ Len(unstable) = 0
  BY DEF LogInit
<1>4. LogTypeOK
  <2>1. 0 \in 0..MaxIndex /\ 0 \in 0..MaxIndex + 1
    BY <1>2
  <2>2. TypeOK /\ unstable \in Seq(Entry)
    BY <1>1, <1>3 DEF Inv
  <2>3. created \in BOOLEAN /\ truncated \in BOOLEAN
    BY DEF LogInit
  <2>4. offset = 0 /\ committed = 0 /\ applied = 0
    BY DEF LogInit
  <2>. QED  BY <2>1, <2>2, <2>3, <2>4 DEF LogTypeOK
<1>5. Positions
  BY <1>3 DEF Positions
<1>6. Contiguous
  BY <1>1 DEF Inv
<1>7. created = FALSE /\ unstable = <<>> /\ applied = 0 /\ committed = 0
  BY DEF LogInit
<1>8. applied <= committed
  BY <1>7
<1>9. created => applied = Offset /\ NoHole
  BY <1>7
<1>10. ~created => unstable = <<>> /\ applied = 0
  BY <1>7
<1>. QED  BY <1>4, <1>5, <1>6, <1>8, <1>9, <1>10 DEF LogInv

LEMMA StartNodeInv ==
    ASSUME LogInv, StartNode
    PROVE  LogInv'
<1>1. /\ offset' = LastIndex + 1 /\ applied' = Offset /\ committed' = LastIndex
      /\ created' = TRUE /\ unstable' = unstable /\ truncated' = truncated
      /\ UNCHANGED vars /\ unstable = <<>>
  BY LogFacts DEF StartNode, NewLog, FirstIndex, LogInv
<1>2. UNCHANGED <<entries, hardState, Offset, LastIndex>>
  BY <1>1 DEF vars, Offset, LastIndex
<1>3. TypeOK' /\ Contiguous'
  BY <1>2 DEF LogInv, LogTypeOK, TypeOK, Contiguous
<1>4. LogTypeOK'
  BY <1>1, <1>3, LogFacts DEF LogInv, LogTypeOK
<1>5. Positions'
  BY <1>1 DEF Positions
<1>6. NoHole'
  BY <1>1, <1>2, LogFacts DEF NoHole
<1>. QED  BY <1>1, <1>2, <1>3, <1>4, <1>5, <1>6, LogFacts DEF LogInv

\* What a batch and the three branches leave in the unstable entries.
LEMMA TruncateShape ==
    ASSUME LogInv, NEW batch \in Batches, LastOf(batch) <= MaxIndex,
           TruncateAndAppend(batch)
    PROVE  /\ unstable' \in Seq(Entry)
           /\ offset' \in Nat /\ offset' <= offset
           /\ truncated' \in BOOLEAN
           /\ ~truncated' => ~truncated /\ Positions'
<1>. DEFINE after == batch[1].index
            next == offset + Len(unstable)
<1>1. /\ batch \in Seq(Entry) /\ batch # <<>>
      /\ \A k \in 1..Len(batch) : batch[k].index = after + k - 1
  BY BatchShape
<1>2. Len(batch) \in Nat /\ after \in Nat
  <2>1. Len(batch) \in Nat /\ Len(batch) >= 1
    BY <1>1, EmptySeq
  <2>2. batch[1] \in Entry
    BY <1>1, <2>1, ElementOfSeq
  <2>. QED  BY <2>1, <2>2, StorageAssumption DEF Entry
<1>3. /\ unstable \in Seq(Entry) /\ Len(unstable) \in Nat /\ offset \in Nat
      /\ truncated \in BOOLEAN
  BY LogFacts DEF LogInv, LogTypeOK
<1>. HIDE DEF after
<1>4. CASE /\ after = next
           /\ unstable' = unstable \o batch
           /\ UNCHANGED <<offset, truncated>>
  <2>1. /\ unstable' \in Seq(Entry)
        /\ Len(unstable') = Len(unstable) + Len(batch)
        /\ \A k \in 1..Len(unstable') : unstable'[k] =
              IF k <= Len(unstable) THEN unstable[k] ELSE batch[k - Len(unstable)]
    BY <1>1, <1>3, <1>4, ConcatProperties
  <2>2. ASSUME Positions, NEW k \in 1..Len(unstable')
        PROVE  unstable'[k].index = offset + k - 1
    <3>1. CASE k <= Len(unstable)
      <4>1. k \in 1..Len(unstable) /\ unstable'[k] = unstable[k]
        BY <1>2, <1>3, <2>1, <3>1
      <4>. QED  BY <2>2, <4>1 DEF Positions
    <3>2. CASE k > Len(unstable)
      <4>1. k - Len(unstable) \in 1..Len(batch)
        BY <1>2, <1>3, <2>1, <3>2
      <4>2. unstable'[k] = batch[k - Len(unstable)]
        BY <1>3, <2>1, <3>2
      <4>3. unstable'[k].index = after + (k - Len(unstable)) - 1
        BY <1>1, <4>1, <4>2
      <4>. QED  BY <1>3, <1>4, <4>3
    <3>. QED  BY <1>3, <3>1, <3>2
  <2>3. offset' = offset /\ truncated' = truncated
    BY <1>4
  <2>4. Positions => Positions'
    BY <2>2, <2>3 DEF Positions
  <2>5. ~truncated => Positions
    BY DEF LogInv
  <2>. QED  BY <1>3, <2>1, <2>3, <2>4, <2>5
<1>5. CASE /\ after # next /\ after <= offset
           /\ unstable' = batch
           /\ offset' = after
           /\ UNCHANGED truncated
  BY <1>1, <1>2, <1>3, <1>5 DEF Positions
<1>6. CASE /\ after # next /\ after > offset
           /\ LET end  == IF after < Len(unstable) THEN after ELSE Len(unstable)
                  kept == SubSeq(unstable, offset + 1, end)
              IN  \E stale \in [1..(after - offset - Len(kept)) -> StaleMemory] :
                     unstable' = kept \o stale
           /\ truncated' = TRUE
           /\ UNCHANGED offset
  <2>. DEFINE end  == IF after < Len(unstable) THEN after ELSE Len(unstable)
              kept == SubSeq(unstable, offset + 1, end)
  <2>0. PICK stale \in [1..(after - offset - Len(kept)) -> StaleMemory] :
           unstable' = kept \o stale
    BY <1>6
  <2>1. end \in Nat /\ end <= Len(unstable) /\ end <= after
    BY <1>2, <1>3
  <2>. HIDE DEF end
  <2>2. \A k \in offset + 1..end : unstable[k] \in Entry
    <3>. SUFFICES ASSUME NEW k \in offset + 1..end PROVE unstable[k] \in Entry
      OBVIOUS
    <3>1. k \in 1..Len(unstable)
      BY <1>3, <2>1
    <3>. QED  BY <1>3, <3>1, ElementOfSeq
  <2>3. /\ kept \in Seq(Entry)
        /\ Len(kept) = IF offset + 1 <= end THEN end - (offset + 1) + 1 ELSE 0
    BY <1>3, <2>1, <2>2, SubSeqProperties
  <2>. HIDE DEF kept
  <2>4. Len(kept) \in Nat /\ after - offset - Len(kept) \in Nat
    <3>1. CASE offset + 1 <= end
      BY <1>2, <1>3, <1>6, <2>1, <2>3, <3>1
    <3>2. CASE ~(offset + 1 <= end)
      BY <1>2, <1>3, <1>6, <2>1, <2>3, <3>2
    <3>. QED  BY <3>1, <3>2
  <2>5. stale \in Seq(Entry)
    <3>1. stale \in [1..(after - offset - Len(kept)) -> Entry]
      BY <2>0, StaleAssumption
    <3>. QED  BY <2>4, <3>1
  <2>6. unstable' \in Seq(Entry)
    BY <2>0, <2>3, <2>5, ConcatProperties
  <2>. QED  BY <1>3, <1>6, <2>6
<1>. QED  BY <1>4, <1>5, <1>6 DEF TruncateAndAppend, after

LEMMA AppendUnstableInv ==
    ASSUME LogInv, NEW batch \in Batches, LastOf(batch) <= MaxIndex,
           AppendUnstable(batch)
    PROVE  LogInv'
<1>1. /\ created /\ UNCHANGED <<vars, created, committed, applied>>
      /\ TruncateAndAppend(batch)
  BY DEF AppendUnstable
<1>2. /\ unstable' \in Seq(Entry)
      /\ offset' \in Nat /\ offset' <= offset
      /\ truncated' \in BOOLEAN
      /\ ~truncated' => Positions'
  BY <1>1, TruncateShape
<1>3. UNCHANGED <<entries, hardState, Offset, LastIndex>>
  BY <1>1 DEF vars, Offset, LastIndex
<1>4. TypeOK' /\ Contiguous'
  BY <1>3 DEF LogInv, LogTypeOK, TypeOK, Contiguous
<1>5. LogTypeOK'
  BY <1>1, <1>2, <1>4, LogFacts DEF LogInv, LogTypeOK
<1>6. NoHole'
  BY <1>1, <1>2, <1>3, LogFacts DEF LogInv, NoHole
<1>. QED  BY <1>1, <1>2, <1>3, <1>4, <1>5, <1>6 DEF LogInv

LEMMA CommitToInv ==
    ASSUME LogInv, NEW i \in 0..MaxIndex, CommitTo(i)
    PROVE  LogInv'
<1>1. /\ committed' = IF i > committed THEN i ELSE committed
      /\ UNCHANGED <<entries, hardState, created, offset, unstable, truncated, applied>>
  BY DEF CommitTo, vars, unstableVars
<1>2. UNCHANGED <<Offset, LastIndex>>
  BY <1>1 DEF Offset, LastIndex
<1>3. committed' \in 0..MaxIndex /\ committed' >= committed
  BY <1>1, LogFacts DEF LogInv, LogTypeOK
<1>. QED  BY <1>1, <1>2, <1>3, LogFacts
          DEF LogInv, LogTypeOK, TypeOK, Contiguous, Positions, NoHole

\* The storage may grow at any time; while the node runs it never loses its
\* beginning.
LEMMA StorageStep ==
    ASSUME LogInv, UNCHANGED raftLogVars,
           \/ \E batch \in Batches : LastOf(batch) <= MaxIndex /\ AppendBatch(batch)
           \/ \E i \in 0..MaxIndex : (created => i <= applied) /\ Compact(i)
           \/ \E hs \in HardStates : SetHardState(hs)
    PROVE  /\ LogInv'
           /\ created => Offset' = Offset /\ LastIndex' >= LastIndex
<1>1. Inv /\ Inv'
  <2>1. [Next]_vars
    BY DEF Next
  <2>. QED  BY <2>1, LogFacts, NextInv
<1>2. created => Offset' = Offset /\ LastIndex' >= LastIndex
  <2>. SUFFICES ASSUME created PROVE Offset' = Offset /\ LastIndex' >= LastIndex
    OBVIOUS
  <2>1. ASSUME NEW batch \in Batches, LastOf(batch) <= MaxIndex, AppendBatch(batch)
        PROVE  Offset' = Offset /\ LastIndex' >= LastIndex
    <3>1. /\ entries' \in Seq(Entry) /\ Len(entries') >= Len(entries)
          /\ \A k \in 1..Len(entries) : entries'[k] = entries[k]
      BY <1>1, <2>1, AppendShape
    <3>2. Len(entries') \in Nat
      BY <3>1, LenProperties
    <3>3. Offset' = Offset
      BY <3>1, LogFacts DEF Offset
    <3>. QED  BY <3>1, <3>2, <3>3, LogFacts DEF LastIndex
  <2>2. ASSUME NEW i \in 0..MaxIndex, i <= applied, Compact(i) PROVE FALSE
    BY <2>2, LogFacts DEF Compact, LogInv
  <2>3. ASSUME NEW hs \in HardStates, SetHardState(hs)
        PROVE  Offset' = Offset /\ LastIndex' >= LastIndex
    BY <2>3, LogFacts DEF SetHardState, Offset, LastIndex
  <2>. QED  BY <2>1, <2>2, <2>3
<1>3. UNCHANGED <<created, offset, unstable, truncated, committed, applied>>
  BY DEF raftLogVars, unstableVars
<1>4. LogTypeOK' /\ Contiguous'
  BY <1>1, <1>3 DEF LogInv, LogTypeOK, Inv
<1>5. created => NoHole'
  <2>1. LastIndex' \in Int
    <3>1. Len(entries') \in Nat /\ Offset' \in Nat
      <4>1. TypeOK'
        BY <1>4 DEF LogTypeOK
      <4>2. entries' \in Seq(Entry) /\ entries' # <<>>
        BY <4>1 DEF TypeOK
      <4>3. Len(entries') \in Nat /\ Len(entries') >= 1
        BY <4>2, EmptySeq
      <4>4. entries'[1] \in Entry
        BY <4>2, <4>3, ElementOfSeq
      <4>. QED  BY <4>3, <4>4, StorageAssumption DEF Entry, Offset
    <3>. QED  BY <3>1 DEF LastIndex
  <2>. QED  BY <1>2, <1>3, <2>1, LogFacts DEF LogInv, NoHole
<1>. QED  BY <1>2, <1>3, <1>4, <1>5 DEF LogInv, Positions

\* Every step keeps the invariant, and once the log exists its beginning.
LEMMA LogNextInv ==
    LogInv /\ [LogNext]_allVars =>
        /\ LogInv'
        /\ created => Offset' = Offset /\ LastIndex' >= LastIndex
<1>. SUFFICES ASSUME LogInv, [LogNext]_allVars
              PROVE  /\ LogInv'
                     /\ created => Offset' = Offset /\ LastIndex' >= LastIndex
  OBVIOUS
<1>0. ASSUME UNCHANGED vars
      PROVE  Offset' = Offset /\ LastIndex' >= LastIndex
  BY <1>0, LogFacts DEF vars, Offset, LastIndex
<1>1. CASE StartNode
  BY <1>1, StartNodeInv DEF StartNode
<1>2. ASSUME NEW batch \in Batches, LastOf(batch) <= MaxIndex, AppendUnstable(batch)
      PROVE  LogInv' /\ UNCHANGED vars
  BY <1>2, AppendUnstableInv DEF AppendUnstable
<1>3. ASSUME NEW i \in 0..MaxIndex, NEW t \in Terms, MaybeCommit(i, t)
      PROVE  LogInv' /\ UNCHANGED vars
  BY <1>3, CommitToInv DEF MaybeCommit, CommitTo
<1>4. ASSUME NEW i \in 0..MaxIndex, NEW c \in 0..MaxIndex, NEW t \in Terms,
             NEW n \in 0..MaxBatch, MaybeAppend(i, t, c, n)
      PROVE  LogInv' /\ UNCHANGED vars
  <2>. DEFINE least == IF c < i + n THEN c ELSE i + n
  <2>1. least \in 0..MaxIndex
    BY StorageAssumption
  <2>2. CommitTo(least)
    BY <1>4 DEF MaybeAppend
  <2>. HIDE DEF least
  <2>3. LogInv'
    BY <2>1, <2>2, CommitToInv
  <2>. QED  BY <2>2, <2>3 DEF CommitTo
<1>5. ASSUME NEW batch \in Batches, LastOf(batch) <= MaxIndex, AppendStorage(batch)
      PROVE  LogInv' /\ (created => Offset' = Offset /\ LastIndex' >= LastIndex)
  BY <1>5, StorageStep DEF AppendStorage
<1>6. ASSUME NEW i \in 0..MaxIndex, CompactStorage(i)
      PROVE  LogInv' /\ (created => Offset' = Offset /\ LastIndex' >= LastIndex)
  BY <1>6, StorageStep DEF CompactStorage
<1>7. ASSUME NEW hs \in HardStates, SaveHardState(hs)
      PROVE  LogInv' /\ (created => Offset' = Offset /\ LastIndex' >= LastIndex)
  BY <1>7, StorageStep DEF SaveHardState
<1>8. CASE UNCHANGED allVars
  <2>1. UNCHANGED <<entries, hardState, raftLogVars>> /\ UNCHANGED vars
    BY <1>8 DEF allVars, vars
  <2>2. UNCHANGED <<created, offset, unstable, truncated, committed, applied>>
    BY <2>1 DEF raftLogVars, unstableVars
  <2>3. UNCHANGED <<Offset, LastIndex>>
    BY <2>1 DEF Offset, LastIndex
  <2>4. LogInv'
    BY <2>1, <2>2, <2>3
       DEF LogInv, LogTypeOK, TypeOK, Contiguous, Positions, NoHole
  <2>. QED  BY <1>0, <2>1, <2>4
<1>. QED  BY <1>0, <1>1, <1>2, <1>3, <1>4, <1>5, <1>6, <1>7, <1>8 DEF LogNext

(***************************************************************************)
(* The offsets, commit and apply indexes and both vectors keep their types *)
(* (raft_log.cpp, log_unstable.cpp).                                       *)
(***************************************************************************)
THEOREM LogTypeInvariant == LogSpec => []LogTypeOK
<1>1. LogInv => LogTypeOK
  BY DEF LogInv
<1>. QED  BY <1>1, LogInitInv, LogNextInv, PTL DEF LogSpec

(***************************************************************************)
(* Whatever the storage grows to and whatever replaces the unstable        *)
(* entries, a range that passes MustCheckOutOfBounds is found              *)
(* (raft_log.cpp:229-256): NoHole holds from NewLog on.                    *)
(***************************************************************************)
THEOREM SliceAlwaysInBounds == LogSpec => []SliceInBounds
<1>1. LogInv => SliceInBounds
  <2>. SUFFICES ASSUME LogInv, created,
                       NEW lo \in 0..MaxIndex + 1, NEW hi \in 0..MaxIndex + 1,
                       InBounds(lo, hi)
                PROVE  /\ lo < offset => /\ lo > Offset
                                         /\ StoredUpTo(hi) <= Offset + Len(entries)
                       /\ hi > offset /\ unstable # <<>> =>
                             hi - offset <= Len(unstable)
    BY DEF SliceInBounds
  <2>1. lo \in Nat /\ hi \in Nat
    BY LogFacts
  <2>2. lo > Offset
    BY <2>1, LogFacts DEF InBounds, LogFirst, FirstIndex
  <2>3. StoredUpTo(hi) <= Offset + Len(entries)
    <3>1. StoredUpTo(hi) <= offset
      BY <2>1, LogFacts DEF StoredUpTo
    <3>2. offset <= Offset + Len(entries)
      BY LogFacts DEF LogInv, NoHole, LastIndex
    <3>3. StoredUpTo(hi) \in Nat
      BY <2>1, LogFacts DEF StoredUpTo
    <3>. QED  BY <3>1, <3>2, <3>3, LogFacts
  <2>4. ASSUME unstable # <<>> PROVE hi - offset <= Len(unstable)
    BY <2>1, <2>4, LogFacts DEF InBounds, LogLast
  <2>. QED  BY <2>2, <2>3, <2>4
<1>. QED  BY <1>1, LogInitInv, LogNextInv, PTL DEF LogSpec

(***************************************************************************)
(* Until a batch goes to the last branch of TruncateAndAppend, Slice       *)
(* returns of the unstable entries those of the positions asked for        *)
(* (log_unstable.h:27, log_unstable.cpp:43-96).                            *)
(***************************************************************************)
THEOREM UnstablePositionsAlways == LogSpec => []UnstablePositions
<1>1. LogInv => UnstablePositions
  <2>. SUFFICES ASSUME LogInv, ~truncated, unstable # <<>>,
                       NEW lo \in 0..MaxIndex + 1, NEW hi \in 0..MaxIndex + 1,
                       InBounds(lo, hi), hi > offset,
                       NEW k \in 1..(hi - UnstableFrom(lo))
                PROVE  UnstablePart(lo, hi)[k].index = UnstableFrom(lo) + k - 1
    BY DEF UnstablePositions
  <2>. DEFINE from == UnstableFrom(lo)
  <2>1. lo \in Nat /\ hi \in Nat /\ offset \in Nat /\ Len(unstable) \in Nat
    BY LogFacts
  <2>2. from \in Nat /\ from >= offset
    BY <2>1 DEF UnstableFrom
  <2>3. hi - offset <= Len(unstable)
    BY <2>1, LogFacts DEF InBounds, LogLast
  <2>. HIDE DEF from
  <2>4. /\ from - offset + 1 \in Nat /\ hi - offset \in Nat
        /\ from - offset + 1 >= 1
        /\ k \in 1..(hi - offset) - (from - offset + 1) + 1
        /\ k \in Nat
        /\ (from - offset + 1) + k - 1 \in 1..Len(unstable)
    BY <2>1, <2>2, <2>3 DEF from
  <2>5. \A j \in from - offset + 1..hi - offset : unstable[j] \in Entry
    BY <2>1, <2>2, <2>3, <2>4, LogFacts, ElementOfSeq
  <2>6. SubSeq(unstable, from - offset + 1, hi - offset)[k]
          = unstable[(from - offset + 1) + k - 1]
    BY <2>4, <2>5, SubSeqProperties
  <2>7. unstable[(from - offset + 1) + k - 1].index
          = offset + ((from - offset + 1) + k - 1) - 1
    BY <2>4 DEF LogInv, Positions
  <2>8. /\ UnstablePart(lo, hi) = SubSeq(unstable, from - offset + 1, hi - offset)
        /\ UnstableFrom(lo) = from
    BY DEF UnstablePart, from
  <2>9. offset + ((from - offset + 1) + k - 1) - 1 = from + k - 1
    BY <2>1, <2>2, <2>4
  <2>. QED  BY <2>6, <2>7, <2>8, <2>9
<1>. QED  BY <1>1, LogInitInv, LogNextInv, PTL DEF LogSpec

(***************************************************************************)
(* "Invariant: applied <= committed" (raft_log.h:107).                     *)
(***************************************************************************)
THEOREM AppliedAlwaysBehind == LogSpec => []AppliedBehindCommitted
<1>1. LogInv => AppliedBehindCommitted
  BY DEF LogInv, AppliedBehindCommitted
<1>. QED  BY <1>1, LogInitInv, LogNextInv, PTL DEF LogSpec

(***************************************************************************)
(* A log that exists keeps its first index for ever: within the contract   *)
(* of storage.h:80-82 no Compact does anything any more.                   *)
(***************************************************************************)
THEOREM NeverCompactedAgain == LogSpec => NeverCompacted
<1>1. LogInv /\ [LogNext]_allVars =>
        [created => Offset' = Offset /\ LastIndex' >= LastIndex]_allVars
  BY LogNextInv
<1>. QED  BY <1>1, LogInitInv, LogNextInv, PTL DEF LogSpec, NeverCompacted

-----------------------------------------------------------------------------
(* The storage below the log.                                               *)

LEMMA LogStepIsStorageStep == [LogNext]_allVars => [Next]_vars
<1>1. UNCHANGED allVars => UNCHANGED vars
  BY DEF allVars
<1>2. ASSUME LogNext PROVE Next \/ UNCHANGED vars
  <2>1. ASSUME NEW batch \in Batches, LastOf(batch) <= MaxIndex,
               AppendUnstable(batch) \/ AppendStorage(batch)
        PROVE  Next \/ UNCHANGED vars
    BY <2>1 DEF AppendUnstable, AppendStorage, Next
  <2>2. ASSUME NEW i \in 0..MaxIndex, CompactStorage(i) PROVE Next
    BY <2>2 DEF CompactStorage, Next
  <2>3. ASSUME NEW hs \in HardStates, SaveHardState(hs) PROVE Next
    BY <2>3 DEF SaveHardState, Next
  <2>4. StartNode => UNCHANGED vars
    BY DEF StartNode
  <2>5. \A i, t, c, n : MaybeCommit(i, t) \/ MaybeAppend(i, t, c, n) => UNCHANGED vars
    BY DEF MaybeCommit, MaybeAppend, CommitTo
  <2>. QED  BY <1>2, <2>1, <2>2, <2>3, <2>4, <2>5 DEF LogNext
<1>3. CASE LogNext
  BY <1>2, <1>3
<1>4. CASE UNCHANGED allVars
  BY <1>1, <1>4
<1>. QED  BY <1>3, <1>4

(***************************************************************************)
(* The log does nothing to the storage but what the application calls: a   *)
(* node above it is, to the storage, only a user that keeps its contract   *)
(* (raft_log.cpp:172-203, 229-256, storage.h:80-82).                       *)
(***************************************************************************)
THEOREM LogImplementsStorage == LogSpec => Spec
<1>1. LogInit => Init
  BY DEF LogInit
<1>. QED  BY <1>1, LogStepIsStorageStep, PTL DEF LogSpec, Spec

(***************************************************************************)
(* Under a running node the storage still is a window of positions whose   *)
(* terms do not change, and its entries stay: from the implementation and  *)
(* the theorems of MemoryStorage (storage.cpp:43-67, 93-139).              *)
(***************************************************************************)
THEOREM StorageUnderLog ==
    LogSpec => ImplementsLogWindow /\ StoredEntriesKept /\ []Contiguous
BY LogImplementsStorage, Refinement, StoredEntriesAlwaysKept, AlwaysContiguous
=============================================================================
