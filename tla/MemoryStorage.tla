---------------------------- MODULE MemoryStorage ----------------------------
(***************************************************************************)
(* MemoryStorage of src/anraft/storage.cpp, one action per public method   *)
(* that changes it, each under mutex_ from beginning to end.  Callers keep *)
(* the contract of storage.h: a batch is contiguous, and no index beyond   *)
(* what was applied, hence stored, is compacted.                           *)
(***************************************************************************)
EXTENDS Integers, Sequences

CONSTANTS
    Terms,          \* the terms entries may carry, 0 for the dummy among them
    HardStates,     \* the values of a HardState
    MaxBatch,       \* bound: entries per Append
    MaxIndex        \* bound: the last position

ASSUME StorageAssumption ==
    /\ 0 \in Terms
    /\ HardStates # {}
    /\ MaxBatch \in Nat /\ MaxIndex \in Nat

VARIABLES
    hardState,      \* hard_state_
    entries         \* entries_: first the dummy, then the stored entries

vars == <<hardState, entries>>

Entry == [index : 0..MaxIndex, term : Terms]

Init ==
    /\ hardState \in HardStates
    /\ entries = <<[index |-> 0, term |-> 0]>>

Offset     == entries[1].index
FirstIndex == Offset + 1
LastIndex  == Offset + Len(entries) - 1

\* Term(i) of a position it has.
Term(i) == entries[i - Offset + 1].term

\* Entries(lo, hi), where lo and hi pass its checks.  The slice begins at
\* position offset of the vector, whatever lo is.
Entries(lo, hi) == SubSeq(entries, Offset + 1, Offset + hi - lo)

\* The batches of n entries that begin at index first.
BatchesOf(first, n) ==
    {[k \in 1..n |-> [index |-> first + k - 1, term |-> ts[k]]] :
        ts \in [1..n -> Terms]}

Batches ==
    UNION {BatchesOf(first, n) : first \in 1..MaxIndex, n \in 1..MaxBatch}

LastOf(batch) == batch[1].index + Len(batch) - 1

\* Append drops a batch that ends at or before the first position, or leaves a
\* gap; it returns ErrNone for it all the same.
Accepts(batch) ==
    LastOf(batch) > Offset + 1 /\ batch[1].index <= Offset + Len(entries)

\* Mutant: a batch that leaves a gap is appended.
AppendWithGap(batch) ==
    LET next == Offset + Len(entries)
        skip == IF next > batch[1].index THEN next - batch[1].index ELSE 0
    IN  /\ LastOf(batch) > Offset + 1
        /\ entries' = entries \o SubSeq(batch, skip + 1, Len(batch))
        /\ UNCHANGED hardState

\* Append.  What the batch has of the positions already stored is skipped,
\* whatever its terms; if that is more than the batch, std::move of a negative
\* range moves nothing in the library it is built with.
AppendBatch(batch) ==
    LET next == Offset + Len(entries)
    IN  /\ Accepts(batch)
        /\ entries' = entries \o SubSeq(batch, next - batch[1].index + 1, Len(batch))
        /\ UNCHANGED hardState

\* Mutant: the dummy entry keeps its index and its term.
CompactKeepingDummy(i) ==
    /\ i > Offset /\ i <= LastIndex
    /\ entries' = <<entries[1]>> \o SubSeq(entries, i - Offset + 2, Len(entries))
    /\ UNCHANGED hardState

\* Mutant: the dummy entry is erased with the others.
CompactWithDummy(i) ==
    /\ i > Offset /\ i <= LastIndex
    /\ entries' = SubSeq(entries, i - Offset + 2, Len(entries))
    /\ UNCHANGED hardState

\* Mutant: the entry after the compacted one is erased too.
CompactOneTooMany(i) ==
    /\ i > Offset /\ i <= LastIndex
    /\ entries' = <<entries[i - Offset + 1]>>
                    \o SubSeq(entries, i - Offset + 3, Len(entries))
    /\ UNCHANGED hardState

\* Compact: the dummy entry takes the index and the term of entry i, and the
\* entries up to i are erased.  An index at or before the dummy is refused.
Compact(i) ==
    /\ i > Offset /\ i <= LastIndex
    /\ entries' = <<entries[i - Offset + 1]>>
                    \o SubSeq(entries, i - Offset + 2, Len(entries))
    /\ UNCHANGED hardState

SetHardState(hs) == hardState' = hs /\ UNCHANGED entries

Next ==
    \/ \E batch \in Batches :
          LastOf(batch) <= MaxIndex /\ AppendBatch(batch)
    \/ \E i \in 0..MaxIndex : Compact(i)
    \/ \E hs \in HardStates : SetHardState(hs)

Spec == Init /\ [][Next]_vars

-----------------------------------------------------------------------------
TypeOK ==
    /\ hardState \in HardStates
    /\ entries \in Seq(Entry)
    /\ entries # <<>>

(***************************************************************************)
(* Position k of the vector is index Offset + k - 1 of the log, whatever   *)
(* overlapping batches arrive and whatever is compacted in between: Term   *)
(* and Entries address by position, the entries carry their index          *)
(* (storage.cpp:46, 55, 115-117, 135-138).                                 *)
(***************************************************************************)
Contiguous ==
    \A k \in 1..Len(entries) : entries[k].index = Offset + k - 1

(***************************************************************************)
(* What is stored stays as it is until it is compacted: no later batch     *)
(* rewrites or shifts it, and Compact keeps every entry from the compacted *)
(* one on (storage.cpp:93-139).                                            *)
(***************************************************************************)
StoredEntriesKept ==
    [][\A k \in 1..Len(entries) :
          entries[k].index >= Offset' =>
              \E j \in 1..Len(entries') : entries'[j] = entries[k]]_vars

(***************************************************************************)
(* Seen through Term, FirstIndex and LastIndex the storage is a window of  *)
(* positions that grows at its end and is discarded from its beginning     *)
(* (storage.cpp:43-67, 93-139).                                            *)
(***************************************************************************)
TermsByIndex == [i \in Offset..LastIndex |-> Term(i)]

Window == INSTANCE LogWindow WITH log <- TermsByIndex

ImplementsLogWindow == Window!Spec
=============================================================================
