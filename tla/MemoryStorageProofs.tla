------------------------- MODULE MemoryStorageProofs -------------------------
(***************************************************************************)
(* Proofs about MemoryStorage, for any terms, hard states and bounds.      *)
(***************************************************************************)
EXTENDS MemoryStorage, SequenceTheorems, TLAPS

\* What Append and Compact need to know of the vector.
Inv == TypeOK /\ Contiguous

LEMMA EntriesFacts ==
    ASSUME TypeOK
    PROVE  /\ Len(entries) \in Nat /\ Len(entries) >= 1
           /\ \A k \in 1..Len(entries) : entries[k] \in Entry
           /\ Offset \in 0..MaxIndex /\ Offset \in Nat
<1>1. entries \in Seq(Entry) /\ entries # <<>>
  BY DEF TypeOK
<1>2. Len(entries) \in Nat /\ Len(entries) >= 1
  BY <1>1, EmptySeq
<1>3. \A k \in 1..Len(entries) : entries[k] \in Entry
  BY <1>1, ElementOfSeq
<1>4. entries[1] \in Entry
  BY <1>2, <1>3
<1>5. Offset \in 0..MaxIndex
  BY <1>4 DEF Entry, Offset
<1>. QED  BY <1>2, <1>3, <1>5, StorageAssumption

\* A batch is a contiguous sequence of entries that is not empty.
LEMMA BatchShape ==
    ASSUME NEW batch \in Batches, LastOf(batch) <= MaxIndex
    PROVE  /\ batch \in Seq(Entry) /\ batch # <<>>
           /\ \A k \in 1..Len(batch) : batch[k].index = batch[1].index + k - 1
<1>1. PICK first \in 1..MaxIndex, n \in 1..MaxBatch : batch \in BatchesOf(first, n)
  BY DEF Batches
<1>2. PICK ts \in [1..n -> Terms] :
         batch = [k \in 1..n |-> [index |-> first + k - 1, term |-> ts[k]]]
  BY <1>1 DEF BatchesOf
<1>3. n \in Nat /\ n >= 1 /\ first \in Nat /\ MaxIndex \in Nat
  BY StorageAssumption
<1>4. batch \in Seq([index : Int, term : Terms]) /\ Len(batch) = n
  BY <1>2, <1>3
<1>5. \A k \in 1..n : batch[k].index = first + k - 1 /\ batch[k].term \in Terms
  BY <1>2
<1>6. batch[1].index = first
  BY <1>3, <1>5
<1>7. \A k \in 1..n : batch[k] \in Entry
  <2>. SUFFICES ASSUME NEW k \in 1..n PROVE batch[k] \in Entry
    OBVIOUS
  <2>1. first + k - 1 \in 0..MaxIndex
    BY <1>3, <1>4, <1>6 DEF LastOf
  <2>. QED  BY <1>2, <2>1 DEF Entry
<1>8. batch \in Seq(Entry)
  BY <1>2, <1>3, <1>7
<1>. QED  BY <1>3, <1>4, <1>5, <1>6, <1>8

\* Append leaves what is stored where it is and continues it.
LEMMA AppendShape ==
    ASSUME Inv, NEW batch \in Batches,
           LastOf(batch) <= MaxIndex, AppendBatch(batch)
    PROVE  /\ entries' \in Seq(Entry)
           /\ Len(entries') >= Len(entries)
           /\ \A k \in 1..Len(entries) : entries'[k] = entries[k]
           /\ \A k \in 1..Len(entries') : entries'[k].index = Offset + k - 1
<1>. DEFINE next == Offset + Len(entries)
            skip == next - batch[1].index
            tail == SubSeq(batch, skip + 1, Len(batch))
<1>1. /\ batch \in Seq(Entry) /\ batch # <<>>
      /\ \A k \in 1..Len(batch) : batch[k].index = batch[1].index + k - 1
  BY BatchShape
<1>2. /\ entries \in Seq(Entry) /\ Len(entries) \in Nat /\ Len(entries) >= 1
      /\ Offset \in Nat
  BY EntriesFacts DEF Inv, TypeOK
<1>3. batch[1].index \in Nat /\ Len(batch) \in Nat /\ Len(batch) >= 1
  <2>1. Len(batch) \in Nat /\ Len(batch) >= 1
    BY <1>1, EmptySeq
  <2>2. batch[1] \in Entry
    BY <1>1, <2>1, ElementOfSeq
  <2>. QED  BY <2>1, <2>2, StorageAssumption DEF Entry
<1>4. skip \in Nat /\ entries' = entries \o tail
  BY <1>2, <1>3 DEF AppendBatch, Accepts
<1>5. /\ tail \in Seq(Entry)
      /\ Len(tail) = IF skip <= Len(batch) THEN Len(batch) - skip ELSE 0
      /\ \A k \in 1..Len(tail) : tail[k] = batch[skip + k]
  <2>1. \A k \in skip + 1..Len(batch) : batch[k] \in Entry
    BY <1>1, <1>3, <1>4, ElementOfSeq
  <2>2. /\ tail \in Seq(Entry)
        /\ Len(tail) = IF skip + 1 <= Len(batch)
                         THEN Len(batch) - (skip + 1) + 1 ELSE 0
        /\ \A k \in 1..Len(batch) - (skip + 1) + 1 :
              tail[k] = batch[(skip + 1) + k - 1]
    BY <1>3, <1>4, <2>1, SubSeqProperties
  <2>. HIDE DEF tail, skip
  <2>3. \A k \in Nat : (skip + 1) + k - 1 = skip + k
    BY <1>4
  <2>. QED  BY <1>3, <1>4, <2>2, <2>3
<1>. HIDE DEF tail
<1>6. /\ entries' \in Seq(Entry)
      /\ Len(entries') = Len(entries) + Len(tail)
      /\ \A k \in 1..Len(entries) : entries'[k] = entries[k]
      /\ \A k \in 1..Len(tail) : entries'[Len(entries) + k] = tail[k]
  <2>1. /\ entries \o tail \in Seq(Entry)
        /\ Len(entries \o tail) = Len(entries) + Len(tail)
        /\ \A k \in 1..Len(entries) + Len(tail) : (entries \o tail)[k] =
              IF k <= Len(entries) THEN entries[k] ELSE tail[k - Len(entries)]
    BY <1>2, <1>5, ConcatProperties
  <2>2. Len(tail) \in Nat
    BY <1>5, LenProperties
  <2>3. entries' = entries \o tail
    BY <1>4
  <2>4. \A k \in 1..Len(entries) : entries'[k] = entries[k]
    BY <1>2, <2>1, <2>2, <2>3
  <2>5. \A k \in 1..Len(tail) :
           /\ Len(entries) + k \in 1..Len(entries) + Len(tail)
           /\ ~(Len(entries) + k <= Len(entries))
           /\ (Len(entries) + k) - Len(entries) = k
    BY <1>2, <2>2
  <2>6. \A k \in 1..Len(tail) : entries'[Len(entries) + k] = tail[k]
    BY <2>1, <2>3, <2>5
  <2>. QED  BY <2>1, <2>3, <2>4, <2>6
<1>7. ASSUME NEW k \in 1..Len(entries') PROVE entries'[k].index = Offset + k - 1
  <2>1. CASE k \in 1..Len(entries)
    BY <1>6, <2>1 DEF Inv, Contiguous
  <2>2. CASE k \notin 1..Len(entries)
    <3>1. PICK j \in 1..Len(tail) : k = Len(entries) + j
      <4>1. k - Len(entries) \in 1..Len(tail)
        BY <1>2, <1>5, <1>6, <2>2
      <4>. QED  BY <4>1, <1>2
    <3>2. entries'[k] = batch[skip + j]
      BY <1>5, <1>6, <3>1
    <3>3. skip + j \in 1..Len(batch)
      BY <1>3, <1>4, <1>5
    <3>4. entries'[k].index = batch[1].index + (skip + j) - 1
      BY <1>1, <3>2, <3>3
    <3>. QED  BY <1>2, <1>3, <3>1, <3>4
  <2>. QED  BY <2>1, <2>2
<1>. QED  BY <1>2, <1>5, <1>6, <1>7

\* Compact(i) shifts the vector so that entry i comes first.
LEMMA CompactShape ==
    ASSUME Inv, NEW i \in 0..MaxIndex, Compact(i)
    PROVE  /\ entries' \in Seq(Entry)
           /\ Len(entries') = Len(entries) - (i - Offset)
           /\ i - Offset \in 1..Len(entries) - 1
           /\ \A k \in 1..Len(entries') : entries'[k] = entries[k + (i - Offset)]
<1>. DEFINE n == i - Offset
            rest == SubSeq(entries, n + 2, Len(entries))
<1>1. /\ entries \in Seq(Entry) /\ Len(entries) \in Nat /\ Len(entries) >= 1
      /\ Offset \in Nat /\ i \in Nat
  BY EntriesFacts, StorageAssumption DEF Inv, TypeOK
<1>2. n \in 1..Len(entries) - 1
  BY <1>1 DEF Compact, LastIndex
<1>3. entries' = <<entries[n + 1]>> \o rest
  BY DEF Compact
<1>4. /\ rest \in Seq(Entry) /\ Len(rest) = Len(entries) - n - 1
      /\ \A k \in 1..Len(rest) : rest[k] = entries[n + 1 + k]
  <2>1. \A k \in n + 2..Len(entries) : entries[k] \in Entry
    BY <1>1, <1>2, EntriesFacts DEF Inv
  <2>2. /\ rest \in Seq(Entry)
        /\ Len(rest) = IF n + 2 <= Len(entries)
                         THEN Len(entries) - (n + 2) + 1 ELSE 0
        /\ \A k \in 1..Len(entries) - (n + 2) + 1 :
              rest[k] = entries[(n + 2) + k - 1]
    BY <1>1, <1>2, <2>1, SubSeqProperties
  <2>. HIDE DEF rest, n
  <2>3. \A k \in Nat : (n + 2) + k - 1 = n + 1 + k
    BY <1>2
  <2>4. Len(rest) = Len(entries) - n - 1
    BY <1>1, <1>2, <2>2
  <2>. QED  BY <1>1, <1>2, <2>2, <2>3, <2>4
<1>5. entries[n + 1] \in Entry
  BY <1>1, <1>2, EntriesFacts DEF Inv
<1>. HIDE DEF n, rest
<1>6. /\ entries' \in Seq(Entry) /\ Len(entries') = 1 + Len(rest)
      /\ entries'[1] = entries[n + 1]
      /\ \A k \in 2..Len(entries') : entries'[k] = rest[k - 1]
  <2>. DEFINE first == <<entries[n + 1]>>
  <2>1. first \in Seq(Entry) /\ Len(first) = 1 /\ first[1] = entries[n + 1]
    BY <1>5
  <2>. HIDE DEF first
  <2>2. /\ first \o rest \in Seq(Entry)
        /\ Len(first \o rest) = 1 + Len(rest)
        /\ \A k \in 1..1 + Len(rest) : (first \o rest)[k] =
              IF k <= 1 THEN first[k] ELSE rest[k - 1]
    <3>1. /\ first \o rest \in Seq(Entry)
          /\ Len(first \o rest) = Len(first) + Len(rest)
          /\ \A k \in 1..Len(first) + Len(rest) : (first \o rest)[k] =
                IF k <= Len(first) THEN first[k] ELSE rest[k - Len(first)]
      <4>1. first \in Seq(Entry) /\ rest \in Seq(Entry)
        BY <1>4, <2>1
      <4>. QED  BY ONLY <4>1, ConcatProperties, Zenon
    <3>. QED  BY <2>1, <3>1
  <2>3. entries' = first \o rest
    BY <1>3 DEF first
  <2>4. Len(rest) \in Nat
    BY <1>4, LenProperties
  <2>. QED  BY <2>1, <2>2, <2>3, <2>4
<1>7. ASSUME NEW k \in 1..Len(entries') PROVE entries'[k] = entries[k + n]
  <2>1. CASE k = 1
    <3>1. n + 1 = k + n
      BY <1>2, <2>1
    <3>. QED  BY <1>6, <2>1, <3>1
  <2>2. CASE k # 1
    <3>1. k - 1 \in 1..Len(rest) /\ n + 1 + (k - 1) = k + n /\ k \in 2..Len(entries')
      BY <1>1, <1>2, <1>4, <1>6, <2>2
    <3>. QED  BY <1>4, <1>6, <3>1
  <2>. QED  BY <2>1, <2>2
<1>8. Len(entries') = Len(entries) - n
  BY <1>1, <1>2, <1>4, <1>6
<1>. QED  BY <1>2, <1>6, <1>7, <1>8 DEF n

LEMMA InitInv == Init => Inv
<1>. SUFFICES ASSUME Init PROVE Inv
  OBVIOUS
<1>1. [index |-> 0, term |-> 0] \in Entry
  BY StorageAssumption DEF Entry
<1>2. entries \in Seq(Entry) /\ Len(entries) = 1 /\ entries[1].index = 0
  BY <1>1 DEF Init
<1>3. TypeOK
  BY <1>2 DEF Init, TypeOK
<1>4. Contiguous
  BY <1>2 DEF Contiguous, Offset
<1>. QED  BY <1>3, <1>4 DEF Inv

LEMMA NextInv == Inv /\ [Next]_vars => Inv'
<1>. SUFFICES ASSUME Inv, [Next]_vars PROVE Inv'
  OBVIOUS
<1>0. /\ entries \in Seq(Entry) /\ Len(entries) \in Nat /\ Len(entries) >= 1
      /\ Offset \in Nat
  BY EntriesFacts DEF Inv, TypeOK
<1>1. ASSUME NEW batch \in Batches,
             LastOf(batch) <= MaxIndex, AppendBatch(batch)
      PROVE  Inv'
  <2>1. /\ entries' \in Seq(Entry) /\ Len(entries') >= Len(entries)
        /\ entries'[1] = entries[1]
        /\ \A k \in 1..Len(entries') : entries'[k].index = Offset + k - 1
    BY <1>0, <1>1, AppendShape
  <2>2. Offset' = Offset /\ entries' # <<>>
    BY <1>0, <2>1 DEF Offset
  <2>3. hardState' = hardState
    BY <1>1 DEF AppendBatch
  <2>. QED  BY <2>1, <2>2, <2>3 DEF Inv, TypeOK, Contiguous
<1>2. ASSUME NEW i \in 0..MaxIndex, Compact(i) PROVE Inv'
  <2>1. /\ entries' \in Seq(Entry)
        /\ Len(entries') = Len(entries) - (i - Offset)
        /\ i - Offset \in 1..Len(entries) - 1
        /\ \A k \in 1..Len(entries') : entries'[k] = entries[k + (i - Offset)]
    BY <1>2, CompactShape
  <2>2. i \in Nat /\ Len(entries) \in Nat
    BY <1>0, StorageAssumption
  <2>3. ASSUME NEW k \in 1..Len(entries') PROVE entries'[k].index = i + k - 1
    <3>1. k + (i - Offset) \in 1..Len(entries)
      BY <1>0, <2>1, <2>2
    <3>2. entries[k + (i - Offset)].index = Offset + (k + (i - Offset)) - 1
      BY <3>1 DEF Inv, Contiguous
    <3>. QED  BY <1>0, <2>1, <2>2, <3>2
  <2>4. Len(entries') >= 1 /\ entries' # <<>>
    BY <1>0, <2>1, <2>2
  <2>5. Offset' = i
    BY <2>2, <2>3, <2>4 DEF Offset
  <2>6. hardState' = hardState
    BY <1>2 DEF Compact
  <2>. QED  BY <2>1, <2>3, <2>4, <2>5, <2>6 DEF Inv, TypeOK, Contiguous
<1>3. ASSUME NEW hs \in HardStates, SetHardState(hs) PROVE Inv'
  BY <1>3 DEF SetHardState, Inv, TypeOK, Contiguous, Offset
<1>4. CASE UNCHANGED vars
  BY <1>4 DEF vars, Inv, TypeOK, Contiguous, Offset
<1>. QED  BY <1>1, <1>2, <1>3, <1>4 DEF Next

(***************************************************************************)
(* The vector is a sequence of entries that is never empty, so that the    *)
(* reads of entries_[0] are defined (storage.cpp:29, 46, 60, 65).          *)
(***************************************************************************)
THEOREM TypeInvariant == Spec => []TypeOK
<1>1. Inv => TypeOK
  BY DEF Inv
<1>. QED  BY <1>1, InitInv, NextInv, PTL DEF Spec

(***************************************************************************)
(* Position and index stay in step, whatever batches overlap and whatever  *)
(* is compacted (storage.cpp:93-139).                                      *)
(***************************************************************************)
THEOREM AlwaysContiguous == Spec => []Contiguous
<1>1. Inv => Contiguous
  BY DEF Inv
<1>. QED  BY <1>1, InitInv, NextInv, PTL DEF Spec
(***************************************************************************)
(* No later Append and no Compact changes, moves out of reach or loses an  *)
(* entry from the first position on (storage.cpp:93-139).                  *)
(***************************************************************************)
THEOREM StoredEntriesAlwaysKept == Spec => StoredEntriesKept
<1>. DEFINE Kept == \A k \in 1..Len(entries) :
                      entries[k].index >= Offset' =>
                        \E j \in 1..Len(entries') : entries'[j] = entries[k]
<1>1. Inv /\ [Next]_vars => [Kept]_vars
  <2>. SUFFICES ASSUME Inv, Next PROVE Kept
    OBVIOUS
  <2>0. Len(entries) \in Nat /\ Len(entries) >= 1 /\ Offset \in Nat
    BY EntriesFacts DEF Inv
  <2>1. ASSUME NEW batch \in Batches,
               LastOf(batch) <= MaxIndex, AppendBatch(batch)
        PROVE  Kept
    <3>1. /\ Len(entries') >= Len(entries) /\ entries' \in Seq(Entry)
          /\ \A k \in 1..Len(entries) : entries'[k] = entries[k]
      BY <2>1, AppendShape
    <3>2. Len(entries') \in Nat
      BY <3>1, LenProperties
    <3>3. 1..Len(entries) \subseteq 1..Len(entries')
      BY <2>0, <3>1, <3>2
    <3>. QED  BY <3>1, <3>3
  <2>2. ASSUME NEW i \in 0..MaxIndex, Compact(i) PROVE Kept
    <3>. DEFINE n == i - Offset
    <3>1. /\ Len(entries') = Len(entries) - n
          /\ n \in 1..Len(entries) - 1
          /\ \A k \in 1..Len(entries') : entries'[k] = entries[k + n]
      BY <2>2, CompactShape
    <3>2. i \in Nat /\ i = Offset + n
      BY <2>0, StorageAssumption
    <3>3. Offset' = i
      <4>1. entries'[1] = entries[1 + n] /\ 1 + n \in 1..Len(entries)
        BY <2>0, <3>1
      <4>2. entries[1 + n].index = Offset + (1 + n) - 1
        BY <4>1 DEF Inv, Contiguous
      <4>. QED  BY <2>0, <3>1, <3>2, <4>1, <4>2 DEF Offset
    <3>4. ASSUME NEW k \in 1..Len(entries), entries[k].index >= Offset'
          PROVE  \E j \in 1..Len(entries') : entries'[j] = entries[k]
      <4>1. Offset + k - 1 >= Offset + n
        BY <3>2, <3>3, <3>4 DEF Inv, Contiguous
      <4>2. k - n \in 1..Len(entries') /\ (k - n) + n = k
        BY <2>0, <3>1, <4>1
      <4>3. entries'[k - n] = entries[k]
        BY <3>1, <4>2
      <4>. QED  BY <4>2, <4>3
    <3>. QED  BY <3>4
  <2>3. ASSUME NEW hs \in HardStates, SetHardState(hs) PROVE Kept
    BY <2>3 DEF SetHardState
  <2>. QED  BY <2>1, <2>2, <2>3 DEF Next
<1>. QED  BY <1>1, InitInv, NextInv, PTL DEF Spec, StoredEntriesKept

\* The window of Term between the dummy and the last entry.
WindowOK ==
    /\ Len(entries) \in Nat /\ Len(entries) >= 1
    /\ Offset \in 0..MaxIndex /\ LastIndex \in 0..MaxIndex
    /\ LastIndex = Offset + Len(entries) - 1
    /\ TermsByIndex \in [Offset..LastIndex -> Terms]
    /\ \A i \in Offset..LastIndex :
          TermsByIndex[i] = entries[i - Offset + 1].term

LEMMA WindowFacts == Inv => WindowOK
<1>. SUFFICES ASSUME Inv PROVE WindowOK
  OBVIOUS
<1>1. /\ Len(entries) \in Nat /\ Len(entries) >= 1
      /\ Offset \in Nat /\ Offset \in 0..MaxIndex
      /\ \A k \in 1..Len(entries) : entries[k] \in Entry
  BY EntriesFacts DEF Inv
<1>2. LastIndex \in Nat /\ Offset <= LastIndex
  BY <1>1 DEF LastIndex
<1>3. LastIndex \in 0..MaxIndex
  <2>1. entries[Len(entries)].index = LastIndex /\ entries[Len(entries)] \in Entry
    BY <1>1 DEF Inv, Contiguous, LastIndex
  <2>. QED  BY <2>1 DEF Entry
<1>4. ASSUME NEW i \in Offset..LastIndex
      PROVE  i - Offset + 1 \in 1..Len(entries) /\ Term(i) \in Terms
  <2>1. i - Offset + 1 \in 1..Len(entries)
    BY <1>1, <1>2 DEF LastIndex
  <2>. QED  BY <1>1, <2>1 DEF Term, Entry
<1>. QED  BY <1>1, <1>2, <1>3, <1>4 DEF WindowOK, TermsByIndex, Term, LastIndex

LEMMA StepRefines ==
    ASSUME Inv, Inv', [Next]_vars
    PROVE  [Window!Next]_TermsByIndex
<1>1. WindowOK /\ WindowOK'
  BY WindowFacts, PTL
<1>2. Offset \in Nat /\ LastIndex \in Nat /\ Offset <= LastIndex
  BY <1>1, StorageAssumption DEF WindowOK
<1>3. ASSUME NEW batch \in Batches,
             LastOf(batch) <= MaxIndex, AppendBatch(batch)
      PROVE  Window!Extend
  <2>1. /\ Len(entries') >= Len(entries)
        /\ \A k \in 1..Len(entries) : entries'[k] = entries[k]
    BY <1>3, AppendShape
  <2>2. Offset' = Offset
    BY <1>1, <2>1 DEF Offset, WindowOK
  <2>3. LastIndex <= LastIndex'
    BY <1>1, <1>2, <2>1, <2>2, StorageAssumption DEF WindowOK
  <2>4. ASSUME NEW i \in Offset..LastIndex
        PROVE  TermsByIndex'[i] = TermsByIndex[i]
    <3>1. i - Offset + 1 \in 1..Len(entries)
      BY <1>1, <1>2 DEF WindowOK
    <3>2. i \in Offset'..LastIndex'
      BY <1>1, <1>2, <2>2, <2>3, StorageAssumption DEF WindowOK
    <3>. QED  BY <1>1, <2>1, <2>2, <3>1, <3>2 DEF WindowOK
  <2>5. TermsByIndex' \in [Offset..LastIndex' -> Terms] /\ LastIndex' \in 0..MaxIndex
    BY <1>1, <2>2 DEF WindowOK
  <2>6. DOMAIN TermsByIndex = Offset..LastIndex
    BY <1>1 DEF WindowOK
  <2>. QED  BY <1>1, <1>2, <2>3, <2>4, <2>5, <2>6
            DEF Window!Extend, Window!DomainFrom, WindowOK
<1>4. ASSUME NEW i \in 0..MaxIndex, Compact(i) PROVE Window!Discard
  <2>. DEFINE n == i - Offset
  <2>1. /\ Len(entries') = Len(entries) - n
        /\ n \in 1..Len(entries) - 1
        /\ \A k \in 1..Len(entries') : entries'[k] = entries[k + n]
    BY <1>4, CompactShape
  <2>2. i \in Nat /\ i = Offset + n /\ i <= LastIndex /\ Offset <= i
    BY <1>1, <1>2, <2>1, StorageAssumption DEF WindowOK
  <2>3. Offset' = i
    <3>1. entries'[1] = entries[1 + n] /\ 1 + n \in 1..Len(entries)
      BY <1>1, <2>1 DEF WindowOK
    <3>2. entries[1 + n].index = Offset + (1 + n) - 1
      BY <3>1 DEF Inv, Contiguous
    <3>. QED  BY <1>2, <2>1, <2>2, <3>1, <3>2 DEF Offset
  <2>4. LastIndex' = LastIndex
    BY <1>1, <1>2, <2>1, <2>2, <2>3 DEF WindowOK
  <2>5. ASSUME NEW j \in i..LastIndex PROVE TermsByIndex'[j] = TermsByIndex[j]
    <3>1. /\ j - i + 1 \in 1..Len(entries')
          /\ (j - i + 1) + n = j - Offset + 1
          /\ j \in Offset..LastIndex
      BY <1>1, <1>2, <2>1, <2>2 DEF WindowOK
    <3>2. TermsByIndex[j] = entries[j - Offset + 1].term
      BY <1>1, <3>1 DEF WindowOK
    <3>3. TermsByIndex'[j] = entries'[j - i + 1].term
      BY <1>1, <2>3, <2>4 DEF WindowOK
    <3>4. entries'[j - i + 1] = entries[j - Offset + 1]
      BY <2>1, <3>1
    <3>. QED  BY <3>2, <3>3, <3>4
  <2>6. TermsByIndex' = [j \in i..LastIndex |-> TermsByIndex[j]]
    BY <1>1, <2>3, <2>4, <2>5 DEF WindowOK
  <2>7. DOMAIN TermsByIndex = Offset..LastIndex
    BY <1>1 DEF WindowOK
  <2>. QED  BY <1>1, <2>2, <2>6, <2>7 DEF Window!Discard, WindowOK
<1>5. ASSUME NEW hs \in HardStates, SetHardState(hs) PROVE TermsByIndex' = TermsByIndex
  BY <1>5 DEF SetHardState, TermsByIndex, Term, Offset, LastIndex
<1>6. CASE UNCHANGED vars
  BY <1>6 DEF vars, TermsByIndex, Term, Offset, LastIndex
<1>. QED  BY <1>3, <1>4, <1>5, <1>6 DEF Next, Window!Next

(***************************************************************************)
(* Through Term, FirstIndex and LastIndex a MemoryStorage is the window of *)
(* positions that LogWindow promises (storage.cpp:43-67, 93-139).          *)
(***************************************************************************)
THEOREM Refinement == Spec => ImplementsLogWindow
<1>1. Init => Window!Init
  <2>. SUFFICES ASSUME Init PROVE Window!Init
    OBVIOUS
  <2>1. Offset = 0 /\ LastIndex = 0 /\ entries[1].term = 0
    BY DEF Init, Offset, LastIndex
  <2>2. \A i \in 0..0 : i = 0
    OBVIOUS
  <2>3. TermsByIndex = [i \in {0} |-> 0]
    BY <2>1, <2>2 DEF TermsByIndex, Term
  <2>. QED  BY <2>3, StorageAssumption DEF Window!Init
<1>2. Inv /\ Inv' /\ [Next]_vars => [Window!Next]_TermsByIndex
  BY StepRefines
<1>. QED  BY <1>1, <1>2, InitInv, NextInv, PTL
          DEF Spec, ImplementsLogWindow, Window!Spec

-----------------------------------------------------------------------------
(***************************************************************************)
(* "Entries returns a slice of log entries in the range [lo,hi)"           *)
(* (storage.h:39): of the ranges that pass its checks and stay inside the  *)
(* vector, it does so for exactly those that begin at twice the first      *)
(* position (storage.cpp:26-42), whatever was appended and compacted.      *)
(***************************************************************************)
THEOREM EntriesRightAtTwiceOffset ==
    ASSUME Inv, NEW lo \in Nat, NEW hi \in Nat,
           lo > Offset, lo < hi, hi <= Offset + Len(entries),
           Offset + hi - lo <= Len(entries)
    PROVE  (\A k \in 1..hi - lo : Entries(lo, hi)[k].index = lo + k - 1)
              <=> lo = 2 * Offset
<1>1. /\ entries \in Seq(Entry) /\ Len(entries) \in Nat /\ Offset \in Nat
      /\ \A k \in 1..Len(entries) : entries[k] \in Entry
  BY EntriesFacts DEF Inv, TypeOK
<1>2. ASSUME NEW k \in 1..hi - lo
      PROVE  Entries(lo, hi)[k].index = 2 * Offset + k - 1
  <2>1. Offset + k \in 1..Len(entries)
    BY <1>1
  <2>2. entries[Offset + k].index = Offset + (Offset + k) - 1
    BY <2>1 DEF Inv, Contiguous
  <2>3. Entries(lo, hi)[k] = entries[Offset + k]
    <3>. DEFINE b == Offset + 1
                e == Offset + hi - lo
    <3>1. /\ b \in Int /\ e \in Int /\ k \in 1..e - b + 1
          /\ b + k - 1 = Offset + k /\ b <= e
      BY <1>1
    <3>2. \A j \in b..e : entries[j] \in Entry
      BY <1>1
    <3>. HIDE DEF b, e
    <3>3. SubSeq(entries, b, e)[k] = entries[b + k - 1]
      BY <1>1, <3>1, <3>2, SubSeqProperties
    <3>. QED  BY <3>1, <3>3 DEF Entries, b, e
  <2>. QED  BY <1>1, <2>2, <2>3
<1>3. lo = 2 * Offset => \A k \in 1..hi - lo : Entries(lo, hi)[k].index = lo + k - 1
  BY <1>2
<1>4. ASSUME \A k \in 1..hi - lo : Entries(lo, hi)[k].index = lo + k - 1
      PROVE  lo = 2 * Offset
  <2>1. 1 \in 1..hi - lo
    OBVIOUS
  <2>2. lo + 1 - 1 = 2 * Offset + 1 - 1
    BY <1>2, <1>4, <2>1
  <2>. QED  BY <1>1, <2>2
<1>. QED  BY <1>3, <1>4
=============================================================================
