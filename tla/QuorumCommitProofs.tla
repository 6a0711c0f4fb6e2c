------------------------- MODULE QuorumCommitProofs -------------------------
(***************************************************************************)
(* Proofs about QuorumCommit, for any servers, voters and positions.       *)
(***************************************************************************)
EXTENDS QuorumCommit, TLAPS

\* More acknowledgements, or a lower position, keep a quorum a quorum.
LEMMA QuorumAckedMonotone ==
    ASSUME NEW a \in [Voters -> Word], NEW b \in [Voters -> Word],
           \A v \in Voters : a[v] <= b[v],
           NEW i \in Word, NEW j \in Word, j <= i,
           QuorumAcked(a, i)
    PROVE  QuorumAcked(b, j)
<1>1. Ackers(a, i) \subseteq Ackers(b, j)
  BY QuorumCommitAssumption DEF Ackers, Word
<1>2. Ackers(b, j) \in SUBSET Voters
  BY DEF Ackers
<1>. QED  BY <1>1, <1>2, QuorumCommitAssumption DEF QuorumAcked

\* Type correctness.
THEOREM TypeInvariant == Spec => []TypeOK
<1>1. Init => TypeOK
  BY QuorumCommitAssumption DEF Init, TypeOK, Word
<1>2. TypeOK /\ [Next]_vars => TypeOK'
  <2> SUFFICES ASSUME TypeOK, [Next]_vars PROVE TypeOK'
    OBVIOUS
  <2>1. ASSUME NEW s \in Server, Decide(s) PROVE TypeOK'
    BY <2>1 DEF TypeOK, Decide
  <2>2. ASSUME NEW s \in Server, Learn(s) PROVE TypeOK'
    BY <2>2 DEF TypeOK, Learn
  <2>3. CASE UNCHANGED vars
    BY <2>3 DEF TypeOK, vars
  <2>. QED  BY <2>1, <2>2, <2>3 DEF Next
<1>. QED  BY <1>1, <1>2, PTL DEF Spec

\* No step takes an acknowledgement or a commit index back, and a raised commit
\* index is acknowledged by a quorum or was committed elsewhere.
AcksKept ==
    \A t \in Server : \A v \in Voters : acked[t][v] <= acked'[t][v]
CommitsJustified ==
    \A t \in Server :
        \/ committed'[t] = committed[t]
        \/ QuorumAcked(acked'[t], committed'[t])
        \/ \E u \in Server : committed'[t] <= committed[u]

LEMMA StepShape ==
    ASSUME TypeOK, [Next]_vars
    PROVE  AcksKept /\ CommitsJustified
<1>1. ASSUME NEW s \in Server, Decide(s) PROVE AcksKept /\ CommitsJustified
  <2>1. PICK a \in [Voters -> Word] :
            /\ \A v \in Voters : a[v] >= acked[s][v]
            /\ acked' = [acked EXCEPT ![s] = a]
    BY <1>1 DEF Decide
  <2>2. PICK i \in Word :
            /\ i > committed[s] => QuorumAcked(acked'[s], i)
            /\ i >= committed[s]
            /\ committed' = [committed EXCEPT ![s] = i]
    BY <1>1 DEF Decide
  <2>3. \A t \in Server : \A v \in Voters : acked[t][v] <= acked'[t][v]
    BY <2>1, QuorumCommitAssumption DEF TypeOK, Word
  <2>4. ASSUME NEW t \in Server
        PROVE  \/ committed'[t] = committed[t]
               \/ QuorumAcked(acked'[t], committed'[t])
    <3>1. committed[s] \in Nat /\ i \in Nat /\ committed'[s] = i
      BY <2>2, QuorumCommitAssumption DEF TypeOK, Word
    <3>2. CASE t = s /\ i > committed[s]
      BY <2>2, <3>1, <3>2
    <3>3. CASE t = s /\ ~(i > committed[s])
      BY <2>2, <3>1, <3>3
    <3>4. CASE t # s
      BY <2>2, <3>4 DEF TypeOK
    <3>. QED  BY <3>2, <3>3, <3>4
  <2>. QED  BY <2>3, <2>4 DEF AcksKept, CommitsJustified
<1>2. ASSUME NEW s \in Server, Learn(s) PROVE AcksKept /\ CommitsJustified
  BY <1>2, QuorumCommitAssumption DEF Learn, TypeOK, Word, AcksKept, CommitsJustified
<1>3. CASE UNCHANGED vars
  BY <1>3, QuorumCommitAssumption DEF vars, TypeOK, Word, AcksKept,
     CommitsJustified
<1>. QED  BY <1>1, <1>2, <1>3 DEF Next

(***************************************************************************)
(* Whatever a server has committed beyond the snapshot was acknowledged by *)
(* a quorum of the voters to one server.                                   *)
(***************************************************************************)
THEOREM Safety == Spec => []QuorumBacked
<1>1. Init => QuorumBacked
  BY QuorumCommitAssumption DEF Init, QuorumBacked, Word
<1>2. TypeOK /\ TypeOK' /\ QuorumBacked /\ [Next]_vars => QuorumBacked'
  <2> SUFFICES ASSUME TypeOK, TypeOK', QuorumBacked, [Next]_vars,
                      NEW s \in Server, committed'[s] > Snapshot
               PROVE  \E t \in Server : QuorumAcked(acked'[t], committed'[s])
    BY DEF QuorumBacked
  <2>0. /\ \A u \in Server : committed[u] \in Word
        /\ \A u \in Server : committed'[u] \in Word
        /\ \A u \in Server : acked[u] \in [Voters -> Word]
        /\ \A u \in Server : acked'[u] \in [Voters -> Word]
        /\ Snapshot \in Word
    BY QuorumCommitAssumption DEF TypeOK, Word
  <2>1. ASSUME NEW u \in Server, committed'[s] <= committed[u]
        PROVE  \E t \in Server : QuorumAcked(acked'[t], committed'[s])
    <3>1. committed[u] > Snapshot
      BY <2>0, <2>1, QuorumCommitAssumption DEF Word
    <3>2. PICK t \in Server : QuorumAcked(acked[t], committed[u])
      BY <3>1 DEF QuorumBacked
    <3>3. \A v \in Voters : acked[t][v] <= acked'[t][v]
      BY StepShape DEF AcksKept
    <3>. QED  BY <2>0, <2>1, <3>2, <3>3, QuorumAckedMonotone
  <2>2. CASE committed'[s] = committed[s]
    <3>1. committed'[s] <= committed[s]
      BY <2>0, <2>2, QuorumCommitAssumption DEF Word
    <3>. QED  BY <2>1, <3>1
  <2>3. CASE QuorumAcked(acked'[s], committed'[s])
    BY <2>3
  <2>. QED  BY <2>1, <2>2, <2>3, StepShape DEF CommitsJustified
<1>. QED  BY <1>1, <1>2, TypeInvariant, PTL DEF Spec
=============================================================================
