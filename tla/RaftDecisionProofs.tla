------------------------- MODULE RaftDecisionProofs -------------------------
(***************************************************************************)
(* What MaybeCommit decides, for any number of voters and any progress     *)
(* map: there is exactly one index to decide, it is the highest a quorum   *)
(* has reached, and every decision goes back to acknowledgements that were *)
(* sent.                                                                   *)
(***************************************************************************)
EXTENDS RaftProofs, WellFoundedInduction

-----------------------------------------------------------------------------
(* The element at position Quorum - 1 of the sorted match indexes.          *)

\* Some voter of a set has the lowest match index.
LEMMA LowestMatch ==
    ASSUME NEW p \in [Voters -> ProgressMap], NEW S \in SUBSET Voters, S # {}
    PROVE  \E v \in S : \A w \in S : p[v].match <= p[w].match
<1>. DEFINE T == {p[v].match : v \in S}
<1>1. \A v \in S : p[v].match \in Nat
  BY WordFacts DEF ProgressMap
<1>2. T \subseteq Nat /\ T # {}
  BY <1>1
<1>3. PICK i \in T : \A j \in T : ~(<<j, i>> \in OpToRel(<, Nat))
  <2>. HIDE DEF T
  <2>. QED  BY <1>2, NatLessThanWellFounded, WFMin
<1>4. \A j \in T : ~(j < i)
  BY <1>2, <1>3 DEF OpToRel
<1>5. PICK v \in S : i = p[v].match
  OBVIOUS
<1>6. \A w \in S : ~(p[w].match < p[v].match)
  BY <1>4, <1>5
<1>. QED  BY <1>1, <1>6

\* Some voter of a set has the highest.
LEMMA HighestMatch ==
    ASSUME NEW p \in [Voters -> ProgressMap], NEW S \in SUBSET Voters, S # {}
    PROVE  \E v \in S : \A w \in S : p[w].match <= p[v].match
<1>. DEFINE T == {MaxWord - p[v].match : v \in S}
<1>1. \A v \in S : p[v].match \in Nat /\ p[v].match <= MaxWord
  BY WordAssumption DEF ProgressMap, Word
<1>2. T \subseteq Nat /\ T # {}
  BY <1>1, WordAssumption
<1>3. PICK i \in T : \A j \in T : ~(<<j, i>> \in OpToRel(<, Nat))
  <2>. HIDE DEF T
  <2>. QED  BY <1>2, NatLessThanWellFounded, WFMin
<1>4. \A j \in T : ~(j < i)
  BY <1>2, <1>3 DEF OpToRel
<1>5. PICK v \in S : i = MaxWord - p[v].match
  OBVIOUS
<1>6. \A w \in S : ~(MaxWord - p[w].match < MaxWord - p[v].match)
  BY <1>4, <1>5
<1>. QED  BY <1>1, <1>6, WordAssumption

\* The voters that reached a position are finitely many.
LEMMA MatchedByFacts ==
    ASSUME NEW p, NEW i
    PROVE  /\ MatchedBy(p, i) \in SUBSET Voters
           /\ IsFiniteSet(MatchedBy(p, i))
           /\ Cardinality(MatchedBy(p, i)) \in Nat
           /\ Cardinality(Voters) \in Nat \ {0} /\ Quorum \in Nat \ {0}
           /\ Quorum <= Cardinality(Voters)
<1>1. MatchedBy(p, i) \in SUBSET Voters
  BY DEF MatchedBy
<1>2. IsFiniteSet(MatchedBy(p, i))
  BY <1>1, ServerAssumption, FS_Subset
<1>3. Cardinality(MatchedBy(p, i)) \in Nat
  BY <1>2, FS_CardinalityType
<1>4. Cardinality(Voters) \in Nat /\ Cardinality(Voters) # 0
  BY ServerAssumption, FS_CardinalityType, FS_EmptySet
<1>5. \A n \in Nat \ {0} : n \div 2 + 1 \in Nat \ {0} /\ n \div 2 + 1 <= n
  OBVIOUS
<1>. QED  BY <1>1, <1>2, <1>3, <1>4, <1>5 DEF Quorum

(***************************************************************************)
(* Whatever was acknowledged, there is exactly one index to decide, so     *)
(* that MaybeCommit always comes to a result and to one only               *)
(* (raft.cpp:542-552).                                                     *)
(***************************************************************************)
THEOREM QuorumIndexDefined ==
    ASSUME NEW p \in [Voters -> ProgressMap]
    PROVE  \E i \in Word : /\ IsQuorumIndex(p, i)
                           /\ \A j \in Word : IsQuorumIndex(p, j) => j = i
<1>. DEFINE S == {v \in Voters : Cardinality(MatchedBy(p, p[v].match)) >= Quorum}
<1>1. \A v \in Voters : p[v].match \in Word /\ p[v].match \in Nat
  BY WordFacts DEF ProgressMap
<1>2. S # {}
  <2>1. PICK v \in Voters : \A w \in Voters : p[v].match <= p[w].match
    BY LowestMatch, ServerAssumption
  <2>2. MatchedBy(p, p[v].match) = Voters
    BY <1>1, <2>1 DEF MatchedBy
  <2>. QED  BY <2>2, MatchedByFacts
<1>3. PICK v \in S : \A w \in S : p[w].match <= p[v].match
  BY <1>2, HighestMatch
<1>4. IsQuorumIndex(p, p[v].match)
  BY <1>3 DEF IsQuorumIndex
<1>5. ASSUME NEW i \in Word, NEW j \in Word, IsQuorumIndex(p, i), IsQuorumIndex(p, j)
      PROVE  j = i
  <2>1. i <= j /\ j <= i
    BY <1>5 DEF IsQuorumIndex
  <2>. QED  BY <2>1 DEF Word
<1>. QED  BY <1>1, <1>4, <1>5

(***************************************************************************)
(* That index is the highest position a quorum of the voters has reached:  *)
(* what sorting and indexing computes is what the commit rule asks for     *)
(* (raft.cpp:542-552).                                                     *)
(***************************************************************************)
THEOREM QuorumIndexIsHighest ==
    ASSUME NEW p \in [Voters -> ProgressMap], NEW i \in Word
    PROVE  IsQuorumIndex(p, i) <=>
              /\ Cardinality(MatchedBy(p, i)) >= Quorum
              /\ \A j \in Word : j > i => Cardinality(MatchedBy(p, j)) < Quorum
<1>. DEFINE Reached(j) == Cardinality(MatchedBy(p, j)) >= Quorum
<1>1. \A v \in Voters : p[v].match \in Word /\ p[v].match \in Nat
  BY WordFacts DEF ProgressMap
<1>2. ASSUME NEW j \in Word, Reached(j)
      PROVE  \E v \in Voters : p[v].match >= j /\ Reached(p[v].match)
  <2>1. MatchedBy(p, j) # {}
    BY <1>2, MatchedByFacts, FS_EmptySet
  <2>2. PICK v \in MatchedBy(p, j) : \A w \in MatchedBy(p, j) : p[v].match <= p[w].match
    BY <2>1, MatchedByFacts, LowestMatch
  <2>3. v \in Voters /\ p[v].match >= j
    BY DEF MatchedBy
  <2>4. MatchedBy(p, p[v].match) = MatchedBy(p, j)
    BY <1>1, <2>2, <2>3 DEF MatchedBy, Word
  <2>. QED  BY <1>2, <2>3, <2>4
<1>3. ASSUME IsQuorumIndex(p, i), NEW j \in Word, j > i, Reached(j)
      PROVE  FALSE
  <2>1. PICK v \in Voters : p[v].match >= j /\ Reached(p[v].match)
    BY <1>2, <1>3
  <2>2. p[v].match <= i
    BY <1>3, <2>1 DEF IsQuorumIndex
  <2>. QED  BY <1>1, <1>3, <2>1, <2>2 DEF Word
<1>4. ASSUME Reached(i), \A j \in Word : j > i => ~Reached(j)
      PROVE  IsQuorumIndex(p, i)
  <2>1. \A v \in Voters : Reached(p[v].match) => p[v].match <= i
    BY <1>1, <1>4 DEF Word
  <2>2. PICK v \in Voters : p[v].match >= i /\ Reached(p[v].match)
    BY <1>2, <1>4
  <2>3. p[v].match = i
    BY <1>1, <2>1, <2>2 DEF Word
  <2>. QED  BY <1>4, <2>1, <2>3 DEF IsQuorumIndex
<1>5. \A j \in Word : ~Reached(j) <=> Cardinality(MatchedBy(p, j)) < Quorum
  BY MatchedByFacts
<1>6. IsQuorumIndex(p, i) => Reached(i)
  BY DEF IsQuorumIndex
<1>. HIDE DEF Reached
<1>7. IsQuorumIndex(p, i) <=> Reached(i) /\ \A j \in Word : j > i => ~Reached(j)
  BY <1>3, <1>4, <1>6
<1>. QED  BY <1>5, <1>7 DEF Reached

-----------------------------------------------------------------------------
(* Decisions in the state machine.                                          *)

\* A server that leads changes its commit index only by MaybeCommit.
LEMMA LeaderCommitStep ==
    ASSUME TypeOK, [Next]_vars, NEW s \in Server,
           stepFunc[s] = "StepLeader", committed'[s] # committed[s]
    PROVE  \E i \in Word : IsQuorumIndex(prs'[s], i) /\ committed'[s] = i
<1>1. committed \in [Server -> Word]
  BY DEF TypeOK
<1>2. ASSUME NEW t \in Server, NEW m \in Stepped(t), Deliver(t, m)
      PROVE  MaybeCommit(s, prs'[s])
  <2>1. CASE ReceiveAppResp(t, m) \/ ReceiveProp(t, m)
    <3>1. MaybeCommit(t, prs'[t])
      BY <2>1 DEF ReceiveAppResp, ReceiveProp
    <3>2. t = s
      BY <1>1, <3>1 DEF MaybeCommit
    <3>. QED  BY <3>1, <3>2
  <2>2. CASE ReceiveApp(t, m)
    <3>1. t # s
      BY <2>2 DEF ReceiveApp
    <3>. QED  BY <1>1, <2>2, <3>1 DEF ReceiveApp
  <2>3. CASE Ignored(t, m) \/ ReceiveHup(t, m) \/ ReceiveVote(t, m)
               \/ ReceiveVoteResp(t, m)
    BY <2>3 DEF Ignored, ReceiveHup, ReceiveVote, ReceiveVoteResp
  <2>. QED  BY <1>2, <2>1, <2>2, <2>3 DEF Deliver
<1>3. ASSUME NEW t \in Server,
             \/ Tick(t) \/ StoreEntries(t)
             \/ \E p \in Peer : SendAppend(t, p) \/ SendHeartbeat(t, p)
      PROVE  UNCHANGED committed
  BY <1>3 DEF Tick, TickElection, TickHeatbeat, StoreEntries, SendAppend,
              SendHeartbeat, logVars
<1>4. ~ UNCHANGED committed
  OBVIOUS
<1>5. MaybeCommit(s, prs'[s])
  BY <1>2, <1>3, <1>4 DEF Next, vars, logVars
<1>. QED  BY <1>1, <1>5 DEF MaybeCommit

(***************************************************************************)
(* A leader commits the highest position a quorum of its match indexes has *)
(* reached, whoever acknowledged what in which order (raft.cpp:542-552).   *)
(***************************************************************************)
THEOREM DecidesHighestAlways == Spec => DecidesHighest
<1>. DEFINE Highest ==
       \A s \in Server :
          stepFunc[s] = "StepLeader" /\ committed'[s] # committed[s]
            => \A i \in Word :
                  i > committed'[s] => Cardinality(MatchedBy(prs'[s], i)) < Quorum
<1>1. TypeOK /\ TypeOK' /\ [Next]_vars => [Highest]_vars
  <2>. SUFFICES ASSUME TypeOK, TypeOK', [Next]_vars, NEW s \in Server,
                       stepFunc[s] = "StepLeader", committed'[s] # committed[s],
                       NEW i \in Word, i > committed'[s]
                PROVE  Cardinality(MatchedBy(prs'[s], i)) < Quorum
    OBVIOUS
  <2>1. PICK j \in Word : IsQuorumIndex(prs'[s], j) /\ committed'[s] = j
    BY LeaderCommitStep
  <2>2. prs'[s] \in [Voters -> ProgressMap]
    BY DEF TypeOK
  <2>. QED  BY <2>1, <2>2, QuorumIndexIsHighest
<1>. QED  BY <1>1, TypeInvariant, PTL DEF Spec, DecidesHighest

(***************************************************************************)
(* What is committed beyond the snapshot was acknowledged, in messages to  *)
(* one server, by a majority of the voters (raft.cpp:203-226, 542-574):    *)
(* from QuorumBacked and MatchWasAcked.                                    *)
(***************************************************************************)
THEOREM CommittedWasAckedAlways == Spec => []CommittedWasAcked
<1>1. TypeOK /\ QuorumBacked /\ MatchWasAcked => CommittedWasAcked
  <2>. SUFFICES ASSUME TypeOK, QuorumBacked, MatchWasAcked,
                       NEW s \in Server, committed[s] > Snapshot
                PROVE  \E t \in Server : \E Q \in Majorities : \A v \in Q \ {t} :
                         \E m \in network \cup Inject :
                             /\ m.type = "MsgAppResp" /\ ~m.reject
                             /\ m.from = v /\ m.to = t /\ m.index >= committed[s]
    BY DEF CommittedWasAcked
  <2>1. PICK t \in Server : QC!QuorumAcked(Match[t], committed[s])
    BY DEF QuorumBacked, QC!QuorumBacked
  <2>. DEFINE Q == QC!Ackers(Match[t], committed[s])
  <2>2. Q \in Majorities /\ Q \subseteq Voters
    BY <2>1 DEF QC!QuorumAcked, QC!Ackers
  <2>3. ASSUME NEW v \in Q \ {t}
        PROVE  \E m \in network \cup Inject :
                  /\ m.type = "MsgAppResp" /\ ~m.reject
                  /\ m.from = v /\ m.to = t /\ m.index >= committed[s]
    <3>1. v \in Voters \ {t} /\ prs[t][v].match >= committed[s]
      BY <2>3, MatchFacts DEF QC!Ackers
    <3>2. prs[t][v].match > 0
      BY <3>1, WordAssumption DEF TypeOK, ProgressMap, Word
    <3>. QED  BY <3>1, <3>2 DEF MatchWasAcked
  <2>. QED  BY <2>2, <2>3
<1>. QED  BY <1>1, TypeInvariant, QuorumBackedAlways, MatchWasAckedAlways, PTL

(***************************************************************************)
(* No two commit indexes were decided by parts of the cluster that have    *)
(* nothing in common: some voter acknowledged both, each to the server     *)
(* that decided it.  The quorum is a majority (raft.cpp:542-556).           *)
(***************************************************************************)
CommitsShareVoter ==
    \A r, s \in Server :
        committed[r] > Snapshot /\ committed[s] > Snapshot =>
            \E t, u \in Server : \E v \in Voters :
                prs[t][v].match >= committed[r] /\ prs[u][v].match >= committed[s]

THEOREM CommitsAlwaysShareVoter == Spec => []CommitsShareVoter
<1>1. ASSUME NEW Q \in Majorities, NEW R \in Majorities
      PROVE  Q \cap R # {}
  <2>1. /\ Q \subseteq Voters /\ R \subseteq Voters
        /\ IsFiniteSet(Q) /\ IsFiniteSet(R) /\ IsFiniteSet(Voters)
    BY ServerAssumption, FS_Subset DEF Majorities
  <2>2. /\ Cardinality(Q) \in Nat /\ Cardinality(R) \in Nat
        /\ Cardinality(Voters) \in Nat
    BY <2>1, FS_CardinalityType
  <2>3. Cardinality(Q) + Cardinality(R) > Cardinality(Voters)
    BY <2>2 DEF Majorities
  <2>. QED  BY <2>1, <2>3, FS_MajoritiesIntersect
<1>2. TypeOK /\ QuorumBacked => CommitsShareVoter
  <2>. SUFFICES ASSUME TypeOK, QuorumBacked, NEW r \in Server, NEW s \in Server,
                       committed[r] > Snapshot, committed[s] > Snapshot
                PROVE  \E t, u \in Server : \E v \in Voters :
                          prs[t][v].match >= committed[r] /\ prs[u][v].match >= committed[s]
    BY DEF CommitsShareVoter
  <2>1. PICK t \in Server : QC!QuorumAcked(Match[t], committed[r])
    BY DEF QuorumBacked, QC!QuorumBacked
  <2>2. PICK u \in Server : QC!QuorumAcked(Match[u], committed[s])
    BY DEF QuorumBacked, QC!QuorumBacked
  <2>3. PICK v : v \in QC!Ackers(Match[t], committed[r]) \cap QC!Ackers(Match[u], committed[s])
    BY <1>1, <2>1, <2>2 DEF QC!QuorumAcked
  <2>4. v \in Voters /\ Match[t][v] >= committed[r] /\ Match[u][v] >= committed[s]
    BY <2>3 DEF QC!Ackers
  <2>. QED  BY <2>4, MatchFacts
<1>. QED  BY <1>2, TypeInvariant, QuorumBackedAlways, PTL
=============================================================================
