----------------------------- MODULE RaftProofs -----------------------------
(***************************************************************************)
(* Proofs about Raft, for any servers, voters, terms, timeouts, garbage    *)
(* values and injected messages the assumptions of Raft allow.             *)
(***************************************************************************)
EXTENDS Raft, FiniteSetTheorems, TLAPS

-----------------------------------------------------------------------------
(* Operators.                                                               *)

LEMMA WordFacts ==
    /\ 0 \in Word /\ Snapshot \in Word
    /\ Word \subseteq Nat
    /\ \A n \in Word : WordSucc(n) \in Word /\ WordPred(n) \in Word
    /\ \A a, b \in Word : Higher(a, b) \in Word /\ Lower(a, b) \in Word
BY WordAssumption DEF Word, WordSucc, WordPred, Higher, Lower

LEMMA MsgIsMessage ==
    ASSUME NEW t \in MsgType, NEW p \in Peer, NEW q \in Peer
    PROVE  Msg(t, p, q) \in Message
BY WordFacts DEF Msg, Message

\* A broadcast sends nothing: no id is 0.
LEMMA BroadcastSendsNothing ==
    ASSUME NEW s \in Server, NEW c, BcastAppend(s, c)
    PROVE  network' = network
<1>1. BcastTargets(s) = {}
  BY ServerAssumption DEF BcastTargets
<1>. QED  BY <1>1 DEF BcastAppend, Send

LEMMA SendTypes ==
    ASSUME network \subseteq Message, NEW msgs \in SUBSET Message, Send(msgs)
    PROVE  network' \subseteq Message
BY DEF Send

LEMMA AppendMsgsType ==
    ASSUME NEW s \in Server, NEW to \in Peer, NEW pr \in ProgressMap,
           NEW c \in Word
    PROVE  AppendMsgs(s, to, pr, c) \subseteq Message
<1>. DEFINE prev == WordPred(pr.next)
            app(t) == [Msg("MsgApp", s, to) EXCEPT !.index = prev, !.term = t,
                                                   !.commit = c]
<1>1. prev \in Word /\ s \in Peer
  BY WordFacts, ServerAssumption DEF ProgressMap
<1>2. \A t \in Word : app(t) \in Message
  BY <1>1 DEF Msg, Message, MsgType
<1>3. Msg("MsgHup", s, to) \in Message
  BY <1>1, MsgIsMessage DEF MsgType
<1>. QED  BY <1>2, <1>3, WordFacts DEF AppendMsgs

LEMMA MaybeUpdateFacts ==
    ASSUME NEW pr \in ProgressMap, NEW n \in Word
    PROVE  /\ MaybeUpdate(pr, n) \in ProgressMap
           /\ MaybeUpdate(pr, n).match >= pr.match
<1>1. pr.match \in Word /\ pr.next \in Word /\ WordSucc(n) \in Word
  BY WordFacts DEF ProgressMap
<1>2. /\ Higher(pr.match, n) \in Word /\ Higher(pr.match, n) >= pr.match
      /\ Higher(pr.next, WordSucc(n)) \in Word
  BY <1>1 DEF Higher, Word
<1>. QED  BY <1>2 DEF MaybeUpdate, ProgressMap

LEMMA TouchLearnerType ==
    ASSUME learnerPrs \in [Server -> Partial(Peer \ Voters, ProgressMap)],
           NEW s \in Server, NEW p \in Peer
    PROVE  TouchLearner(s, p) \in [Server -> Partial(Peer \ Voters, ProgressMap)]
<1>1. NoProgress \in ProgressMap
  BY WordFacts DEF NoProgress, ProgressMap
<1>2. CASE p \in Voters \/ p \in DOMAIN learnerPrs[s]
  BY <1>2 DEF TouchLearner
<1>3. CASE ~(p \in Voters \/ p \in DOMAIN learnerPrs[s])
  <2>. DEFINE old == learnerPrs[s]
              new == [q \in DOMAIN old \cup {p} |->
                         IF q = p THEN NoProgress ELSE old[q]]
  <2>1. PICK E \in SUBSET (Peer \ Voters) : old \in [E -> ProgressMap]
    BY DEF Partial
  <2>2. E \cup {p} \in SUBSET (Peer \ Voters)
    BY <1>3
  <2>3. new \in [E \cup {p} -> ProgressMap]
    BY <1>1, <2>1
  <2>4. new \in Partial(Peer \ Voters, ProgressMap)
    BY <2>2, <2>3 DEF Partial
  <2>5. TouchLearner(s, p) = [learnerPrs EXCEPT ![s] = new]
    BY <1>3 DEF TouchLearner
  <2>. QED  BY <2>4, <2>5
<1>. QED  BY <1>2, <1>3

-----------------------------------------------------------------------------
(* Type correctness.                                                        *)

LEMMA InitType == Init => TypeOK
<1>. SUFFICES ASSUME Init PROVE TypeOK
  OBVIOUS
<1>1. EmptyMap \in Partial(Peer, BOOLEAN) /\ EmptyMap \in Partial(Peer \ Voters, ProgressMap)
  <2>1. EmptyMap \in [{} -> BOOLEAN] /\ EmptyMap \in [{} -> ProgressMap]
    BY DEF EmptyMap
  <2>. QED  BY <2>1 DEF Partial
<1>2. NoProgress \in ProgressMap
  BY WordFacts DEF NoProgress, ProgressMap
<1>. QED  BY <1>1, <1>2, WordFacts, TimeoutAssumption, WordAssumption
          DEF Init, TypeOK

LEMMA MaybeCommitType ==
    ASSUME NEW s \in Server, NEW p, MaybeCommit(s, p),
           committed \in [Server -> Word]
    PROVE  committed' \in [Server -> Word]
BY DEF MaybeCommit

\* Role changes keep the types of the variables they set.
RoleTypes ==
    /\ state \in [Server -> {"Follower", "Leader"}]
    /\ stepFunc \in [Server -> {"StepFollower", "StepCandidate", "StepLeader"}]
    /\ lead \in [Server -> Peer \cup {None}]
    /\ vote \in [Server -> Peer \cup {None}]
    /\ randomizedTimeout \in
          [Server -> ElectionTimeout..(2 * ElectionTimeout - 1)]
    /\ network \subseteq Message

LEMMA ResetType ==
    ASSUME NEW s \in Server, Reset(s), RoleTypes
    PROVE  randomizedTimeout' \in
              [Server -> ElectionTimeout..(2 * ElectionTimeout - 1)]
BY TimeoutAssumption DEF Reset, RoleTypes

LEMMA StepHupType ==
    ASSUME TypeOK, NEW s \in Server, StepHup(s)
    PROVE  RoleTypes'
<1>1. RoleTypes
  BY DEF TypeOK, RoleTypes
<1>2. ASSUME Campaign(s) PROVE RoleTypes'
  <2>1. BecomeCandidate(s)
    BY <1>2 DEF Campaign
  <2>2. network' \subseteq Message
    <3>1. PICK polled \in BOOLEAN :
             Send(IF polled THEN {}
                  ELSE {[Msg("MsgVote", s, v) EXCEPT !.term = term[s]] :
                           v \in Voters \ {s}})
      BY <1>2 DEF Campaign
    <3>2. {[Msg("MsgVote", s, v) EXCEPT !.term = term[s]] :
              v \in Voters \ {s}} \subseteq Message
      <4>1. term[s] \in Word /\ s \in Peer /\ Voters \subseteq Peer
        BY ServerAssumption, WordAssumption DEF TypeOK
      <4>2. \A v \in Voters :
               [Msg("MsgVote", s, v) EXCEPT !.term = term[s]] \in Message
        BY <4>1, WordFacts DEF Msg, Message, MsgType
      <4>. QED  BY <4>2
    <3>. QED  BY <1>1, <3>1, <3>2, SendTypes DEF RoleTypes
  <2>. QED  BY <1>1, <2>1, <2>2, ResetType, ServerAssumption
            DEF BecomeCandidate, RoleTypes
<1>. QED  BY <1>1, <1>2 DEF StepHup, RoleTypes, roleVars

LEMMA BecomeFollowerType ==
    ASSUME RoleTypes, NEW s \in Server, BecomeFollower(s, None)
    PROVE  /\ state' \in [Server -> {"Follower", "Leader"}]
           /\ stepFunc' \in
                [Server -> {"StepFollower", "StepCandidate", "StepLeader"}]
           /\ lead' \in [Server -> Peer \cup {None}]
           /\ randomizedTimeout' \in
                [Server -> ElectionTimeout..(2 * ElectionTimeout - 1)]
BY ResetType DEF RoleTypes, BecomeFollower

LEMMA BecomeLeaderType ==
    ASSUME RoleTypes, NEW s \in Server, BecomeLeader(s)
    PROVE  /\ state' \in [Server -> {"Follower", "Leader"}]
           /\ stepFunc' \in
                [Server -> {"StepFollower", "StepCandidate", "StepLeader"}]
           /\ lead' \in [Server -> Peer \cup {None}]
           /\ randomizedTimeout' \in
                [Server -> ElectionTimeout..(2 * ElectionTimeout - 1)]
BY ResetType, ServerAssumption DEF RoleTypes, BecomeLeader
LEMMA CounterTypes ==
    \A n \in 0..MaxElapsed : Inc(n) \in 0..MaxElapsed /\ 0 \in 0..MaxElapsed
BY TimeoutAssumption DEF Inc

LEMMA TickType ==
    ASSUME TypeOK, NEW s \in Server, Tick(s)
    PROVE  TypeOK'
<1>1. RoleTypes
  BY DEF TypeOK, RoleTypes
<1>2. CASE TickElection(s)
  <2>1. electionElapsed' \in [Server -> 0..MaxElapsed]
    <3>1. Inc(electionElapsed[s]) \in 0..MaxElapsed /\ 0 \in 0..MaxElapsed
      BY CounterTypes DEF TypeOK
    <3>2. \/ electionElapsed' = [electionElapsed EXCEPT ![s] = 0]
          \/ electionElapsed' =
                [electionElapsed EXCEPT ![s] = Inc(electionElapsed[s])]
      BY <1>2 DEF TickElection
    <3>. QED  BY <3>1, <3>2 DEF TypeOK
  <2>2. RoleTypes'
    BY <1>1, <1>2, StepHupType DEF TickElection, RoleTypes, roleVars
  <2>. QED  BY <1>2, <2>1, <2>2 DEF TickElection, TypeOK, RoleTypes, logVars
<1>3. CASE TickHeatbeat(s)
  <2>1. /\ electionElapsed' \in [Server -> 0..MaxElapsed]
        /\ heartbeatElapsed' \in [Server -> 0..MaxElapsed]
    BY <1>3, CounterTypes DEF TickHeatbeat, TypeOK
  <2>2. learnerPrs' \in [Server -> Partial(Peer \ Voters, ProgressMap)]
    BY <1>3, TouchLearnerType, ServerAssumption DEF TickHeatbeat, TypeOK
  <2>3. RoleTypes'
    <3>1. CASE UNCHANGED <<roleVars, randomizedTimeout>>
      BY <1>1, <1>3, <3>1 DEF TickHeatbeat, RoleTypes, roleVars
    <3>2. CASE BecomeFollower(s, None)
      BY <1>1, <1>3, <3>2, BecomeFollowerType DEF TickHeatbeat, RoleTypes
    <3>. QED  BY <1>3, <3>1, <3>2 DEF TickHeatbeat, StepCheckQuorum
  <2>. QED  BY <1>3, <2>1, <2>2, <2>3 DEF TickHeatbeat, TypeOK, RoleTypes, logVars
<1>. QED  BY <1>2, <1>3 DEF Tick

\* A message that is stepped is one that was received, at most its sender changed.
LEMMA SteppedFacts ==
    ASSUME TypeOK, NEW s \in Server, NEW m \in Stepped(s)
    PROVE  /\ m \in Message
           /\ m.from # s => m \in network \cup Inject
           /\ \E o \in network \cup Inject :
                 /\ m.type = o.type /\ m.index = o.index
                 /\ m.commit = o.commit /\ m.reject = o.reject
<1>1. network \cup Inject \subseteq Message /\ s \in Peer
  BY InjectAssumption, ServerAssumption DEF TypeOK
<1>2. CASE m \in network \cup Inject
  BY <1>1, <1>2
<1>3. CASE m \notin network \cup Inject
  <2>1. PICK o \in network \cup Inject : m = [o EXCEPT !.from = s]
    BY <1>3 DEF Stepped
  <2>. QED  BY <1>1, <2>1 DEF Message
<1>. QED  BY <1>2, <1>3

\* What every delivered message is and does.
LEMMA ReceiveType ==
    ASSUME TypeOK, NEW s \in Server, NEW m \in Stepped(s), Receive(s, m)
    PROVE  /\ m \in Message
           /\ learnerPrs' \in [Server -> Partial(Peer \ Voters, ProgressMap)]
<1>1. m \in Message
  BY SteppedFacts
<1>2. TouchLearner(s, m.from) \in [Server -> Partial(Peer \ Voters, ProgressMap)]
  BY <1>1, TouchLearnerType DEF TypeOK, Message
<1>. QED  BY <1>1, <1>2 DEF Receive, TypeOK

LEMMA IgnoredType ==
    ASSUME TypeOK, NEW s \in Server, NEW m \in Stepped(s), Ignored(s, m)
    PROVE  TypeOK'
BY ReceiveType DEF Ignored, Receive, TypeOK, roleVars

LEMMA ReceiveHupType ==
    ASSUME TypeOK, NEW s \in Server, NEW m \in Stepped(s),
           ReceiveHup(s, m)
    PROVE  TypeOK'
<1>1. RoleTypes'
  BY StepHupType DEF ReceiveHup
<1>. QED  BY <1>1, ReceiveType DEF ReceiveHup, Receive, TypeOK, RoleTypes

LEMMA ReceiveVoteType ==
    ASSUME TypeOK, NEW s \in Server, NEW m \in Stepped(s),
           ReceiveVote(s, m)
    PROVE  TypeOK'
<1>1. m.from \in Peer
  BY ReceiveType DEF ReceiveVote, Message
<1>2. /\ vote' \in [Server -> Peer \cup {None}]
      /\ electionElapsed' \in [Server -> 0..MaxElapsed]
  <2>1. \/ /\ vote' = [vote EXCEPT ![s] = m.from]
           /\ electionElapsed' = [electionElapsed EXCEPT ![s] = 0]
        \/ UNCHANGED <<vote, electionElapsed>>
    BY DEF ReceiveVote
  <2>2. 0 \in 0..MaxElapsed
    BY TimeoutAssumption
  <2>. QED  BY <1>1, <2>1, <2>2 DEF TypeOK
<1>. QED  BY <1>2, ReceiveType DEF ReceiveVote, Receive, TypeOK, roleVars

LEMMA PollType ==
    ASSUME NEW answers \in Partial(Peer, BOOLEAN), NEW id \in Peer,
           NEW granted \in BOOLEAN
    PROVE  Poll(answers, id, granted) \in Partial(Peer, BOOLEAN)
<1>1. CASE id \in DOMAIN answers
  BY <1>1 DEF Poll
<1>2. CASE id \notin DOMAIN answers
  <2>. DEFINE new == [q \in DOMAIN answers \cup {id} |->
                        IF q = id THEN granted ELSE answers[q]]
  <2>1. PICK E \in SUBSET Peer : answers \in [E -> BOOLEAN]
    BY DEF Partial
  <2>2. new \in [E \cup {id} -> BOOLEAN]
    BY <2>1
  <2>3. new \in Partial(Peer, BOOLEAN)
    BY <2>2 DEF Partial
  <2>. QED  BY <1>2, <2>3 DEF Poll
<1>. QED  BY <1>1, <1>2

LEMMA ReceiveVoteRespType ==
    ASSUME TypeOK, NEW s \in Server, NEW m \in Stepped(s),
           ReceiveVoteResp(s, m)
    PROVE  TypeOK'
<1>1. m.from \in Peer /\ m.reject \in BOOLEAN
  BY ReceiveType DEF ReceiveVoteResp, Message
<1>2. votes' \in [Server -> Partial(Peer, BOOLEAN)]
  <2>1. Poll(votes[s], m.from, ~m.reject) \in Partial(Peer, BOOLEAN)
    BY <1>1, PollType DEF TypeOK
  <2>. QED  BY <2>1 DEF ReceiveVoteResp, TypeOK
<1>3. RoleTypes
  BY DEF TypeOK, RoleTypes
<1>4. \/ BecomeLeader(s) /\ network' = network
      \/ BecomeFollower(s, None) /\ network' = network
  BY BroadcastSendsNothing DEF ReceiveVoteResp
<1>5. /\ state' \in [Server -> {"Follower", "Leader"}]
      /\ stepFunc' \in [Server -> {"StepFollower", "StepCandidate", "StepLeader"}]
      /\ lead' \in [Server -> Peer \cup {None}]
      /\ randomizedTimeout' \in
           [Server -> ElectionTimeout..(2 * ElectionTimeout - 1)]
      /\ network' \subseteq Message
  BY <1>3, <1>4, BecomeLeaderType, BecomeFollowerType DEF TypeOK
<1>. QED  BY <1>2, <1>5, ReceiveType DEF ReceiveVoteResp, Receive, TypeOK
LEMMA ReceiveAppType ==
    ASSUME TypeOK, NEW s \in Server, NEW m \in Stepped(s),
           ReceiveApp(s, m)
    PROVE  TypeOK'
<1>1. m \in Message
  BY ReceiveType DEF ReceiveApp
<1>2. m.from \in Peer /\ m.index \in Word /\ m.commit \in Word /\ s \in Peer
  BY <1>1, ServerAssumption DEF Message
<1>3. electionElapsed' \in [Server -> 0..MaxElapsed]
  BY TimeoutAssumption DEF ReceiveApp, TypeOK
<1>4. lead' \in [Server -> Peer \cup {None}]
  BY <1>2 DEF ReceiveApp, TypeOK
<1>. DEFINE resp  == Msg("MsgAppResp", s, m.from)
            stale == IF m.index < committed[s]
                       THEN {[resp EXCEPT !.index = committed[s]]} ELSE {}
            upto  == Higher(committed[s], Lower(m.commit, m.index))
<1>5. /\ stale \subseteq Message
      /\ [resp EXCEPT !.index = m.commit] \in Message
      /\ [resp EXCEPT !.index = m.index, !.reject = TRUE] \in Message
      /\ upto \in Word
  <2>1. committed[s] \in Word
    BY DEF TypeOK
  <2>2. \A i \in Word : [resp EXCEPT !.index = i] \in Message
    BY <1>2, WordFacts DEF Msg, Message, MsgType
  <2>3. [resp EXCEPT !.index = m.index, !.reject = TRUE] \in Message
    BY <1>2, WordFacts DEF Msg, Message, MsgType
  <2>4. upto \in Word
    BY <1>2, <2>1, WordFacts
  <2>. QED  BY <1>2, <2>1, <2>2, <2>3, <2>4
<1>6. \/ /\ committed' = [committed EXCEPT ![s] = upto]
         /\ Send(stale \cup {[resp EXCEPT !.index = m.commit]})
      \/ /\ UNCHANGED committed
         /\ Send(stale \cup {[resp EXCEPT !.index = m.index, !.reject = TRUE]})
  BY DEF ReceiveApp, TypeOK
<1>7. committed' \in [Server -> Word]
  BY <1>5, <1>6 DEF TypeOK
<1>8. network' \subseteq Message
  <2>. HIDE DEF stale, resp
  <2>. QED  BY <1>5, <1>6, SendTypes DEF TypeOK
<1>. QED  BY <1>3, <1>4, <1>7, <1>8, ReceiveType DEF ReceiveApp, Receive, TypeOK

LEMMA ReceiveAppRespType ==
    ASSUME TypeOK, NEW s \in Server, NEW m \in Stepped(s),
           ReceiveAppResp(s, m)
    PROVE  TypeOK'
<1>1. m.from \in Peer /\ m.index \in Word
  BY SteppedFacts DEF Message
<1>2. network' = network
  BY BroadcastSendsNothing DEF ReceiveAppResp
<1>3. committed' \in [Server -> Word]
  BY MaybeCommitType DEF ReceiveAppResp, TypeOK
<1>4. prs' \in [Server -> [Voters -> ProgressMap]]
  <2>1. CASE m.from \in Voters
    <3>1. MaybeUpdate(prs[s][m.from], m.index) \in ProgressMap
      BY <1>1, <2>1, MaybeUpdateFacts DEF TypeOK
    <3>2. prs' = [prs EXCEPT ![s] = [prs[s] EXCEPT
                    ![m.from] = MaybeUpdate(prs[s][m.from], m.index)]]
      BY <2>1 DEF ReceiveAppResp
    <3>. QED  BY <3>1, <3>2 DEF TypeOK
  <2>2. CASE m.from \notin Voters
    BY <2>2 DEF ReceiveAppResp, TypeOK
  <2>. QED  BY <2>1, <2>2
<1>5. learnerPrs' \in [Server -> Partial(Peer \ Voters, ProgressMap)]
  <2>1. CASE m.from \in Voters
    BY <2>1 DEF ReceiveAppResp, TypeOK
  <2>2. CASE m.from \notin Voters
    <3>. DEFINE touched == TouchLearner(s, m.from)
                old == touched[s]
                new == [old EXCEPT ![m.from] = MaybeUpdate(@, m.index)]
    <3>1. touched \in [Server -> Partial(Peer \ Voters, ProgressMap)]
      BY <1>1, TouchLearnerType DEF TypeOK
    <3>2. PICK E \in SUBSET (Peer \ Voters) : old \in [E -> ProgressMap]
      <4>1. old \in Partial(Peer \ Voters, ProgressMap)
        BY <3>1
      <4>. QED  BY <4>1 DEF Partial
    <3>3. new \in [E -> ProgressMap]
      BY <1>1, <3>2, MaybeUpdateFacts
    <3>4. new \in Partial(Peer \ Voters, ProgressMap)
      BY <3>3 DEF Partial
    <3>5. learnerPrs' = [touched EXCEPT ![s] = new]
      BY <2>2, <3>1 DEF ReceiveAppResp
    <3>. QED  BY <3>1, <3>4, <3>5
  <2>. QED  BY <2>1, <2>2
<1>. QED  BY <1>2, <1>3, <1>4, <1>5
          DEF ReceiveAppResp, TypeOK, roleVars, timerVars

LEMMA ReceivePropType ==
    ASSUME TypeOK, NEW s \in Server, NEW m \in Stepped(s), ReceiveProp(s, m)
    PROVE  TypeOK'
<1>1. prs' \in [Server -> [Voters -> ProgressMap]]
  <2>1. PICK li \in Word :
           prs' = [prs EXCEPT ![s] =
                     [prs[s] EXCEPT ![s] = MaybeUpdate(prs[s][s], li)]]
    BY DEF ReceiveProp
  <2>2. MaybeUpdate(prs[s][s], li) \in ProgressMap
    BY MaybeUpdateFacts DEF ReceiveProp, TypeOK
  <2>. QED  BY <2>1, <2>2 DEF TypeOK
<1>2. committed' \in [Server -> Word]
  BY MaybeCommitType DEF ReceiveProp, TypeOK
<1>3. network' = network
  BY BroadcastSendsNothing DEF ReceiveProp
<1>. QED  BY <1>1, <1>2, <1>3, ReceiveType DEF ReceiveProp, Receive, TypeOK, roleVars

LEMMA SendAppendType ==
    ASSUME TypeOK, NEW s \in Server, NEW p \in Peer, SendAppend(s, p)
    PROVE  TypeOK'
<1>1. learnerPrs' \in [Server -> Partial(Peer \ Voters, ProgressMap)]
  BY TouchLearnerType DEF SendAppend, TypeOK
<1>. DEFINE pr == IF p \in Voters THEN prs[s][p] ELSE learnerPrs'[s][p]
<1>2. pr \in ProgressMap
  <2>1. CASE p \in Voters
    BY <2>1 DEF TypeOK
  <2>2. CASE p \notin Voters
    <3>1. PICK E \in SUBSET (Peer \ Voters) : learnerPrs'[s] \in [E -> ProgressMap]
      BY <1>1 DEF Partial
    <3>2. p \in DOMAIN learnerPrs'[s]
      BY <2>2 DEF SendAppend, TouchLearner, TypeOK
    <3>. QED  BY <2>2, <3>1, <3>2
  <2>. QED  BY <2>1, <2>2
<1>3. PICK m \in AppendMsgs(s, p, pr, committed[s]) : Send({m})
  BY DEF SendAppend
<1>4. m \in Message
  BY <1>2, <1>3, AppendMsgsType DEF TypeOK
<1>5. network' \subseteq Message
  BY <1>3, <1>4, SendTypes DEF TypeOK
<1>. QED  BY <1>1, <1>5 DEF SendAppend, TypeOK, roleVars, logVars, timerVars

LEMMA SendHeartbeatType ==
    ASSUME TypeOK, NEW s \in Server, NEW p \in Peer, SendHeartbeat(s, p)
    PROVE  TypeOK'
<1>1. Msg("MsgHeartbeat", s, p) \in Message
  BY MsgIsMessage, ServerAssumption DEF MsgType
<1>2. network' \subseteq Message
  BY <1>1, SendTypes DEF SendHeartbeat, TypeOK
<1>. QED  BY <1>2 DEF SendHeartbeat, TypeOK, roleVars, logVars, timerVars

LEMMA StoreEntriesType ==
    ASSUME TypeOK, NEW s \in Server, StoreEntries(s)
    PROVE  TypeOK'
<1>1. lastIndex' \in [Server -> Snapshot..MaxLast]
  BY WordAssumption DEF StoreEntries, TypeOK
<1>. QED  BY <1>1 DEF StoreEntries, TypeOK, roleVars, timerVars

LEMMA NextType == TypeOK /\ [Next]_vars => TypeOK'
<1>. SUFFICES ASSUME TypeOK, [Next]_vars PROVE TypeOK'
  OBVIOUS
<1>1. CASE UNCHANGED vars
  BY <1>1 DEF vars, roleVars, logVars, timerVars, TypeOK
<1>2. ASSUME NEW s \in Server, NEW m \in Stepped(s), Deliver(s, m)
      PROVE  TypeOK'
  BY <1>2, IgnoredType, ReceiveHupType, ReceiveVoteType, ReceiveVoteRespType,
     ReceiveAppType, ReceiveAppRespType, ReceivePropType DEF Deliver
<1>. QED  BY <1>1, <1>2, TickType, SendAppendType, SendHeartbeatType,
             StoreEntriesType DEF Next

(***************************************************************************)
(* Every variable keeps its type: in particular every index stays a word,  *)
(* every timeout in the interval of raft.h:104-106, and everything sent is *)
(* a well-formed message of a known peer.                                  *)
(***************************************************************************)
THEOREM TypeInvariant == Spec => []TypeOK
BY InitType, NextType, PTL DEF Spec
-----------------------------------------------------------------------------
(* Raft implements QuorumCommit.  The strengthening is AppCommitsReached: a *)
(* commit index taken from a MsgApp was reached by its sender.              *)

CommitInv == TypeOK /\ AppCommitsReached

LEMMA MatchFacts ==
    ASSUME TypeOK
    PROVE  /\ Match \in [Server -> [Voters -> Word]]
           /\ \A s \in Server : \A v \in Voters : Match[s][v] = prs[s][v].match
BY DEF TypeOK, Match, ProgressMap

\* The index MaybeCommit picks is acknowledged by a quorum.
LEMMA QuorumIndexAcked ==
    ASSUME NEW s \in Server, NEW p \in [Voters -> ProgressMap],
           NEW a \in [Voters -> Word], \A v \in Voters : a[v] = p[v].match,
           NEW i \in Word, IsQuorumIndex(p, i)
    PROVE  QC!QuorumAcked(a, i)
<1>1. MatchedBy(p, i) = QC!Ackers(a, i)
  BY DEF MatchedBy, QC!Ackers
<1>2. IsFiniteSet(MatchedBy(p, i))
  BY ServerAssumption, FS_Subset DEF MatchedBy
<1>3. Cardinality(MatchedBy(p, i)) \in Nat /\ Cardinality(Voters) \in Nat
  BY <1>2, ServerAssumption, FS_CardinalityType
<1>4. Cardinality(MatchedBy(p, i)) >= Cardinality(Voters) \div 2 + 1
  BY DEF IsQuorumIndex, Quorum
<1>5. \A c, n \in Nat : c >= n \div 2 + 1 => 2 * c > n
  OBVIOUS
<1>6. 2 * Cardinality(MatchedBy(p, i)) > Cardinality(Voters)
  BY <1>3, <1>4, <1>5
<1>7. MatchedBy(p, i) \in SUBSET Voters
  BY DEF MatchedBy
<1>. QED  BY <1>1, <1>6, <1>7 DEF QC!QuorumAcked, Majorities

\* An acknowledgement recorded at s, with MaybeCommit, decides.
LEMMA AcknowledgeDecides ==
    ASSUME TypeOK, TypeOK', NEW s \in Server,
           \A t \in Server \ {s} : prs'[t] = prs[t],
           \A v \in Voters : prs'[s][v].match >= prs[s][v].match,
           MaybeCommit(s, prs'[s])
    PROVE  QC!Decide(s)
<1>. DEFINE a == Match'[s]
<1>1. /\ Match \in [Server -> [Voters -> Word]]
      /\ Match' \in [Server -> [Voters -> Word]]
      /\ \A t \in Server : \A v \in Voters : /\ Match[t][v] = prs[t][v].match
                                             /\ Match'[t][v] = prs'[t][v].match
  BY DEF TypeOK, Match, ProgressMap
<1>2. /\ a \in [Voters -> Word]
      /\ \A v \in Voters : a[v] >= Match[s][v] /\ a[v] = prs'[s][v].match
  BY <1>1
<1>3. Match' = [Match EXCEPT ![s] = a]
  <2>1. \A t \in Server \ {s} : Match'[t] = Match[t]
    BY DEF Match
  <2>. QED  BY <1>1, <2>1
<1>. HIDE DEF a
<1>4. PICK i \in Word :
         /\ IsQuorumIndex(prs'[s], i)
         /\ \/ i > committed[s] /\ committed' = [committed EXCEPT ![s] = i]
            \/ committed' = committed
  BY DEF MaybeCommit
<1>5. QC!QuorumAcked(a, i)
  BY <1>1, <1>2, <1>4, QuorumIndexAcked DEF TypeOK
<1>6. committed[s] \in Word /\ committed \in [Server -> Word]
  BY DEF TypeOK
<1>7. PICK j \in Word :
         /\ j > committed[s] => QC!QuorumAcked(a, j)
         /\ j >= committed[s]
         /\ committed' = [committed EXCEPT ![s] = j]
  <2>1. CASE i > committed[s] /\ committed' = [committed EXCEPT ![s] = i]
    <3>1. i >= committed[s]
      BY <1>6, <2>1 DEF Word
    <3>. QED  BY <1>5, <2>1, <3>1
  <2>2. CASE committed' = committed
    <3>1. committed' = [committed EXCEPT ![s] = committed[s]]
      BY <1>6, <2>2
    <3>2. ~(committed[s] > committed[s]) /\ committed[s] >= committed[s]
      BY <1>6 DEF Word
    <3>. QED  BY <1>6, <3>1, <3>2
  <2>. QED  BY <1>4, <2>1, <2>2
<1>8. \E b \in [Voters -> Word] : /\ \A v \in Voters : b[v] >= Match[s][v]
                                  /\ Match' = [Match EXCEPT ![s] = b]
  BY <1>2, <1>3
<1>9. \E k \in Word : /\ k > committed[s] => QC!QuorumAcked(Match'[s], k)
                      /\ k >= committed[s]
                      /\ committed' = [committed EXCEPT ![s] = k]
  BY <1>7 DEF a
<1>. QED  BY <1>8, <1>9 DEF QC!Decide, QC!Word, Word

LEMMA ReceivePropDecides ==
    ASSUME TypeOK, TypeOK', NEW s \in Server, NEW m \in Stepped(s),
           ReceiveProp(s, m)
    PROVE  QC!Decide(s)
<1>1. PICK li \in Word :
         prs' = [prs EXCEPT ![s] =
                   [prs[s] EXCEPT ![s] = MaybeUpdate(prs[s][s], li)]]
  BY DEF ReceiveProp
<1>2. \A t \in Server \ {s} : prs'[t] = prs[t]
  BY <1>1 DEF TypeOK
<1>3. \A v \in Voters : prs'[s][v].match >= prs[s][v].match
  <2>1. \A v \in Voters \ {s} : prs'[s][v] = prs[s][v]
    BY <1>1 DEF TypeOK
  <2>2. s \in Voters
    BY DEF ReceiveProp
  <2>3. prs'[s][s].match >= prs[s][s].match
    BY <1>1, <2>2, MaybeUpdateFacts DEF TypeOK
  <2>4. \A v \in Voters : prs[s][v].match \in Int
    BY DEF TypeOK, ProgressMap, Word
  <2>. QED  BY <2>1, <2>3, <2>4
<1>. QED  BY <1>2, <1>3, AcknowledgeDecides DEF ReceiveProp

LEMMA ReceiveAppRespDecides ==
    ASSUME TypeOK, TypeOK', NEW s \in Server, NEW m \in Stepped(s),
           ReceiveAppResp(s, m)
    PROVE  QC!Decide(s)
<1>1. m.index \in Word
  BY SteppedFacts DEF Message
<1>2. \A v \in Voters : prs[s][v].match \in Int
  BY DEF TypeOK, ProgressMap, Word
<1>3. CASE m.from \in Voters
  <2>1. prs' = [prs EXCEPT ![s] = [prs[s] EXCEPT
                  ![m.from] = MaybeUpdate(prs[s][m.from], m.index)]]
    BY <1>3 DEF ReceiveAppResp
  <2>2. \A t \in Server \ {s} : prs'[t] = prs[t]
    BY <2>1 DEF TypeOK
  <2>3. \A v \in Voters \ {m.from} : prs'[s][v] = prs[s][v]
    BY <2>1 DEF TypeOK
  <2>4. prs'[s][m.from].match >= prs[s][m.from].match
    BY <1>1, <1>3, <2>1, MaybeUpdateFacts DEF TypeOK
  <2>5. \A v \in Voters : prs'[s][v].match >= prs[s][v].match
    BY <1>2, <2>3, <2>4
  <2>. QED  BY <2>2, <2>5, AcknowledgeDecides DEF ReceiveAppResp
<1>4. CASE m.from \notin Voters
  <2>1. prs' = prs
    BY <1>4 DEF ReceiveAppResp
  <2>. QED  BY <1>2, <2>1, AcknowledgeDecides DEF ReceiveAppResp
<1>. QED  BY <1>3, <1>4

LEMMA ReceiveAppLearns ==
    ASSUME CommitInv, NEW s \in Server, NEW m \in Stepped(s),
           ReceiveApp(s, m)
    PROVE  QC!Learn(s) \/ UNCHANGED <<committed, prs>>
<1>1. PICK o \in network : o.from \in Server /\ m.commit <= committed[o.from]
  <2>1. PICK o \in network \cup Inject : o.type = m.type /\ o.commit = m.commit
    BY SteppedFacts DEF CommitInv
  <2>2. o \in network
    BY <2>1, InjectAssumption DEF ReceiveApp
  <2>. QED  BY <2>1, <2>2 DEF CommitInv, AppCommitsReached, ReceiveApp
<1>2. /\ m.index \in Word /\ m.commit \in Word
      /\ committed[s] \in Word /\ committed[o.from] \in Word
  BY <1>1, SteppedFacts DEF CommitInv, TypeOK, Message
<1>. DEFINE upto == Higher(committed[s], Lower(m.commit, m.index))
<1>3. \/ committed' = [committed EXCEPT ![s] = upto]
      \/ UNCHANGED committed
  BY DEF ReceiveApp
<1>4. /\ upto \in Word
      /\ committed[s] <= upto
      /\ upto <= committed[s] \/ upto <= committed[o.from]
  BY <1>1, <1>2 DEF Higher, Lower, Word
<1>5. UNCHANGED prs
  BY DEF ReceiveApp
<1>. HIDE DEF upto
<1>6. CASE committed' = [committed EXCEPT ![s] = upto]
  BY <1>1, <1>4, <1>5, <1>6 DEF QC!Learn, QC!Word, Word, Match
<1>. QED  BY <1>3, <1>5, <1>6
LEMMA InitRefines == Init => QC!Init
<1>. SUFFICES ASSUME Init PROVE QC!Init
  OBVIOUS
<1>1. committed = [s \in Server |-> Snapshot]
  BY DEF Init
<1>2. Match = [s \in Server |-> [v \in Voters |-> 0]]
  BY DEF Init, Match, NoProgress
<1>. QED  BY <1>1, <1>2 DEF QC!Init

\* Every step decides, learns or leaves commit and match indexes alone.
LEMMA StepRefines ==
    ASSUME CommitInv, TypeOK', [Next]_vars
    PROVE  [QC!Next]_(QC!vars)
<1>. USE DEF CommitInv
<1>1. ASSUME UNCHANGED <<committed, prs>> PROVE UNCHANGED QC!vars
  BY <1>1 DEF QC!vars, Match
<1>2. ASSUME NEW s \in Server, QC!Decide(s) \/ QC!Learn(s) PROVE QC!Next
  BY <1>2 DEF QC!Next
<1>3. CASE UNCHANGED vars
  BY <1>1, <1>3 DEF vars, logVars
<1>4. ASSUME NEW s \in Server, Tick(s) PROVE UNCHANGED <<committed, prs>>
  BY <1>4 DEF Tick, TickElection, TickHeatbeat, logVars
<1>5. ASSUME NEW s \in Server, NEW m \in Stepped(s), Deliver(s, m)
      PROVE  \/ QC!Decide(s) \/ QC!Learn(s)
             \/ UNCHANGED <<committed, prs>>
  <2>1. CASE ReceiveAppResp(s, m) \/ ReceiveProp(s, m)
    BY <2>1, ReceiveAppRespDecides, ReceivePropDecides
  <2>2. CASE ReceiveApp(s, m)
    BY <2>2, ReceiveAppLearns
  <2>3. CASE Ignored(s, m) \/ ReceiveHup(s, m) \/ ReceiveVote(s, m)
               \/ ReceiveVoteResp(s, m)
    BY <2>3 DEF Ignored, ReceiveHup, ReceiveVote, ReceiveVoteResp
  <2>. QED  BY <1>5, <2>1, <2>2, <2>3 DEF Deliver
<1>6. ASSUME NEW s \in Server, NEW p \in Peer,
             SendAppend(s, p) \/ SendHeartbeat(s, p)
      PROVE  UNCHANGED <<committed, prs>>
  BY <1>6 DEF SendAppend, SendHeartbeat, logVars
<1>7. ASSUME NEW s \in Server, StoreEntries(s)
      PROVE  UNCHANGED <<committed, prs>>
  BY <1>7 DEF StoreEntries
<1>. QED  BY <1>1, <1>2, <1>3, <1>4, <1>5, <1>6, <1>7 DEF Next

\* A commit index never moves back.
LEMMA CommitMonotone ==
    ASSUME TypeOK, [QC!Next]_(QC!vars), NEW s \in Server
    PROVE  committed[s] <= committed'[s]
<1>. USE DEF TypeOK, Word, QC!Word
<1>1. ASSUME NEW t \in Server, QC!Decide(t) PROVE committed[s] <= committed'[s]
  <2>1. PICK i \in Word : i >= committed[t] /\ committed' = [committed EXCEPT ![t] = i]
    BY <1>1 DEF QC!Decide
  <2>. QED  BY <2>1
<1>2. ASSUME NEW t \in Server, QC!Learn(t) PROVE committed[s] <= committed'[s]
  <2>1. PICK i \in Word : committed[t] <= i /\ committed' = [committed EXCEPT ![t] = i]
    BY <1>2 DEF QC!Learn
  <2>. QED  BY <2>1
<1>3. CASE UNCHANGED QC!vars
  BY <1>3 DEF QC!vars
<1>. QED  BY <1>1, <1>2, <1>3 DEF QC!Next

\* A MsgApp is new only when SendAppend put it there.
LEMMA NewMsgApp ==
    ASSUME TypeOK, [Next]_vars, NEW n \in network', n.type = "MsgApp",
           n \notin network
    PROVE  n.from \in Server /\ n.commit = committed[n.from]
<1>1. CASE UNCHANGED vars
  BY <1>1 DEF vars
<1>2. ASSUME NEW s \in Server, StepHup(s) PROVE FALSE
  <2>1. Campaign(s)
    BY <1>2 DEF StepHup
  <2>2. PICK polled \in BOOLEAN :
           Send(IF polled THEN {}
                ELSE {[Msg("MsgVote", s, v) EXCEPT !.term = term[s]] :
                         v \in Voters \ {s}})
    BY <2>1 DEF Campaign
  <2>3. PICK v \in Voters :
           n = [Msg("MsgVote", s, v) EXCEPT !.term = term[s]]
    BY <2>2 DEF Send
  <2>. QED  BY <2>3 DEF Msg
<1>3. ASSUME NEW s \in Server, Tick(s) PROVE FALSE
  BY <1>2, <1>3 DEF Tick, TickElection, TickHeatbeat
<1>4. ASSUME NEW s \in Server, StoreEntries(s) PROVE FALSE
  BY <1>4 DEF StoreEntries
<1>5. ASSUME NEW s \in Server, NEW m \in Stepped(s), Deliver(s, m)
      PROVE  FALSE
  <2>1. CASE Ignored(s, m) \/ ReceiveVote(s, m)
    BY <2>1 DEF Ignored, ReceiveVote
  <2>2. CASE ReceiveHup(s, m)
    BY <1>2, <2>2 DEF ReceiveHup
  <2>3. CASE ReceiveVoteResp(s, m)
    BY <2>3, BroadcastSendsNothing DEF ReceiveVoteResp
  <2>4. CASE ReceiveAppResp(s, m) \/ ReceiveProp(s, m)
    BY <2>4, BroadcastSendsNothing DEF ReceiveAppResp, ReceiveProp
  <2>5. CASE ReceiveApp(s, m)
    <3>. DEFINE resp  == Msg("MsgAppResp", s, m.from)
                stale == IF m.index < committed[s]
                           THEN {[resp EXCEPT !.index = committed[s]]} ELSE {}
    <3>1. \/ Send(stale \cup {[resp EXCEPT !.index = m.commit]})
          \/ Send(stale \cup {[resp EXCEPT !.index = m.index, !.reject = TRUE]})
      BY <2>5 DEF ReceiveApp
    <3>2. \/ n = [resp EXCEPT !.index = committed[s]]
          \/ n = [resp EXCEPT !.index = m.commit]
          \/ n = [resp EXCEPT !.index = m.index, !.reject = TRUE]
      BY <3>1 DEF Send
    <3>. QED  BY <3>2 DEF Msg
  <2>. QED  BY <1>5, <2>1, <2>2, <2>3, <2>4, <2>5 DEF Deliver
<1>6. ASSUME NEW s \in Server, NEW p \in Peer, SendHeartbeat(s, p) PROVE FALSE
  <2>1. n = Msg("MsgHeartbeat", s, p)
    BY <1>6 DEF SendHeartbeat, Send
  <2>. QED  BY <2>1 DEF Msg
<1>7. ASSUME NEW s \in Server, NEW p \in Peer, SendAppend(s, p)
      PROVE  n.from \in Server /\ n.commit = committed[n.from]
  <2>. DEFINE pr == IF p \in Voters THEN prs[s][p] ELSE learnerPrs'[s][p]
              prev == WordPred(pr.next)
              app(t) == [Msg("MsgApp", s, p) EXCEPT !.index = prev, !.term = t,
                                                    !.commit = committed[s]]
  <2>1. n \in AppendMsgs(s, p, pr, committed[s])
    BY <1>7 DEF SendAppend, Send
  <2>2. n = Msg("MsgHup", s, p) \/ \E t \in Word : n = app(t)
    BY <2>1, WordFacts DEF AppendMsgs
  <2>3. CASE n = Msg("MsgHup", s, p)
    BY <2>3 DEF Msg
  <2>4. CASE \E t \in Word : n = app(t)
    BY <2>4 DEF Msg
  <2>. QED  BY <2>2, <2>3, <2>4
<1>. QED  BY <1>1, <1>3, <1>4, <1>5, <1>6, <1>7 DEF Next

LEMMA CommitInvInductive == CommitInv /\ [Next]_vars => CommitInv'
<1>. SUFFICES ASSUME CommitInv, [Next]_vars PROVE CommitInv'
  OBVIOUS
<1>1. TypeOK'
  BY NextType DEF CommitInv
<1>2. \A s \in Server : committed[s] <= committed'[s]
  BY <1>1, StepRefines, CommitMonotone DEF CommitInv
<1>3. ASSUME NEW m \in network', m.type = "MsgApp"
      PROVE  m.from \in Server /\ m.commit <= committed'[m.from]
  <2>1. m.from \in Server /\ m.commit <= committed[m.from]
    <3>1. CASE m \in network
      BY <1>3, <3>1 DEF CommitInv, AppCommitsReached
    <3>2. CASE m \notin network
      <4>1. m.from \in Server /\ m.commit = committed[m.from]
        BY <1>3, <3>2, NewMsgApp DEF CommitInv
      <4>. QED  BY <4>1 DEF CommitInv, TypeOK, Word
    <3>. QED  BY <3>1, <3>2
  <2>2. m.commit \in Int /\ committed[m.from] \in Int /\ committed'[m.from] \in Int
    BY <1>1, <2>1 DEF CommitInv, TypeOK, Message, Word
  <2>. QED  BY <1>2, <2>1, <2>2
<1>. QED  BY <1>1, <1>3 DEF CommitInv, AppCommitsReached

(***************************************************************************)
(* No MsgApp carries a commit index its sender has not reached, whatever   *)
(* the order and the number of deliveries (raft.cpp:492).                  *)
(***************************************************************************)
THEOREM AppCommitsReachedAlways == Spec => []AppCommitsReached
<1>1. Init => CommitInv
  BY InitType DEF CommitInv, AppCommitsReached, Init
<1>2. CommitInv => AppCommitsReached
  BY DEF CommitInv
<1>. QED  BY <1>1, <1>2, CommitInvInductive, PTL DEF Spec

(***************************************************************************)
(* Every step of a server, with any garbage value and any loss, repetition *)
(* and reordering of messages, decides a position its own quorum           *)
(* acknowledged, learns one another server committed, or leaves the commit *)
(* and match indexes alone (raft.cpp:542-574, raft_log.cpp:309-327).       *)
(***************************************************************************)
THEOREM Refinement == Spec => ImplementsQuorumCommit
<1>1. Init => CommitInv /\ QC!Init
  BY InitType, InitRefines DEF CommitInv, AppCommitsReached, Init
<1>2. CommitInv /\ CommitInv' /\ [Next]_vars => [QC!Next]_(QC!vars)
  BY StepRefines DEF CommitInv
<1>. QED  BY <1>1, <1>2, CommitInvInductive, PTL
          DEF Spec, ImplementsQuorumCommit, QC!Spec
P == INSTANCE QuorumCommitProofs WITH Quorums <- Majorities, acked <- Match

\* What QuorumCommit assumes of its constants.
LEMMA MajoritiesAssumption == P!QuorumCommitAssumption
<1>1. ASSUME NEW Q \in Majorities, NEW S \in SUBSET Voters, Q \subseteq S
      PROVE  S \in Majorities
  <2>1. IsFiniteSet(S)
    BY ServerAssumption, FS_Subset
  <2>2. Cardinality(Q) <= Cardinality(S)
    BY <1>1, <2>1, FS_Subset
  <2>3. /\ Cardinality(Q) \in Nat /\ Cardinality(S) \in Nat
        /\ Cardinality(Voters) \in Nat
    BY <1>1, <2>1, ServerAssumption, FS_Subset, FS_CardinalityType
  <2>. QED  BY <2>2, <2>3 DEF Majorities
<1>2. Majorities \subseteq SUBSET Voters
  BY DEF Majorities
<1>. QED  BY <1>1, <1>2, WordAssumption DEF P!QuorumCommitAssumption

(***************************************************************************)
(* Whatever any server has committed beyond the snapshot, a majority of    *)
(* the voters has acknowledged to one server (raft.cpp:542-552,            *)
(* raft_log.h:101-103): from the refinement and QuorumCommit's theorem.    *)
(***************************************************************************)
THEOREM QuorumBackedAlways == Spec => []QuorumBacked
<1>1. P!Spec => []P!QuorumBacked
  BY MajoritiesAssumption, P!Safety
<1>2. ImplementsQuorumCommit <=> P!Spec
  BY PTL DEF ImplementsQuorumCommit, QC!Spec, P!Spec, QC!Init, P!Init,
     QC!Next, P!Next, QC!vars, P!vars, QC!Decide, P!Decide, QC!Learn, P!Learn,
     QC!Word, P!Word, QC!QuorumAcked, P!QuorumAcked, QC!Ackers, P!Ackers
<1>3. QuorumBacked <=> P!QuorumBacked
  BY DEF QuorumBacked, QC!QuorumBacked, P!QuorumBacked, QC!QuorumAcked,
     P!QuorumAcked, QC!Ackers, P!Ackers
<1>. QED  BY <1>1, <1>2, <1>3, Refinement, PTL
-----------------------------------------------------------------------------
(* Nothing is committed without foreign acknowledgements.  The invariant    *)
(* also bounds what is in flight and what servers record of each other.     *)

NoForeignAcks ==
    /\ Cardinality(Voters) >= 2
    /\ \A m \in Inject : m.type # "MsgAppResp"

NothingAcked ==
    /\ \A m \in network : m.type = "MsgApp" => m.commit = Snapshot
    /\ \A m \in network : m.type = "MsgAppResp" /\ ~m.reject => m.index = Snapshot
    /\ \A s \in Server : \A v \in Voters \ {s} : prs[s][v].match <= Snapshot

IdleInv == CommitInv /\ NothingCommitted /\ NothingAcked

\* A quorum index is one that some other voter has acknowledged.
LEMMA QuorumIndexNeedsOther ==
    ASSUME NoForeignAcks, NEW s \in Server, NEW p \in [Voters -> ProgressMap],
           \A v \in Voters \ {s} : p[v].match <= Snapshot,
           NEW i \in Word, IsQuorumIndex(p, i)
    PROVE  i <= Snapshot
<1>1. MatchedBy(p, i) \subseteq Voters /\ IsFiniteSet(MatchedBy(p, i))
  BY ServerAssumption, FS_Subset DEF MatchedBy
<1>2. Cardinality(MatchedBy(p, i)) \in Nat /\ Cardinality(Voters) \in Nat
  BY <1>1, ServerAssumption, FS_CardinalityType
<1>3. Cardinality(MatchedBy(p, i)) >= 2
  BY <1>2 DEF IsQuorumIndex, Quorum, NoForeignAcks
<1>4. PICK v \in MatchedBy(p, i) : v # s
  <2>1. SUFFICES ASSUME MatchedBy(p, i) \subseteq {s} PROVE FALSE
    OBVIOUS
  <2>2. IsFiniteSet({s}) /\ Cardinality({s}) = 1
    BY FS_Singleton
  <2>3. Cardinality(MatchedBy(p, i)) <= Cardinality({s})
    BY <2>1, <2>2, FS_Subset
  <2>. QED  BY <1>2, <1>3, <2>2, <2>3
<1>5. p[v].match >= i /\ p[v].match <= Snapshot
  BY <1>1, <1>4 DEF MatchedBy
<1>6. p[v].match \in Nat /\ i \in Nat /\ Snapshot \in Nat
  BY <1>1, <1>4, WordAssumption DEF ProgressMap, Word
<1>. QED  BY <1>5, <1>6

LEMMA MaybeCommitIdles ==
    ASSUME NoForeignAcks, NEW s \in Server, NEW p \in [Voters -> ProgressMap],
           \A v \in Voters \ {s} : p[v].match <= Snapshot,
           committed[s] = Snapshot, MaybeCommit(s, p)
    PROVE  UNCHANGED committed
<1>1. PICK i \in Word :
         /\ IsQuorumIndex(p, i)
         /\ \/ i > committed[s] /\ committed' = [committed EXCEPT ![s] = i]
            \/ committed' = committed
  BY DEF MaybeCommit
<1>2. i <= Snapshot
  BY <1>1, QuorumIndexNeedsOther
<1>3. ~(i > committed[s])
  BY <1>2, WordAssumption DEF Word
<1>. QED  BY <1>1, <1>3

\* The messages a step adds are not acknowledgements, or acknowledge Snapshot.
LEMMA NewMsgAppResp ==
    ASSUME IdleInv, [Next]_vars, NEW n \in network', n \notin network,
           n.type = "MsgAppResp", ~n.reject
    PROVE  n.index = Snapshot
<1>1. CASE UNCHANGED vars
  BY <1>1 DEF vars
<1>2. ASSUME NEW s \in Server, StepHup(s) PROVE FALSE
  <2>1. Campaign(s)
    BY <1>2 DEF StepHup
  <2>2. PICK polled \in BOOLEAN :
           Send(IF polled THEN {}
                ELSE {[Msg("MsgVote", s, v) EXCEPT !.term = term[s]] :
                         v \in Voters \ {s}})
    BY <2>1 DEF Campaign
  <2>3. PICK v \in Voters :
           n = [Msg("MsgVote", s, v) EXCEPT !.term = term[s]]
    BY <2>2 DEF Send
  <2>. QED  BY <2>3 DEF Msg
<1>3. ASSUME NEW s \in Server, Tick(s) PROVE FALSE
  BY <1>2, <1>3 DEF Tick, TickElection, TickHeatbeat
<1>4. ASSUME NEW s \in Server, StoreEntries(s) PROVE FALSE
  BY <1>4 DEF StoreEntries
<1>5. ASSUME NEW s \in Server, NEW m \in Stepped(s), Deliver(s, m)
      PROVE  n.index = Snapshot
  <2>1. CASE Ignored(s, m) \/ ReceiveVote(s, m)
    BY <2>1 DEF Ignored, ReceiveVote
  <2>2. CASE ReceiveHup(s, m)
    BY <1>2, <2>2 DEF ReceiveHup
  <2>3. CASE ReceiveVoteResp(s, m)
    BY <2>3, BroadcastSendsNothing DEF ReceiveVoteResp
  <2>4. CASE ReceiveAppResp(s, m) \/ ReceiveProp(s, m)
    BY <2>4, BroadcastSendsNothing DEF ReceiveAppResp, ReceiveProp
  <2>5. CASE ReceiveApp(s, m)
    <3>. DEFINE resp  == Msg("MsgAppResp", s, m.from)
                stale == IF m.index < committed[s]
                           THEN {[resp EXCEPT !.index = committed[s]]} ELSE {}
    <3>1. \/ Send(stale \cup {[resp EXCEPT !.index = m.commit]})
          \/ Send(stale \cup {[resp EXCEPT !.index = m.index, !.reject = TRUE]})
      BY <2>5 DEF ReceiveApp
    <3>2. \/ n = [resp EXCEPT !.index = committed[s]]
          \/ n = [resp EXCEPT !.index = m.commit]
          \/ n = [resp EXCEPT !.index = m.index, !.reject = TRUE]
      BY <3>1 DEF Send
    <3>3. n.index = committed[s] \/ n.index = m.commit
      BY <3>2 DEF Msg
    <3>4. PICK o \in network \cup Inject : o.type = m.type /\ o.commit = m.commit
      BY SteppedFacts DEF IdleInv, CommitInv
    <3>5. o \in network
      BY <2>5, <3>4, InjectAssumption DEF ReceiveApp
    <3>. QED  BY <2>5, <3>3, <3>4, <3>5
              DEF IdleInv, NothingCommitted, NothingAcked, ReceiveApp
  <2>. QED  BY <1>5, <2>1, <2>2, <2>3, <2>4, <2>5 DEF Deliver
<1>6. ASSUME NEW s \in Server, NEW p \in Peer, SendHeartbeat(s, p) PROVE FALSE
  <2>1. n = Msg("MsgHeartbeat", s, p)
    BY <1>6 DEF SendHeartbeat, Send
  <2>. QED  BY <2>1 DEF Msg
<1>7. ASSUME NEW s \in Server, NEW p \in Peer, SendAppend(s, p) PROVE FALSE
  <2>. DEFINE pr == IF p \in Voters THEN prs[s][p] ELSE learnerPrs'[s][p]
              prev == WordPred(pr.next)
              app(t) == [Msg("MsgApp", s, p) EXCEPT !.index = prev, !.term = t,
                                                    !.commit = committed[s]]
  <2>1. n \in AppendMsgs(s, p, pr, committed[s])
    BY <1>7 DEF SendAppend, Send
  <2>2. n = Msg("MsgHup", s, p) \/ \E t \in Word : n = app(t)
    BY <2>1, WordFacts DEF AppendMsgs
  <2>. HIDE DEF pr, prev
  <2>3. \A t \in Word : app(t).type = "MsgApp"
    BY DEF Msg
  <2>. HIDE DEF app
  <2>4. n.type \in {"MsgHup", "MsgApp"}
    BY <2>2, <2>3 DEF Msg
  <2>. QED  BY <2>4
<1>. QED  BY <1>1, <1>3, <1>4, <1>5, <1>6, <1>7 DEF Next

OthersIdle(p, s) == \A v \in Voters \ {s} : p[v].match <= Snapshot

LEMMA ReceivePropIdles ==
    ASSUME NoForeignAcks, IdleInv, TypeOK', NEW s \in Server,
           NEW m \in Stepped(s), ReceiveProp(s, m)
    PROVE  UNCHANGED committed /\ \A t \in Server : OthersIdle(prs'[t], t)
<1>1. PICK li \in Word :
         prs' = [prs EXCEPT ![s] =
                   [prs[s] EXCEPT ![s] = MaybeUpdate(prs[s][s], li)]]
  BY DEF ReceiveProp
<1>2. \A t \in Server : \A v \in Voters \ {t} : prs'[t][v] = prs[t][v]
  BY <1>1 DEF IdleInv, CommitInv, TypeOK
<1>3. \A t \in Server : OthersIdle(prs'[t], t)
  BY <1>2 DEF IdleInv, NothingAcked, OthersIdle
<1>4. prs'[s] \in [Voters -> ProgressMap] /\ committed[s] = Snapshot
  BY DEF TypeOK, IdleInv, NothingCommitted
<1>5. MaybeCommit(s, prs'[s])
  BY DEF ReceiveProp
<1>. QED  BY <1>3, <1>4, <1>5, MaybeCommitIdles DEF OthersIdle

LEMMA ReceiveAppRespIdles ==
    ASSUME NoForeignAcks, IdleInv, TypeOK', NEW s \in Server,
           NEW m \in Stepped(s), ReceiveAppResp(s, m)
    PROVE  UNCHANGED committed /\ \A t \in Server : OthersIdle(prs'[t], t)
<1>1. m.index = Snapshot
  <2>1. PICK o \in network \cup Inject :
           o.type = m.type /\ o.index = m.index /\ o.reject = m.reject
    BY SteppedFacts DEF IdleInv, CommitInv
  <2>. QED  BY <2>1 DEF ReceiveAppResp, NoForeignAcks, IdleInv, NothingAcked
<1>2. Snapshot \in Nat
  BY WordAssumption
<1>3. \A t \in Server : OthersIdle(prs'[t], t)
  <2>1. CASE m.from \in Voters
    <3>1. prs' = [prs EXCEPT ![s] = [prs[s] EXCEPT
                    ![m.from] = MaybeUpdate(prs[s][m.from], m.index)]]
      BY <2>1 DEF ReceiveAppResp
    <3>2. ASSUME NEW t \in Server, NEW v \in Voters \ {t}
          PROVE  \/ prs'[t][v] = prs[t][v]
                 \/ prs'[t][v] = MaybeUpdate(prs[t][v], Snapshot)
      BY <1>1, <2>1, <3>1 DEF IdleInv, CommitInv, TypeOK
    <3>3. ASSUME NEW t \in Server, NEW v \in Voters \ {t}
          PROVE  prs[t][v].match <= Snapshot /\ prs[t][v].match \in Int
      BY DEF IdleInv, CommitInv, NothingAcked, TypeOK, ProgressMap, Word
    <3>4. ASSUME NEW t \in Server, NEW v \in Voters \ {t}
          PROVE  prs'[t][v].match <= Snapshot
      <4>1. MaybeUpdate(prs[t][v], Snapshot).match = Higher(prs[t][v].match, Snapshot)
        BY DEF MaybeUpdate
      <4>2. prs[t][v].match <= Snapshot /\ prs[t][v].match \in Int
        BY <3>3
      <4>3. Higher(prs[t][v].match, Snapshot) <= Snapshot
        BY <1>2, <4>2 DEF Higher
      <4>4. \/ prs'[t][v] = prs[t][v]
            \/ prs'[t][v] = MaybeUpdate(prs[t][v], Snapshot)
        BY <3>2
      <4>. QED  BY <4>1, <4>2, <4>3, <4>4
    <3>. QED  BY <3>4 DEF OthersIdle
  <2>2. CASE m.from \notin Voters
    BY <2>2 DEF ReceiveAppResp, IdleInv, NothingAcked, OthersIdle
  <2>. QED  BY <2>1, <2>2
<1>4. prs'[s] \in [Voters -> ProgressMap] /\ committed[s] = Snapshot
  BY DEF TypeOK, IdleInv, NothingCommitted
<1>5. MaybeCommit(s, prs'[s])
  BY DEF ReceiveAppResp
<1>. QED  BY <1>3, <1>4, <1>5, MaybeCommitIdles DEF OthersIdle

LEMMA ReceiveAppIdles ==
    ASSUME IdleInv, NEW s \in Server, NEW m \in Stepped(s),
           ReceiveApp(s, m)
    PROVE  UNCHANGED <<committed, prs>>
<1>1. m.commit = Snapshot /\ m.index \in Int
  <2>1. PICK o \in network \cup Inject : o.type = m.type /\ o.commit = m.commit
    BY SteppedFacts DEF IdleInv, CommitInv
  <2>2. o \in network
    BY <2>1, InjectAssumption DEF ReceiveApp
  <2>3. m \in Message
    BY SteppedFacts DEF IdleInv, CommitInv
  <2>. QED  BY <2>1, <2>2, <2>3
            DEF ReceiveApp, IdleInv, NothingAcked, Message, Word
<1>2. committed[s] = Snapshot /\ committed \in [Server -> Word]
  BY DEF IdleInv, CommitInv, NothingCommitted, TypeOK
<1>3. Higher(committed[s], Lower(m.commit, m.index)) = committed[s]
  BY <1>1, <1>2, WordAssumption DEF Higher, Lower
<1>. QED  BY <1>2, <1>3 DEF ReceiveApp

LEMMA StepIdles ==
    ASSUME NoForeignAcks, IdleInv, TypeOK', [Next]_vars
    PROVE  UNCHANGED committed /\ \A t \in Server : OthersIdle(prs'[t], t)
<1>1. CASE UNCHANGED <<committed, prs>>
  BY <1>1 DEF IdleInv, NothingAcked, OthersIdle
<1>2. ASSUME NEW s \in Server, NEW m \in Stepped(s), Deliver(s, m)
      PROVE  UNCHANGED committed /\ \A t \in Server : OthersIdle(prs'[t], t)
  <2>1. CASE \/ Ignored(s, m) \/ ReceiveHup(s, m) \/ ReceiveVote(s, m)
             \/ ReceiveVoteResp(s, m)
    BY <1>1, <2>1 DEF Ignored, ReceiveHup, ReceiveVote, ReceiveVoteResp
  <2>2. CASE ReceiveApp(s, m)
    BY <1>1, <2>2, ReceiveAppIdles
  <2>3. CASE ReceiveAppResp(s, m) \/ ReceiveProp(s, m)
    BY <2>3, ReceiveAppRespIdles, ReceivePropIdles
  <2>. QED  BY <1>2, <2>1, <2>2, <2>3 DEF Deliver
<1>3. ASSUME NEW s \in Server,
             \/ Tick(s) \/ StoreEntries(s)
             \/ \E p \in Peer : SendAppend(s, p) \/ SendHeartbeat(s, p)
      PROVE  UNCHANGED <<committed, prs>>
  BY <1>3 DEF Tick, TickElection, TickHeatbeat, StoreEntries, SendAppend,
              SendHeartbeat, logVars
<1>4. CASE UNCHANGED vars
  BY <1>1, <1>4 DEF vars, logVars
<1>. QED  BY <1>1, <1>2, <1>3, <1>4 DEF Next

LEMMA IdleInvInductive ==
    ASSUME NoForeignAcks, IdleInv, [Next]_vars
    PROVE  IdleInv'
<1>1. CommitInv' /\ TypeOK'
  BY CommitInvInductive DEF IdleInv, CommitInv
<1>2. UNCHANGED committed /\ \A t \in Server : OthersIdle(prs'[t], t)
  BY <1>1, StepIdles
<1>3. NothingCommitted'
  BY <1>2 DEF IdleInv, NothingCommitted
<1>4. ASSUME NEW m \in network', m.type = "MsgApp" PROVE m.commit = Snapshot
  <2>1. CASE m \in network
    BY <1>4, <2>1 DEF IdleInv, NothingAcked
  <2>2. CASE m \notin network
    BY <1>4, <2>2, NewMsgApp DEF IdleInv, CommitInv, NothingCommitted
  <2>. QED  BY <2>1, <2>2
<1>5. ASSUME NEW m \in network', m.type = "MsgAppResp", ~m.reject
      PROVE  m.index = Snapshot
  <2>1. CASE m \in network
    BY <1>5, <2>1 DEF IdleInv, NothingAcked
  <2>2. CASE m \notin network
    BY <1>5, <2>2, NewMsgAppResp
  <2>. QED  BY <2>1, <2>2
<1>6. NothingAcked'
  BY <1>2, <1>4, <1>5 DEF NothingAcked, OthersIdle
<1>. QED  BY <1>1, <1>3, <1>6 DEF IdleInv

(***************************************************************************)
(* In a cluster of two or more voters that runs only this code, whatever   *)
(* the application proposes or sends, no server ever commits beyond the    *)
(* snapshot (raft_log.cpp:394-395, raft.cpp:567-573).                      *)
(***************************************************************************)
THEOREM NothingCommittedAlways ==
    ASSUME NoForeignAcks
    PROVE  Spec => []NothingCommitted
<1>1. Init => IdleInv
  <2>. SUFFICES ASSUME Init PROVE IdleInv
    OBVIOUS
  <2>1. CommitInv
    BY InitType DEF CommitInv, AppCommitsReached, Init
  <2>2. NothingCommitted
    BY DEF Init, NothingCommitted
  <2>3. NothingAcked
    BY WordAssumption DEF Init, NothingAcked, NoProgress
  <2>. QED  BY <2>1, <2>2, <2>3 DEF IdleInv
<1>2. IdleInv /\ [Next]_vars => IdleInv'
  BY IdleInvInductive
<1>3. IdleInv => NothingCommitted
  BY DEF IdleInv
<1>. QED  BY <1>1, <1>2, <1>3, PTL DEF Spec
-----------------------------------------------------------------------------
(* Match indexes are what was acknowledged; recorded answers stay.          *)

LEMMA NetworkGrows == [Next]_vars => network \subseteq network'
<1>. SUFFICES ASSUME [Next]_vars PROVE network \subseteq network'
  OBVIOUS
<1>1. CASE UNCHANGED vars
  BY <1>1 DEF vars
<1>2. ASSUME NEW s \in Server, StepHup(s) PROVE network \subseteq network'
  BY <1>2 DEF StepHup, Campaign, Send
<1>3. ASSUME NEW s \in Server, Tick(s) PROVE network \subseteq network'
  BY <1>2, <1>3 DEF Tick, TickElection, TickHeatbeat
<1>4. ASSUME NEW s \in Server, NEW m \in Stepped(s), Deliver(s, m)
      PROVE  network \subseteq network'
  <2>1. CASE Ignored(s, m) \/ ReceiveHup(s, m) \/ ReceiveVote(s, m)
    BY <1>2, <2>1 DEF Ignored, ReceiveHup, ReceiveVote
  <2>2. CASE ReceiveVoteResp(s, m) \/ ReceiveAppResp(s, m) \/ ReceiveProp(s, m)
    BY <2>2, BroadcastSendsNothing
       DEF ReceiveVoteResp, ReceiveAppResp, ReceiveProp
  <2>3. CASE ReceiveApp(s, m)
    BY <2>3 DEF ReceiveApp, Send
  <2>. QED  BY <1>4, <2>1, <2>2, <2>3 DEF Deliver
<1>5. ASSUME NEW s \in Server,
             \/ StoreEntries(s)
             \/ \E p \in Peer : SendAppend(s, p) \/ SendHeartbeat(s, p)
      PROVE  network \subseteq network'
  BY <1>5 DEF StoreEntries, SendAppend, SendHeartbeat, Send
<1>. QED  BY <1>1, <1>3, <1>4, <1>5 DEF Next

\* A match index of another voter rises only to what that voter acknowledged.
LEMMA MatchRisesToAck ==
    ASSUME TypeOK, [Next]_vars, NEW s \in Server, NEW v \in Voters \ {s}
    PROVE  \/ prs'[s][v].match = prs[s][v].match
           \/ \E m \in network \cup Inject :
                 /\ m.type = "MsgAppResp" /\ ~m.reject
                 /\ m.from = v /\ m.to = s /\ m.index = prs'[s][v].match
<1>1. CASE UNCHANGED prs
  BY <1>1
<1>2. ASSUME NEW t \in Server, NEW m \in Stepped(t), ReceiveProp(t, m)
      PROVE  prs'[s][v] = prs[s][v]
  BY <1>2 DEF ReceiveProp, TypeOK
<1>3. ASSUME NEW t \in Server, NEW m \in Stepped(t), ReceiveAppResp(t, m),
             m.from \in Voters
      PROVE  \/ prs'[s][v].match = prs[s][v].match
             \/ /\ m \in network \cup Inject
                /\ m.type = "MsgAppResp" /\ ~m.reject
                /\ m.from = v /\ m.to = s /\ m.index = prs'[s][v].match
  <2>1. prs' = [prs EXCEPT ![t] = [prs[t] EXCEPT
                  ![m.from] = MaybeUpdate(prs[t][m.from], m.index)]]
    BY <1>3 DEF ReceiveAppResp
  <2>2. CASE t # s \/ m.from # v
    BY <2>1, <2>2 DEF TypeOK
  <2>3. CASE t = s /\ m.from = v
    <3>1. prs'[s][v] = MaybeUpdate(prs[s][v], m.index)
      BY <2>1, <2>3 DEF TypeOK
    <3>2. prs'[s][v].match \in {prs[s][v].match, m.index}
      BY <3>1 DEF MaybeUpdate, Higher
    <3>3. m \in network \cup Inject
      BY <2>3, SteppedFacts
    <3>. QED  BY <1>3, <2>3, <3>2, <3>3 DEF ReceiveAppResp
  <2>. QED  BY <2>2, <2>3
<1>4. ASSUME NEW t \in Server, NEW m \in Stepped(t), Deliver(t, m)
      PROVE  \/ UNCHANGED prs
             \/ ReceiveProp(t, m)
             \/ ReceiveAppResp(t, m) /\ m.from \in Voters
  <2>1. CASE ReceiveAppResp(t, m) /\ m.from \notin Voters
    BY <2>1 DEF ReceiveAppResp
  <2>2. CASE \/ Ignored(t, m) \/ ReceiveHup(t, m) \/ ReceiveVote(t, m)
             \/ ReceiveVoteResp(t, m) \/ ReceiveApp(t, m)
    BY <2>2 DEF Ignored, ReceiveHup, ReceiveVote, ReceiveVoteResp, ReceiveApp
  <2>. QED  BY <1>4, <2>1, <2>2 DEF Deliver
<1>5. ASSUME NEW t \in Server,
             \/ Tick(t) \/ StoreEntries(t)
             \/ \E p \in Peer : SendAppend(t, p) \/ SendHeartbeat(t, p)
      PROVE  UNCHANGED prs
  BY <1>5 DEF Tick, TickElection, TickHeatbeat, StoreEntries, SendAppend,
              SendHeartbeat
<1>6. CASE UNCHANGED vars
  BY <1>1, <1>6 DEF vars
<1>. QED  BY <1>1, <1>2, <1>3, <1>4, <1>5, <1>6 DEF Next

(***************************************************************************)
(* A match index of another voter is the index of an acknowledgement that  *)
(* voter sent to this server, whatever the network repeats and whatever a  *)
(* batch steps again (raft.cpp:203-226, node.cpp:179-192).                 *)
(***************************************************************************)
THEOREM MatchWasAckedAlways == Spec => []MatchWasAcked
<1>1. Init => MatchWasAcked
  BY DEF Init, MatchWasAcked, NoProgress
<1>2. TypeOK /\ MatchWasAcked /\ [Next]_vars => MatchWasAcked'
  <2>. SUFFICES ASSUME TypeOK, MatchWasAcked, [Next]_vars,
                       NEW s \in Server, NEW v \in Voters \ {s},
                       prs'[s][v].match > 0
                PROVE  \E m \in network' \cup Inject :
                          /\ m.type = "MsgAppResp" /\ ~m.reject
                          /\ m.from = v /\ m.to = s /\ m.index = prs'[s][v].match
    BY DEF MatchWasAcked
  <2>1. \E m \in network \cup Inject :
           /\ m.type = "MsgAppResp" /\ ~m.reject
           /\ m.from = v /\ m.to = s /\ m.index = prs'[s][v].match
    BY MatchRisesToAck DEF MatchWasAcked
  <2>. QED  BY <2>1, NetworkGrows
<1>. QED  BY <1>1, <1>2, TypeInvariant, PTL DEF Spec

(***************************************************************************)
(* No response and no campaign changes or removes the first answer of an   *)
(* id (raft.cpp:369-370).                                                  *)
(***************************************************************************)
THEOREM FirstAnswerAlwaysSticks == Spec => FirstAnswerSticks
<1>. DEFINE Sticks == \A s \in Server : \A p \in DOMAIN votes[s] :
                         p \in DOMAIN votes'[s] /\ votes'[s][p] = votes[s][p]
<1>1. TypeOK /\ [Next]_vars => [Sticks]_vars
  <2>. SUFFICES ASSUME TypeOK, Next PROVE Sticks
    OBVIOUS
  <2>1. CASE UNCHANGED votes
    BY <2>1
  <2>2. ASSUME NEW t \in Server, NEW m \in Stepped(t), ReceiveVoteResp(t, m)
        PROVE  Sticks
    <3>1. votes' = [votes EXCEPT ![t] = Poll(votes[t], m.from, ~m.reject)]
      BY <2>2 DEF ReceiveVoteResp
    <3>2. \A p \in DOMAIN votes[t] :
             /\ p \in DOMAIN Poll(votes[t], m.from, ~m.reject)
             /\ Poll(votes[t], m.from, ~m.reject)[p] = votes[t][p]
      BY DEF Poll
    <3>3. \A s \in Server : votes'[s] = IF s = t THEN Poll(votes[t], m.from, ~m.reject)
                                                 ELSE votes[s]
      BY <3>1 DEF TypeOK
    <3>. QED  BY <3>2, <3>3
  <2>3. ASSUME NEW t \in Server, NEW m \in Stepped(t), Deliver(t, m)
        PROVE  UNCHANGED votes \/ ReceiveVoteResp(t, m)
    BY <2>3 DEF Deliver, Ignored, ReceiveHup, ReceiveVote, ReceiveApp,
                ReceiveAppResp, ReceiveProp
  <2>4. ASSUME NEW t \in Server,
               \/ Tick(t) \/ StoreEntries(t)
               \/ \E p \in Peer : SendAppend(t, p) \/ SendHeartbeat(t, p)
        PROVE  UNCHANGED votes
    BY <2>4 DEF Tick, TickElection, TickHeatbeat, StoreEntries, SendAppend,
                SendHeartbeat
  <2>. QED  BY <2>1, <2>2, <2>3, <2>4 DEF Next
<1>. QED  BY <1>1, TypeInvariant, PTL DEF Spec, FirstAnswerSticks
-----------------------------------------------------------------------------
(* Roles and timers.                                                        *)

\* state_ and step_func_ agree on who leads.
RolesAgree ==
    \A s \in Server : state[s] = "Leader" <=> stepFunc[s] = "StepLeader"

\* What a step on server t may do to the role of server s.
LEMMA RoleSteps ==
    ASSUME TypeOK, RolesAgree, [Next]_vars, NEW s \in Server
    PROVE  \/ state'[s] = state[s] /\ stepFunc'[s] = stepFunc[s]
           \/ /\ state[s] # "Leader"
              /\ state'[s] = "Leader" <=> stepFunc'[s] = "StepLeader"
           \/ /\ TickHeatbeat(s) /\ CheckQuorum
              /\ Inc(electionElapsed[s]) > ElectionTimeout
              /\ state'[s] = "Follower" /\ stepFunc'[s] = "StepFollower"
              /\ lead'[s] = None
<1>. DEFINE Kept(r) == state'[r] = state[r] /\ stepFunc'[r] = stepFunc[r]
            Led(r) == /\ state[r] # "Leader"
                      /\ state'[r] = "Leader" <=> stepFunc'[r] = "StepLeader"
<1>1. CASE UNCHANGED <<state, stepFunc>>
  BY <1>1
<1>2. ASSUME NEW t \in Server, StepHup(t)
      PROVE  Kept(s) \/ Led(s)
  BY <1>2 DEF StepHup, Campaign, BecomeCandidate, roleVars, TypeOK
<1>3. ASSUME NEW t \in Server, TickElection(t)
      PROVE  Kept(s) \/ Led(s)
  <2>1. StepHup(t) \/ UNCHANGED roleVars
    BY <1>3 DEF TickElection
  <2>. QED  BY <1>2, <2>1 DEF roleVars
<1>4. ASSUME NEW t \in Server, TickHeatbeat(t)
      PROVE  \/ Kept(s)
             \/ /\ t = s /\ CheckQuorum
                /\ Inc(electionElapsed[s]) > ElectionTimeout
                /\ state'[s] = "Follower" /\ stepFunc'[s] = "StepFollower"
                /\ lead'[s] = None
  <2>1. CASE UNCHANGED roleVars
    BY <2>1 DEF roleVars
  <2>2. CASE /\ Inc(electionElapsed[t]) > ElectionTimeout /\ CheckQuorum
             /\ BecomeFollower(t, None)
    BY <2>2 DEF BecomeFollower, TypeOK
  <2>. QED  BY <1>4, <2>1, <2>2 DEF TickHeatbeat, StepCheckQuorum
<1>5. ASSUME NEW t \in Server, NEW m \in Stepped(t), ReceiveVoteResp(t, m)
      PROVE  Kept(s) \/ Led(s)
  <2>1. state[t] # "Leader"
    BY <1>5 DEF ReceiveVoteResp, RolesAgree
  <2>2. BecomeLeader(t) \/ BecomeFollower(t, None)
    BY <1>5 DEF ReceiveVoteResp
  <2>. QED  BY <2>1, <2>2 DEF BecomeLeader, BecomeFollower, TypeOK
<1>6. ASSUME NEW t \in Server, NEW m \in Stepped(t), Deliver(t, m)
      PROVE  Kept(s) \/ Led(s)
  <2>1. CASE ReceiveHup(t, m)
    BY <1>2, <2>1 DEF ReceiveHup
  <2>2. CASE \/ Ignored(t, m) \/ ReceiveVote(t, m) \/ ReceiveApp(t, m)
             \/ ReceiveAppResp(t, m) \/ ReceiveProp(t, m)
    BY <2>2 DEF Ignored, ReceiveVote, ReceiveApp, ReceiveAppResp, ReceiveProp, roleVars
  <2>. QED  BY <1>5, <1>6, <2>1, <2>2 DEF Deliver
<1>7. ASSUME NEW t \in Server,
             \/ StoreEntries(t)
             \/ \E p \in Peer : SendAppend(t, p) \/ SendHeartbeat(t, p)
      PROVE  UNCHANGED <<state, stepFunc>>
  BY <1>7 DEF StoreEntries, SendAppend, SendHeartbeat, roleVars
<1>8. CASE UNCHANGED vars
  BY <1>8 DEF vars, roleVars
<1>. QED  BY <1>1, <1>3, <1>4, <1>6, <1>7, <1>8 DEF Next, Tick

LEMMA RolesAgreeInit == Init => RolesAgree
BY DEF Init, RolesAgree

LEMMA RolesAgreeStep == TypeOK /\ RolesAgree /\ [Next]_vars => RolesAgree'
<1>. SUFFICES ASSUME TypeOK, RolesAgree, [Next]_vars, NEW s \in Server
              PROVE  state'[s] = "Leader" <=> stepFunc'[s] = "StepLeader"
  BY DEF RolesAgree
<1>. QED  BY RoleSteps DEF RolesAgree

LEMMA RolesAgreeAlways == Spec => []RolesAgree
BY RolesAgreeInit, RolesAgreeStep, TypeInvariant, PTL DEF Spec

(***************************************************************************)
(* Whatever arrives, a leader leaves office only in a tick of its own that *)
(* finds the election timeout passed and checks the quorum                 *)
(* (raft.cpp:332-350).                                                     *)
(***************************************************************************)
THEOREM LeaderAlwaysKeepsOffice == Spec => LeaderKeepsOffice
<1>. DEFINE Keeps ==
       \A s \in Server :
          state[s] = "Leader" /\ (state'[s] # "Leader" \/ stepFunc'[s] # "StepLeader")
            => /\ CheckQuorum
               /\ electionElapsed[s] >= ElectionTimeout
               /\ electionElapsed'[s] = 0
               /\ stepFunc'[s] = "StepFollower" /\ lead'[s] = None
<1>1. TypeOK /\ RolesAgree /\ [Next]_vars => [Keeps]_vars
  <2>. SUFFICES ASSUME TypeOK, RolesAgree, [Next]_vars, NEW s \in Server,
                       state[s] = "Leader",
                       state'[s] # "Leader" \/ stepFunc'[s] # "StepLeader"
                PROVE  /\ CheckQuorum
                       /\ electionElapsed[s] >= ElectionTimeout
                       /\ electionElapsed'[s] = 0
                       /\ stepFunc'[s] = "StepFollower" /\ lead'[s] = None
    OBVIOUS
  <2>1. /\ TickHeatbeat(s) /\ CheckQuorum
        /\ Inc(electionElapsed[s]) > ElectionTimeout
        /\ stepFunc'[s] = "StepFollower" /\ lead'[s] = None
    BY RoleSteps DEF RolesAgree
  <2>2. electionElapsed[s] >= ElectionTimeout
    BY <2>1, TimeoutAssumption DEF Inc, TypeOK
  <2>3. electionElapsed'[s] = 0
    BY <2>1 DEF TickHeatbeat, TypeOK
  <2>. QED  BY <2>1, <2>2, <2>3
<1>. QED  BY <1>1, TypeInvariant, RolesAgreeAlways, PTL DEF Spec, LeaderKeepsOffice

(***************************************************************************)
(* No storage and no acknowledgement beyond its end lets a leader of a     *)
(* non-zero term commit what it does not store (raft_log.cpp:309-327).     *)
(***************************************************************************)
THEOREM LeaderAlwaysCommitsStored == Spec => LeaderCommitsStored
<1>. DEFINE Stored ==
       \A s \in Server :
          state[s] = "Leader" /\ term[s] # 0 /\ committed'[s] # committed[s]
            => committed'[s] <= lastIndex[s]
<1>1. TypeOK /\ RolesAgree /\ [Next]_vars => [Stored]_vars
  <2>. SUFFICES ASSUME TypeOK, RolesAgree, [Next]_vars, NEW s \in Server,
                       state[s] = "Leader", term[s] # 0, committed'[s] # committed[s]
                PROVE  committed'[s] <= lastIndex[s]
    OBVIOUS
  <2>1. ASSUME NEW t \in Server, NEW p, MaybeCommit(t, p)
        PROVE  committed'[s] <= lastIndex[s]
    <3>1. PICK i \in Word : \E sameTerm \in MatchTerm(t, i, term[t]) :
             committed' = IF i > committed[t] /\ sameTerm
                            THEN [committed EXCEPT ![t] = i] ELSE committed
      BY <2>1 DEF MaybeCommit
    <3>2. PICK sameTerm \in MatchTerm(t, i, term[t]) :
             committed' = IF i > committed[t] /\ sameTerm
                            THEN [committed EXCEPT ![t] = i] ELSE committed
      BY <3>1
    <3>3. t = s /\ sameTerm /\ committed'[s] = i
      BY <3>2 DEF TypeOK
    <3>4. InWindow(s, i)
      BY <3>2, <3>3 DEF MatchTerm
    <3>. QED  BY <3>3, <3>4 DEF InWindow
  <2>2. ASSUME NEW t \in Server, NEW m \in Stepped(t), ReceiveApp(t, m)
        PROVE  FALSE
    <3>1. t # s
      BY <2>2 DEF ReceiveApp, RolesAgree
    <3>2. committed'[s] = committed[s]
      BY <2>2, <3>1 DEF ReceiveApp, TypeOK
    <3>. QED  BY <3>2
  <2>3. ASSUME NEW t \in Server, NEW m \in Stepped(t), Deliver(t, m),
               committed' # committed
        PROVE  \/ ReceiveApp(t, m)
               \/ \E p : MaybeCommit(t, p)
    BY <2>3 DEF Deliver, Ignored, ReceiveHup, ReceiveVote, ReceiveVoteResp,
                ReceiveAppResp, ReceiveProp
  <2>4. ASSUME NEW t \in Server,
               \/ Tick(t) \/ StoreEntries(t)
               \/ \E p \in Peer : SendAppend(t, p) \/ SendHeartbeat(t, p)
        PROVE  UNCHANGED committed
    BY <2>4 DEF Tick, TickElection, TickHeatbeat, StoreEntries, SendAppend,
                SendHeartbeat, logVars
  <2>5. CASE UNCHANGED vars
    BY <2>5 DEF vars, logVars
  <2>. QED  BY <2>1, <2>2, <2>3, <2>4, <2>5 DEF Next
<1>. QED  BY <1>1, TypeInvariant, RolesAgreeAlways, PTL DEF Spec, LeaderCommitsStored

\* What a step may do to the election counter of s.
LEMMA ElapsedSteps ==
    ASSUME TypeOK, [Next]_vars, NEW s \in Server
    PROVE  \/ electionElapsed'[s] \in {electionElapsed[s], 0}
           \/ /\ TickElection(s)
              /\ electionElapsed'[s] = Inc(electionElapsed[s])
              /\ ~TimerFires(s, Inc(electionElapsed[s]))
           \/ /\ TickHeatbeat(s)
              /\ electionElapsed'[s] = Inc(electionElapsed[s])
              /\ Inc(electionElapsed[s]) <= ElectionTimeout
<1>1. ASSUME NEW t \in Server, t # s, Tick(t)
      PROVE  electionElapsed'[s] = electionElapsed[s]
  BY <1>1 DEF Tick, TickElection, TickHeatbeat, TypeOK
<1>2. CASE TickElection(s)
  BY <1>2 DEF TickElection, TypeOK
<1>3. CASE TickHeatbeat(s)
  <2>1. Inc(electionElapsed[s]) \in Nat
    BY CounterTypes DEF TypeOK
  <2>. QED  BY <1>3, <2>1, TimeoutAssumption DEF TickHeatbeat, TypeOK
<1>4. ASSUME NEW t \in Server, NEW m \in Stepped(t), Deliver(t, m)
      PROVE  electionElapsed'[s] \in {electionElapsed[s], 0}
  BY <1>4 DEF Deliver, Ignored, ReceiveHup, ReceiveVote, ReceiveVoteResp, ReceiveApp,
              ReceiveAppResp, ReceiveProp, timerVars, TypeOK
<1>5. ASSUME NEW t \in Server,
             \/ StoreEntries(t)
             \/ \E p \in Peer : SendAppend(t, p) \/ SendHeartbeat(t, p)
      PROVE  electionElapsed' = electionElapsed
  BY <1>5 DEF StoreEntries, SendAppend, SendHeartbeat, timerVars
<1>6. CASE UNCHANGED vars
  BY <1>6 DEF vars, timerVars
<1>. QED  BY <1>1, <1>2, <1>3, <1>4, <1>5, <1>6 DEF Next, Tick

(***************************************************************************)
(* For every timeout: the election counter of a voter stays below twice    *)
(* the timeout, whatever role changes draw (raft.cpp:320-346, 228-232).    *)
(***************************************************************************)
THEOREM ElapsedAlwaysBounded == Spec => []ElapsedBounded
<1>1. Init => ElapsedBounded
  BY TimeoutAssumption DEF Init, ElapsedBounded, Higher
<1>2. TypeOK /\ ElapsedBounded /\ [Next]_vars => ElapsedBounded'
  <2>. SUFFICES ASSUME TypeOK, ElapsedBounded, [Next]_vars, NEW s \in Voters \cap Server
                PROVE  electionElapsed'[s] <= Higher(ElectionTimeout, 2 * ElectionTimeout - 2)
    BY DEF ElapsedBounded
  <2>. DEFINE bound == Higher(ElectionTimeout, 2 * ElectionTimeout - 2)
  <2>1. bound >= 0 /\ bound >= ElectionTimeout /\ bound >= 2 * ElectionTimeout - 2
    BY TimeoutAssumption DEF Higher
  <2>2. electionElapsed[s] <= bound
    BY DEF ElapsedBounded
  <2>3. /\ Inc(electionElapsed[s]) \in Nat
        /\ randomizedTimeout[s] \in Nat /\ randomizedTimeout[s] <= 2 * ElectionTimeout - 1
    BY CounterTypes, TimeoutAssumption DEF TypeOK
  <2>4. CASE electionElapsed'[s] \in {electionElapsed[s], 0}
    BY <2>1, <2>2, <2>4
  <2>5. CASE /\ electionElapsed'[s] = Inc(electionElapsed[s])
             /\ ~TimerFires(s, Inc(electionElapsed[s]))
    <3>1. Inc(electionElapsed[s]) < randomizedTimeout[s]
      BY <2>3, <2>5 DEF TimerFires, Promotable, PastElectionTimeout
    <3>2. Inc(electionElapsed[s]) <= 2 * ElectionTimeout - 2
      BY <2>3, <3>1, TimeoutAssumption
    <3>. QED  BY <2>3, <2>5, <3>2, TimeoutAssumption DEF Higher
  <2>6. CASE /\ electionElapsed'[s] = Inc(electionElapsed[s])
             /\ Inc(electionElapsed[s]) <= ElectionTimeout
    BY <2>1, <2>3, <2>6, TimeoutAssumption DEF Higher
  <2>. QED  BY <2>4, <2>5, <2>6, ElapsedSteps
<1>. QED  BY <1>1, <1>2, TypeInvariant, PTL DEF Spec

-----------------------------------------------------------------------------
(* next_ and match_.                                                        *)

\* A progress that NextAheadOfMatch allows.
Ahead(pr) == pr.match \in {0, MaxWord} \/ pr.match < pr.next

LEMMA MaybeUpdateAhead ==
    ASSUME NEW pr \in ProgressMap, Ahead(pr), NEW n \in Word
    PROVE  Ahead(MaybeUpdate(pr, n))
<1>1. /\ pr.match \in Nat /\ pr.next \in Nat /\ n \in Nat
      /\ pr.match <= MaxWord /\ n <= MaxWord /\ MaxWord \in Nat
  BY WordAssumption DEF ProgressMap, Word
<1>2. /\ MaybeUpdate(pr, n).match = Higher(pr.match, n)
      /\ MaybeUpdate(pr, n).next = Higher(pr.next, WordSucc(n))
  BY DEF MaybeUpdate
<1>3. CASE n = MaxWord
  <2>1. MaybeUpdate(pr, n).match = MaxWord
    BY <1>1, <1>2, <1>3 DEF Higher
  <2>. QED  BY <2>1 DEF Ahead
<1>4. CASE n # MaxWord /\ n > pr.match
  <2>1. MaybeUpdate(pr, n).match = n /\ MaybeUpdate(pr, n).next >= n + 1
    BY <1>1, <1>2, <1>4 DEF Higher, WordSucc
  <2>2. MaybeUpdate(pr, n).next \in Nat
    BY <1>1, <1>2, <1>4 DEF Higher, WordSucc
  <2>. QED  BY <1>1, <2>1, <2>2 DEF Ahead
<1>5. CASE n # MaxWord /\ n <= pr.match
  <2>1. /\ MaybeUpdate(pr, n).match = pr.match /\ MaybeUpdate(pr, n).next >= pr.next
        /\ MaybeUpdate(pr, n).next \in Nat
    BY <1>1, <1>2, <1>5 DEF Higher, WordSucc
  <2>. QED  BY <1>1, <2>1 DEF Ahead
<1>. QED  BY <1>1, <1>3, <1>4, <1>5

\* A map of learners keeps what it allows when an id is touched.
LEMMA TouchLearnerAhead ==
    ASSUME TypeOK, NextAheadOfMatch, NEW t \in Server, NEW id \in Peer,
           NEW s \in Server, NEW p \in DOMAIN TouchLearner(t, id)[s]
    PROVE  Ahead(TouchLearner(t, id)[s][p])
<1>1. \A q \in DOMAIN learnerPrs[s] : Ahead(learnerPrs[s][q])
  BY DEF NextAheadOfMatch, Ahead
<1>2. Ahead(NoProgress)
  BY DEF Ahead, NoProgress
<1>3. CASE TouchLearner(t, id)[s] = learnerPrs[s]
  BY <1>1, <1>3
<1>4. CASE TouchLearner(t, id)[s] # learnerPrs[s]
  <2>. DEFINE old == learnerPrs[s]
              new == [q \in DOMAIN old \cup {id} |-> IF q = id THEN NoProgress ELSE old[q]]
  <2>1. s = t /\ TouchLearner(t, id)[s] = new
    BY <1>4 DEF TouchLearner, TypeOK
  <2>2. \A q \in DOMAIN new : Ahead(new[q])
    BY <1>1, <1>2
  <2>. QED  BY <2>1, <2>2
<1>. QED  BY <1>3, <1>4

LEMMA AheadStep == TypeOK /\ NextAheadOfMatch /\ [Next]_vars => NextAheadOfMatch'
<1>. SUFFICES ASSUME TypeOK, NextAheadOfMatch, [Next]_vars, NEW s \in Server
              PROVE  /\ \A v \in Voters : Ahead(prs'[s][v])
                     /\ \A p \in DOMAIN learnerPrs'[s] : Ahead(learnerPrs'[s][p])
  BY DEF NextAheadOfMatch, Ahead
<1>1. /\ \A v \in Voters : Ahead(prs[s][v]) /\ prs[s][v] \in ProgressMap
      /\ \A p \in DOMAIN learnerPrs[s] : Ahead(learnerPrs[s][p])
  BY DEF NextAheadOfMatch, Ahead, TypeOK
<1>2. ASSUME NEW t \in Server, NEW id \in Peer, learnerPrs' = TouchLearner(t, id)
      PROVE  \A p \in DOMAIN learnerPrs'[s] : Ahead(learnerPrs'[s][p])
  BY <1>2, TouchLearnerAhead
<1>3. ASSUME NEW t \in Server, NEW v \in Voters, NEW n \in Word,
             prs' = [prs EXCEPT ![t] = [prs[t] EXCEPT ![v] = MaybeUpdate(prs[t][v], n)]]
      PROVE  \A w \in Voters : Ahead(prs'[s][w])
  <2>. SUFFICES ASSUME NEW w \in Voters PROVE Ahead(prs'[s][w])
    OBVIOUS
  <2>1. CASE s = t /\ w = v
    <3>1. prs'[s][w] = MaybeUpdate(prs[s][w], n)
      BY <1>3, <2>1 DEF TypeOK
    <3>. QED  BY <1>1, <3>1, MaybeUpdateAhead
  <2>2. CASE ~(s = t /\ w = v)
    <3>1. prs'[s][w] = prs[s][w]
      BY <1>3, <2>2 DEF TypeOK
    <3>. QED  BY <1>1, <3>1
  <2>. QED  BY <2>1, <2>2
<1>4. CASE UNCHANGED <<prs, learnerPrs>>
  BY <1>1, <1>4
<1>5. ASSUME NEW t \in Server, NEW m \in Stepped(t), Receive(t, m), UNCHANGED prs
      PROVE  /\ \A v \in Voters : Ahead(prs'[s][v])
             /\ \A p \in DOMAIN learnerPrs'[s] : Ahead(learnerPrs'[s][p])
  <2>1. m.from \in Peer
    BY SteppedFacts DEF Message
  <2>. QED  BY <1>1, <1>2, <1>5, <2>1 DEF Receive
<1>6. ASSUME NEW t \in Server, NEW m \in Stepped(t), ReceiveProp(t, m)
      PROVE  /\ \A v \in Voters : Ahead(prs'[s][v])
             /\ \A p \in DOMAIN learnerPrs'[s] : Ahead(learnerPrs'[s][p])
  <2>1. m.from \in Peer
    BY SteppedFacts DEF Message
  <2>2. learnerPrs' = TouchLearner(t, m.from) \/ UNCHANGED learnerPrs
    BY <1>6 DEF ReceiveProp, Receive
  <2>3. PICK li \in Word :
           prs' = [prs EXCEPT ![t] = [prs[t] EXCEPT ![t] = MaybeUpdate(prs[t][t], li)]]
    BY <1>6 DEF ReceiveProp
  <2>4. t \in Voters
    BY <1>6 DEF ReceiveProp
  <2>5. \A w \in Voters : Ahead(prs'[s][w])
    BY <1>3, <2>3, <2>4
  <2>. QED  BY <1>1, <1>2, <2>1, <2>2, <2>5
<1>7. ASSUME NEW t \in Server, NEW m \in Stepped(t), ReceiveAppResp(t, m)
      PROVE  /\ \A v \in Voters : Ahead(prs'[s][v])
             /\ \A p \in DOMAIN learnerPrs'[s] : Ahead(learnerPrs'[s][p])
  <2>1. m.from \in Peer /\ m.index \in Word
    BY SteppedFacts DEF Message
  <2>2. CASE m.from \in Voters
    <3>1. /\ prs' = [prs EXCEPT ![t] = [prs[t] EXCEPT
                       ![m.from] = MaybeUpdate(prs[t][m.from], m.index)]]
          /\ UNCHANGED learnerPrs
      BY <1>7, <2>2 DEF ReceiveAppResp
    <3>2. \A w \in Voters : Ahead(prs'[s][w])
      BY <1>3, <2>1, <2>2, <3>1
    <3>. QED  BY <1>1, <3>1, <3>2
  <2>3. CASE m.from \notin Voters
    <3>. DEFINE touched == TouchLearner(t, m.from)
    <3>1. touched \in [Server -> Partial(Peer \ Voters, ProgressMap)]
      BY <2>1, TouchLearnerType DEF TypeOK
    <3>2. /\ learnerPrs' = [touched EXCEPT ![t] =
                              [touched[t] EXCEPT ![m.from] = MaybeUpdate(touched[t][m.from], m.index)]]
          /\ UNCHANGED prs
      BY <1>7, <2>3 DEF ReceiveAppResp
    <3>3. \A p \in DOMAIN touched[s] : Ahead(touched[s][p])
      BY <2>1, TouchLearnerAhead
    <3>4. PICK E \in SUBSET (Peer \ Voters) : touched[s] \in [E -> ProgressMap]
      <4>1. touched[s] \in Partial(Peer \ Voters, ProgressMap)
        BY <3>1
      <4>. QED  BY <4>1 DEF Partial
    <3>. HIDE DEF touched
    <3>5. CASE s # t
      BY <1>1, <3>1, <3>2, <3>3, <3>5
    <3>6. CASE s = t
      <4>1. learnerPrs'[s] = [touched[s] EXCEPT
                                ![m.from] = MaybeUpdate(touched[s][m.from], m.index)]
        BY <3>1, <3>2, <3>6
      <4>2. ASSUME NEW p \in DOMAIN learnerPrs'[s]
            PROVE  Ahead(learnerPrs'[s][p])
        <5>1. p \in E /\ touched[s][p] \in ProgressMap /\ Ahead(touched[s][p])
          BY <3>3, <3>4, <4>1
        <5>2. CASE p = m.from
          BY <2>1, <4>1, <5>1, <5>2, <3>4, MaybeUpdateAhead
        <5>3. CASE p # m.from
          BY <4>1, <5>1, <5>3, <3>4
        <5>. QED  BY <5>2, <5>3
      <4>. QED  BY <1>1, <3>2, <4>2
    <3>. QED  BY <3>5, <3>6
  <2>. QED  BY <2>2, <2>3
<1>8. ASSUME NEW t \in Server, NEW m \in Stepped(t), Deliver(t, m)
      PROVE  \/ Receive(t, m) /\ UNCHANGED prs
             \/ ReceiveProp(t, m) \/ ReceiveAppResp(t, m)
  BY <1>8 DEF Deliver, Ignored, ReceiveHup, ReceiveVote, ReceiveVoteResp, ReceiveApp
<1>9. ASSUME NEW t \in Server, Tick(t)
      PROVE  UNCHANGED prs /\ (UNCHANGED learnerPrs \/ learnerPrs' = TouchLearner(t, t))
  BY <1>9 DEF Tick, TickElection, TickHeatbeat
<1>10. ASSUME NEW t \in Server, NEW p \in Peer, SendAppend(t, p) \/ SendHeartbeat(t, p)
       PROVE  UNCHANGED prs /\ (UNCHANGED learnerPrs \/ learnerPrs' = TouchLearner(t, p))
  BY <1>10 DEF SendAppend, SendHeartbeat
<1>11. ASSUME NEW t \in Server, StoreEntries(t)
       PROVE  UNCHANGED <<prs, learnerPrs>>
  BY <1>11 DEF StoreEntries
<1>12. CASE UNCHANGED vars
  BY <1>4, <1>12 DEF vars
<1>13. ASSUME NEW t \in Server, NEW id \in Peer, UNCHANGED prs,
              UNCHANGED learnerPrs \/ learnerPrs' = TouchLearner(t, id)
       PROVE  /\ \A v \in Voters : Ahead(prs'[s][v])
              /\ \A p \in DOMAIN learnerPrs'[s] : Ahead(learnerPrs'[s][p])
  BY <1>1, <1>2, <1>13
<1>14. CASE Next
  <2>1. PICK t \in Server : \/ Tick(t)
                            \/ \E m \in Stepped(t) : Deliver(t, m)
                            \/ \E p \in Peer : SendAppend(t, p) \/ SendHeartbeat(t, p)
                            \/ StoreEntries(t)
    BY <1>14 DEF Next
  <2>2. t \in Peer
    BY ServerAssumption
  <2>3. CASE Tick(t)
    BY <1>9, <1>13, <2>2, <2>3
  <2>4. CASE \E m \in Stepped(t) : Deliver(t, m)
    BY <1>5, <1>6, <1>7, <1>8, <2>4
  <2>5. CASE \E p \in Peer : SendAppend(t, p) \/ SendHeartbeat(t, p)
    BY <1>10, <1>13, <2>5
  <2>6. CASE StoreEntries(t)
    BY <1>4, <1>11, <2>6
  <2>. QED  BY <2>1, <2>3, <2>4, <2>5, <2>6
<1>. QED  BY <1>12, <1>14

(***************************************************************************)
(* Acknowledgements in any order, of voters and of strangers, leave next_  *)
(* ahead of match_, but for the word whose successor is 0                  *)
(* (progress.cpp:33-47).                                                   *)
(***************************************************************************)
THEOREM NextAlwaysAhead == Spec => []NextAheadOfMatch
<1>1. Init => NextAheadOfMatch
  BY DEF Init, NextAheadOfMatch, NoProgress, EmptyMap
<1>. QED  BY <1>1, AheadStep, TypeInvariant, PTL DEF Spec
=============================================================================
