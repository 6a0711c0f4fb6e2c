--------------------------- MODULE RaftVotesProofs ---------------------------
(***************************************************************************)
(* Who campaigns, who is elected and who hears of it, for any servers,     *)
(* voters, garbage values and injected messages.                           *)
(***************************************************************************)
EXTENDS RaftProofs

-----------------------------------------------------------------------------
(* Elections.  Every grant that is counted was sent, and a leader keeps the *)
(* answers it was elected with.                                             *)

\* p granted a campaign of s.
GrantSent(p, s) ==
    \E m \in network \cup Inject :
        /\ m.type \in {"MsgVoteResp", "MsgPreVoteResp"} /\ ~m.reject
        /\ m.from = p /\ m.to = s

GrantsWereSent ==
    \A s \in Server : \A p \in DOMAIN votes[s] \ {s} : votes[s][p] => GrantSent(p, s)

\* The answers of s suffice, from one of the values Poll may start at.
Elected(s) ==
    \E unset \in GrantGarbage :
        unset + Cardinality({p \in DOMAIN votes[s] : votes[s][p]}) > Quorum

LeadersElected == \A s \in Server : stepFunc[s] = "StepLeader" => Elected(s)

\* A step changes the answers of s only by a response that a candidate counts.
LEMMA AnswerSteps ==
    ASSUME TypeOK, [Next]_vars, NEW s \in Server
    PROVE  \/ votes'[s] = votes[s]
           \/ \E m \in Stepped(s) :
                 /\ ReceiveVoteResp(s, m)
                 /\ votes'[s] = Poll(votes[s], m.from, ~m.reject)
<1>1. CASE UNCHANGED votes
  BY <1>1
<1>2. ASSUME NEW t \in Server, NEW m \in Stepped(t), ReceiveVoteResp(t, m)
      PROVE  votes'[s] = votes[s] \/ (t = s /\ votes'[s] = Poll(votes[s], m.from, ~m.reject))
  <2>1. votes' = [votes EXCEPT ![t] = Poll(votes[t], m.from, ~m.reject)]
    BY <1>2 DEF ReceiveVoteResp
  <2>. QED  BY <2>1 DEF TypeOK
<1>3. ASSUME NEW t \in Server, NEW m \in Stepped(t), Deliver(t, m)
      PROVE  UNCHANGED votes \/ ReceiveVoteResp(t, m)
  BY <1>3 DEF Deliver, Ignored, ReceiveHup, ReceiveVote, ReceiveApp,
              ReceiveAppResp, ReceiveProp
<1>4. ASSUME NEW t \in Server,
             \/ Tick(t) \/ StoreEntries(t)
             \/ \E p \in Peer : SendAppend(t, p) \/ SendHeartbeat(t, p)
      PROVE  UNCHANGED votes
  BY <1>4 DEF Tick, TickElection, TickHeatbeat, StoreEntries, SendAppend,
              SendHeartbeat
<1>5. CASE UNCHANGED vars
  BY <1>5 DEF vars
<1>. QED  BY <1>1, <1>2, <1>3, <1>4, <1>5 DEF Next

\* A server that leads after a step led before it, or has just been elected.
LEMMA LeaderSteps ==
    ASSUME TypeOK, [Next]_vars, NEW s \in Server, stepFunc'[s] = "StepLeader"
    PROVE  stepFunc[s] = "StepLeader" \/ Elected(s)'
<1>1. CASE UNCHANGED stepFunc
  BY <1>1
<1>2. ASSUME NEW t \in Server, StepHup(t) PROVE stepFunc[s] = "StepLeader"
  BY <1>2 DEF StepHup, Campaign, BecomeCandidate, roleVars, TypeOK
<1>3. ASSUME NEW t \in Server, Tick(t) PROVE stepFunc[s] = "StepLeader"
  <2>1. StepHup(t) \/ UNCHANGED stepFunc \/ BecomeFollower(t, None)
    BY <1>3 DEF Tick, TickElection, TickHeatbeat, StepCheckQuorum, roleVars
  <2>. QED  BY <1>2, <2>1 DEF BecomeFollower, TypeOK
<1>4. ASSUME NEW t \in Server, NEW m \in Stepped(t), ReceiveVoteResp(t, m)
      PROVE  stepFunc[s] = "StepLeader" \/ Elected(s)'
  <2>1. CASE t # s
    BY <1>4, <2>1 DEF ReceiveVoteResp, BecomeLeader, BecomeFollower, TypeOK
  <2>2. CASE t = s
    <3>1. PICK unset \in GrantGarbage :
             IF Wins(unset + Cardinality({q \in DOMAIN votes'[s] : votes'[s][q]}))
               THEN BecomeLeader(s) ELSE BecomeFollower(s, None)
      BY <1>4, <2>2 DEF ReceiveVoteResp
    <3>2. ~BecomeFollower(s, None)
      BY DEF BecomeFollower, TypeOK
    <3>. QED  BY <3>1, <3>2 DEF Elected, Wins
  <2>. QED  BY <2>1, <2>2
<1>5. ASSUME NEW t \in Server, NEW m \in Stepped(t), Deliver(t, m)
      PROVE  UNCHANGED stepFunc \/ StepHup(t) \/ ReceiveVoteResp(t, m)
  BY <1>5 DEF Deliver, Ignored, ReceiveHup, ReceiveVote, ReceiveApp,
              ReceiveAppResp, ReceiveProp, roleVars
<1>6. ASSUME NEW t \in Server,
             \/ StoreEntries(t)
             \/ \E p \in Peer : SendAppend(t, p) \/ SendHeartbeat(t, p)
      PROVE  UNCHANGED stepFunc
  BY <1>6 DEF StoreEntries, SendAppend, SendHeartbeat, roleVars
<1>7. CASE UNCHANGED vars
  BY <1>1, <1>7 DEF vars, roleVars
<1>. QED  BY <1>1, <1>2, <1>3, <1>4, <1>5, <1>6, <1>7 DEF Next

LEMMA GrantsStep ==
    ASSUME TypeOK, GrantsWereSent, [Next]_vars
    PROVE  GrantsWereSent'
<1>. SUFFICES ASSUME NEW s \in Server, NEW p \in DOMAIN votes'[s] \ {s}, votes'[s][p]
              PROVE  GrantSent(p, s)'
  BY DEF GrantsWereSent
<1>1. ASSUME GrantSent(p, s) PROVE GrantSent(p, s)'
  BY <1>1, NetworkGrows DEF GrantSent
<1>2. CASE votes'[s] = votes[s]
  BY <1>1, <1>2 DEF GrantsWereSent
<1>3. ASSUME NEW m \in Stepped(s), ReceiveVoteResp(s, m),
             votes'[s] = Poll(votes[s], m.from, ~m.reject)
      PROVE  GrantSent(p, s)'
  <2>1. CASE p \in DOMAIN votes[s]
    BY <1>1, <1>3, <2>1 DEF Poll, GrantsWereSent
  <2>2. CASE p \notin DOMAIN votes[s]
    <3>1. p = m.from /\ ~m.reject
      BY <1>3, <2>2 DEF Poll
    <3>2. m \in network \cup Inject
      BY <3>1, SteppedFacts
    <3>3. GrantSent(p, s)
      BY <1>3, <3>1, <3>2 DEF ReceiveVoteResp, Receive, GrantSent
    <3>. QED  BY <1>1, <3>3
  <2>. QED  BY <2>1, <2>2
<1>. QED  BY <1>2, <1>3, AnswerSteps

LEMMA ElectedStep ==
    ASSUME TypeOK, LeadersElected, [Next]_vars
    PROVE  LeadersElected'
<1>. SUFFICES ASSUME NEW s \in Server, stepFunc'[s] = "StepLeader"
              PROVE  Elected(s)'
  BY DEF LeadersElected
<1>1. CASE Elected(s)'
  BY <1>1
<1>2. CASE stepFunc[s] = "StepLeader"
  <2>1. votes'[s] = votes[s]
    BY <1>2, AnswerSteps DEF ReceiveVoteResp
  <2>2. Elected(s)
    BY <1>2 DEF LeadersElected
  <2>. QED  BY <2>1, <2>2 DEF Elected
<1>. QED  BY <1>1, <1>2, LeaderSteps

(***************************************************************************)
(* Whoever leads was granted its campaigns by more ids than the quorum, up *)
(* to the value Poll starts from, and all of them but itself sent the      *)
(* grant; however the answers are repeated, reordered or late              *)
(* (raft.cpp:136-146, 361-379).                                            *)
(***************************************************************************)
THEOREM LeaderWasElectedAlways == Spec => []LeaderWasElected
<1>1. Init => GrantsWereSent /\ LeadersElected
  BY DEF Init, GrantsWereSent, LeadersElected, EmptyMap
<1>2. GrantsWereSent /\ LeadersElected => LeaderWasElected
  BY DEF GrantsWereSent, LeadersElected, LeaderWasElected, GrantSent, Elected
<1>3. /\ TypeOK /\ GrantsWereSent /\ [Next]_vars => GrantsWereSent'
      /\ TypeOK /\ LeadersElected /\ [Next]_vars => LeadersElected'
  BY GrantsStep, ElectedStep
<1>. QED  BY <1>1, <1>2, <1>3, TypeInvariant, PTL DEF Spec
-----------------------------------------------------------------------------
(* What is sent while the application does not call SendAppend, the only    *)
(* method that sends a MsgApp or, when it fails, a MsgHup.                  *)

NoSendAppend == "SendAppend" \notin PublicSends

NoHup  == \A m \in network : m.type # "MsgHup"
NoApps == \A m \in network : m.type # "MsgApp"

LEMMA SentTypes ==
    ASSUME [Next]_vars, NEW m \in network', m \notin network
    PROVE  \/ m.type \in {"MsgVote", "MsgAppResp", "MsgHeartbeat"}
           \/ ~NoSendAppend /\ m.type \in {"MsgApp", "MsgHup"}
<1>. DEFINE Known(r) == \/ r.type \in {"MsgVote", "MsgAppResp", "MsgHeartbeat"}
                        \/ ~NoSendAppend /\ r.type \in {"MsgApp", "MsgHup"}
<1>1. ASSUME NEW s \in Server, StepHup(s) PROVE Known(m)
  <2>. DEFINE votesAsked == {[Msg("MsgVote", s, v) EXCEPT !.term = term[s]] :
                                v \in Voters \ {s}}
  <2>1. Send({}) \/ Send(votesAsked)
    BY <1>1 DEF StepHup, Campaign
  <2>2. \A r \in votesAsked : Known(r)
    BY DEF Msg
  <2>. HIDE DEF votesAsked, Known
  <2>. QED  BY <2>1, <2>2 DEF Send
<1>2. ASSUME NEW s \in Server, Tick(s) PROVE Known(m)
  <2>1. StepHup(s)
    BY <1>2 DEF Tick, TickElection, TickHeatbeat
  <2>. QED  BY <1>1, <2>1
<1>3. ASSUME NEW s \in Server, NEW r \in Stepped(s), Deliver(s, r) PROVE Known(m)
  <2>1. ~Ignored(s, r) /\ ~ReceiveVote(s, r)
    BY DEF Ignored, ReceiveVote
  <2>2. ~ReceiveVoteResp(s, r) /\ ~ReceiveAppResp(s, r) /\ ~ReceiveProp(s, r)
    BY BroadcastSendsNothing DEF ReceiveVoteResp, ReceiveAppResp, ReceiveProp
  <2>3. CASE ReceiveApp(s, r)
    <3>. DEFINE resp  == Msg("MsgAppResp", s, r.from)
                stale == IF r.index < committed[s]
                           THEN {[resp EXCEPT !.index = committed[s]]} ELSE {}
                taken == stale \cup {[resp EXCEPT !.index = r.commit]}
                refused == stale \cup {[resp EXCEPT !.index = r.index, !.reject = TRUE]}
    <3>1. Send(taken) \/ Send(refused)
      BY <2>3 DEF ReceiveApp
    <3>2. \A q \in taken \cup refused : Known(q)
      BY DEF Msg
    <3>. HIDE DEF taken, refused, Known
    <3>. QED  BY <3>1, <3>2 DEF Send
  <2>. QED  BY <1>1, <1>3, <2>1, <2>2, <2>3 DEF Deliver, ReceiveHup
<1>4. ASSUME NEW s \in Server,
             StoreEntries(s) \/ \E p \in Peer : SendAppend(s, p) \/ SendHeartbeat(s, p)
      PROVE  Known(m)
  <2>1. ASSUME NEW p \in Peer, SendAppend(s, p) PROVE Known(m)
    <3>1. PICK pr : m \in AppendMsgs(s, p, pr, committed[s])
      BY <2>1 DEF SendAppend, Send
    <3>2. \A r \in AppendMsgs(s, p, pr, committed[s]) : r.type \in {"MsgApp", "MsgHup"}
      <4>. TAKE r \in AppendMsgs(s, p, pr, committed[s])
      <4>1. \/ r = Msg("MsgHup", s, p)
            \/ \E t : r = [Msg("MsgApp", s, p) EXCEPT
                             !.index = WordPred(pr.next), !.term = t,
                             !.commit = committed[s]]
        BY Zenon DEF AppendMsgs
      <4>2. CASE r = Msg("MsgHup", s, p)
        BY <4>2 DEF Msg
      <4>3. CASE r # Msg("MsgHup", s, p)
        <5>1. PICK t : r = [Msg("MsgApp", s, p) EXCEPT
                              !.index = WordPred(pr.next), !.term = t,
                              !.commit = committed[s]]
          BY <4>1, <4>3
        <5>. QED  BY <5>1 DEF Msg
      <4>. QED  BY <4>2, <4>3
    <3>3. ~NoSendAppend
      BY <2>1 DEF SendAppend, NoSendAppend
    <3>. QED  BY <3>1, <3>2, <3>3
  <2>. QED  BY <1>4, <2>1 DEF StoreEntries, SendHeartbeat, Send, Msg
<1>5. ~ UNCHANGED vars
  BY DEF vars
<1>. QED  BY <1>2, <1>3, <1>4, <1>5 DEF Next

LEMMA NoHupStep == NoSendAppend /\ NoHup /\ [Next]_vars => NoHup'
BY SentTypes DEF NoHup

LEMMA NoAppsStep == NoSendAppend /\ NoApps /\ [Next]_vars => NoApps'
BY SentTypes DEF NoApps

-----------------------------------------------------------------------------
(* Silence.  With no MsgApp ever sent a server decides all it commits, and  *)
(* hears of no leader but itself.                                           *)

\* The commit index of s rests on its own match indexes.
OwnDecision(s) ==
    committed[s] > Snapshot => MatchedBy(prs[s], committed[s]) \in Majorities

LEMMA LeadStep ==
    ASSUME TypeOK, NoApps, [Next]_vars, NEW s \in Server
    PROVE  lead'[s] \in {lead[s], None, s}
<1>1. CASE UNCHANGED lead
  BY <1>1
<1>2. ASSUME NEW t \in Server, BecomeFollower(t, None) \/ BecomeLeader(t)
      PROVE  lead'[s] \in {lead[s], None, s}
  BY <1>2 DEF BecomeFollower, BecomeLeader, TypeOK
<1>3. ASSUME NEW t \in Server, StepHup(t) PROVE UNCHANGED lead
  BY <1>3 DEF StepHup, Campaign, BecomeCandidate, roleVars
<1>4. ASSUME NEW t \in Server, Tick(t)
      PROVE  UNCHANGED lead \/ BecomeFollower(t, None)
  BY <1>3, <1>4 DEF Tick, TickElection, TickHeatbeat, StepCheckQuorum, roleVars
<1>5. ASSUME NEW t \in Server, NEW m \in Stepped(t), Deliver(t, m)
      PROVE  UNCHANGED lead \/ BecomeFollower(t, None) \/ BecomeLeader(t)
  <2>1. ~ReceiveApp(t, m)
    BY SteppedFacts, InjectAssumption DEF ReceiveApp, NoApps
  <2>. QED  BY <1>3, <1>5, <2>1
            DEF Deliver, Ignored, ReceiveHup, ReceiveVote, ReceiveVoteResp,
                ReceiveAppResp, ReceiveProp, roleVars
<1>6. ASSUME NEW t \in Server,
             \/ StoreEntries(t)
             \/ \E p \in Peer : SendAppend(t, p) \/ SendHeartbeat(t, p)
      PROVE  UNCHANGED lead
  BY <1>6 DEF StoreEntries, SendAppend, SendHeartbeat, roleVars
<1>7. CASE UNCHANGED vars
  BY <1>1, <1>7 DEF vars, roleVars
<1>. QED  BY <1>1, <1>2, <1>4, <1>5, <1>6, <1>7 DEF Next

\* Without a MsgApp no server learns a commit index.
LEMMA SilentStep ==
    ASSUME TypeOK, TypeOK', NoApps, [Next]_vars
    PROVE  (\E t \in Server : QC!Decide(t)) \/ UNCHANGED <<committed, prs>>
<1>1. ASSUME NEW t \in Server, NEW m \in Stepped(t), Deliver(t, m)
      PROVE  QC!Decide(t) \/ UNCHANGED <<committed, prs>>
  <2>1. ~ReceiveApp(t, m)
    BY SteppedFacts, InjectAssumption DEF ReceiveApp, NoApps
  <2>2. CASE ReceiveAppResp(t, m) \/ ReceiveProp(t, m)
    BY <2>2, ReceiveAppRespDecides, ReceivePropDecides
  <2>3. CASE Ignored(t, m) \/ ReceiveHup(t, m) \/ ReceiveVote(t, m)
               \/ ReceiveVoteResp(t, m)
    BY <2>3 DEF Ignored, ReceiveHup, ReceiveVote, ReceiveVoteResp
  <2>. QED  BY <1>1, <2>1, <2>2, <2>3 DEF Deliver
<1>2. ASSUME NEW t \in Server,
             \/ Tick(t) \/ StoreEntries(t)
             \/ \E p \in Peer : SendAppend(t, p) \/ SendHeartbeat(t, p)
      PROVE  UNCHANGED <<committed, prs>>
  BY <1>2 DEF Tick, TickElection, TickHeatbeat, StoreEntries, SendAppend,
              SendHeartbeat, logVars
<1>3. CASE UNCHANGED vars
  BY <1>3 DEF vars, logVars
<1>. QED  BY <1>1, <1>2, <1>3 DEF Next

LEMMA OwnDecisionStep ==
    ASSUME TypeOK, TypeOK', NoApps, [Next]_vars, NEW s \in Server, OwnDecision(s)
    PROVE  OwnDecision(s)'
<1>1. CASE UNCHANGED <<committed, prs>>
  BY <1>1 DEF OwnDecision, MatchedBy
<1>2. ASSUME NEW t \in Server, QC!Decide(t)
      PROVE  OwnDecision(s)'
  <2>1. PICK a \in [Voters -> Word] :
           (\A v \in Voters : a[v] >= Match[t][v]) /\ Match' = [Match EXCEPT ![t] = a]
    BY <1>2 DEF QC!Decide, QC!Word, Word
  <2>2. PICK i \in Word :
           /\ i > committed[t] => QC!QuorumAcked(Match'[t], i)
           /\ i >= committed[t]
           /\ committed' = [committed EXCEPT ![t] = i]
    BY <1>2 DEF QC!Decide, QC!Word, Word
  <2>3. /\ committed \in [Server -> Word]
        /\ Match \in [Server -> [Voters -> Word]]
        /\ \A v \in Voters : Match[s][v] = prs[s][v].match
        /\ \A v \in Voters : Match'[s][v] = prs'[s][v].match
    BY MatchFacts DEF TypeOK, Match, ProgressMap
  <2>4. CASE t # s
    <3>1. committed'[s] = committed[s] /\ Match'[s] = Match[s]
      BY <2>1, <2>2, <2>3, <2>4
    <3>2. MatchedBy(prs'[s], committed'[s]) = MatchedBy(prs[s], committed[s])
      BY <2>3, <3>1 DEF MatchedBy
    <3>. QED  BY <3>1, <3>2 DEF OwnDecision
  <2>5. CASE t = s /\ i > committed[s]
    <3>1. committed'[s] = i
      BY <2>2, <2>3, <2>5
    <3>2. QC!Ackers(Match'[s], i) = MatchedBy(prs'[s], i)
      BY <2>3 DEF QC!Ackers, MatchedBy
    <3>. QED  BY <2>2, <2>5, <3>1, <3>2 DEF QC!QuorumAcked, OwnDecision
  <2>6. CASE t = s /\ ~(i > committed[s])
    <3>1. committed'[s] = committed[s]
      <4>1. committed'[s] = i /\ committed[s] \in Word /\ i >= committed[s]
        BY <2>2, <2>3, <2>6
      <4>2. i \in Nat /\ committed[s] \in Nat
        BY <4>1, WordFacts
      <4>. QED  BY <2>6, <4>1, <4>2
    <3>2. MatchedBy(prs[s], committed[s]) \subseteq MatchedBy(prs'[s], committed[s])
      <4>1. \A v \in Voters : /\ prs[s][v].match \in Nat /\ prs'[s][v].match \in Nat
                              /\ prs'[s][v].match >= prs[s][v].match
        BY <2>1, <2>3, <2>6, MatchFacts DEF TypeOK, ProgressMap, Word
      <4>2. committed[s] \in Nat
        BY <2>3 DEF Word
      <4>. QED  BY <4>1, <4>2 DEF MatchedBy
    <3>3. MatchedBy(prs'[s], committed[s]) \in SUBSET Voters
      BY DEF MatchedBy
    <3>. QED  BY <3>1, <3>2, <3>3, MajoritiesAssumption
              DEF OwnDecision, P!QuorumCommitAssumption
  <2>. QED  BY <2>4, <2>5, <2>6
<1>. QED  BY <1>1, <1>2, SilentStep

(***************************************************************************)
(* Unless the application calls SendAppend, no server of any cluster ever  *)
(* hears of another one that leads, and each commits only what a majority  *)
(* acknowledged to it itself (raft.cpp:81-87, 117-124, 161-165, 542-552).  *)
(***************************************************************************)
THEOREM LeadersStayUnknownAlways ==
    ASSUME NoSendAppend
    PROVE  Spec => []LeadersStayUnknown
<1>. DEFINE Inv == TypeOK /\ NoApps /\ LeadersStayUnknown
<1>1. Init => Inv
  <2>. SUFFICES ASSUME Init PROVE Inv
    OBVIOUS
  <2>1. NoApps /\ LeadersStayUnknown
    BY WordAssumption DEF Init, NoApps, LeadersStayUnknown
  <2>. QED  BY <2>1, InitType
<1>2. Inv /\ [Next]_vars => Inv'
  <2>. SUFFICES ASSUME Inv, [Next]_vars PROVE Inv'
    OBVIOUS
  <2>1. TypeOK' /\ NoApps'
    BY NextType, NoAppsStep
  <2>2. ASSUME NEW s \in Server
        PROVE  lead'[s] \in {None, s} /\ OwnDecision(s)'
    <3>1. lead[s] \in {None, s} /\ OwnDecision(s)
      BY DEF LeadersStayUnknown, OwnDecision
    <3>. QED  BY <2>1, <3>1, LeadStep, OwnDecisionStep
  <2>. QED  BY <2>1, <2>2 DEF LeadersStayUnknown, OwnDecision
<1>3. Inv => LeadersStayUnknown
  OBVIOUS
<1>. QED  BY <1>1, <1>2, <1>3, PTL DEF Spec

-----------------------------------------------------------------------------
(* Who campaigns.                                                           *)

\* Nobody tells a server to campaign.
NoHupFromPeers == NoSendAppend /\ \A m \in Inject : m.type # "MsgHup"

\* A server that never was in the progress list makes no step that campaigns.
LEMMA StrangerStep ==
    ASSUME NoHupFromPeers, TypeOK, NoHup, OnlyVotersCampaign, [Next]_vars,
           NEW s \in Server \ Voters
    PROVE  stepFunc'[s] = "StepFollower" /\ state'[s] = "Follower"
<1>. DEFINE Idle == stepFunc'[s] = "StepFollower" /\ state'[s] = "Follower"
<1>1. stepFunc[s] = "StepFollower" /\ state[s] = "Follower"
  BY DEF OnlyVotersCampaign
<1>2. CASE UNCHANGED roleVars
  BY <1>1, <1>2 DEF roleVars
<1>3. ASSUME NEW t \in Server, StepHup(t), t # s PROVE Idle
  BY <1>1, <1>3 DEF StepHup, Campaign, BecomeCandidate, roleVars, TypeOK
<1>4. ASSUME NEW t \in Server, Tick(t) PROVE Idle
  <2>1. CASE TickElection(t)
    <3>1. (StepHup(t) /\ t # s) \/ UNCHANGED roleVars
      BY <2>1 DEF TickElection, TimerFires, Promotable
    <3>. QED  BY <1>2, <1>3, <3>1
  <2>2. CASE TickHeatbeat(t)
    BY <1>1, <1>2, <2>2 DEF TickHeatbeat, StepCheckQuorum, BecomeFollower, TypeOK
  <2>. QED  BY <1>4, <2>1, <2>2 DEF Tick
<1>5. ASSUME NEW t \in Server, NEW m \in Stepped(t), Deliver(t, m) PROVE Idle
  <2>1. ~ReceiveHup(t, m)
    BY SteppedFacts DEF ReceiveHup, NoHupFromPeers, NoHup
  <2>2. CASE ReceiveVoteResp(t, m)
    <3>1. t # s
      BY <1>1, <2>2 DEF ReceiveVoteResp
    <3>. QED  BY <1>1, <2>2, <3>1
              DEF ReceiveVoteResp, BecomeLeader, BecomeFollower, TypeOK
  <2>3. CASE Ignored(t, m) \/ ReceiveVote(t, m) \/ ReceiveApp(t, m)
               \/ ReceiveAppResp(t, m) \/ ReceiveProp(t, m)
    BY <1>1, <2>3 DEF Ignored, ReceiveVote, ReceiveApp, ReceiveAppResp,
                      ReceiveProp, roleVars
  <2>. QED  BY <1>5, <2>1, <2>2, <2>3 DEF Deliver
<1>6. ASSUME NEW t \in Server,
             \/ StoreEntries(t)
             \/ \E p \in Peer : SendAppend(t, p) \/ SendHeartbeat(t, p)
      PROVE  UNCHANGED roleVars
  BY <1>6 DEF StoreEntries, SendAppend, SendHeartbeat, roleVars
<1>7. CASE UNCHANGED vars
  BY <1>2, <1>7 DEF vars
<1>. QED  BY <1>2, <1>4, <1>5, <1>6, <1>7 DEF Next

(***************************************************************************)
(* "... true when its own id is in progress list" (raft.h:101-102): as     *)
(* long as nobody sends a MsgHup, which is stepped without asking, no      *)
(* other server campaigns or leads, whatever answers reach it              *)
(* (raft.cpp:236-250, 332-337).                                            *)
(***************************************************************************)
THEOREM OnlyVotersCampaignAlways ==
    ASSUME NoHupFromPeers
    PROVE  Spec => []OnlyVotersCampaign
<1>1. Init => NoHup /\ OnlyVotersCampaign
  BY DEF Init, NoHup, OnlyVotersCampaign
<1>2. NoHup /\ [Next]_vars => NoHup'
  BY NoHupStep DEF NoHupFromPeers
<1>3. TypeOK /\ NoHup /\ OnlyVotersCampaign /\ [Next]_vars => OnlyVotersCampaign'
  BY StrangerStep DEF OnlyVotersCampaign
<1>. QED  BY <1>1, <1>2, <1>3, TypeInvariant, PTL DEF Spec

-----------------------------------------------------------------------------
(* Only an answer makes a leader, and no server of this code answers.       *)

Answers == {"MsgVoteResp", "MsgPreVoteResp"}

NoAnswers == \A m \in network : m.type \notin Answers

LEMMA NoAnswersStep == NoAnswers /\ [Next]_vars => NoAnswers'
BY SentTypes DEF NoAnswers, Answers

\* s neither leads nor has the role of a leader.
OutOfOffice(s) == stepFunc[s] # "StepLeader" /\ state[s] = "Follower"

\* A server comes into office only by an answer.
LEMMA OfficeStep ==
    ASSUME TypeOK, [Next]_vars, NEW s \in Server, OutOfOffice(s),
           \A m \in Stepped(s) : ~ReceiveVoteResp(s, m)
    PROVE  OutOfOffice(s)'
<1>1. CASE UNCHANGED roleVars
  BY <1>1 DEF roleVars, OutOfOffice
<1>2. ASSUME NEW t \in Server, StepHup(t) PROVE OutOfOffice(s)'
  BY <1>1, <1>2 DEF StepHup, Campaign, BecomeCandidate, OutOfOffice, TypeOK
<1>3. ASSUME NEW t \in Server, Tick(t) PROVE OutOfOffice(s)'
  <2>1. StepHup(t) \/ UNCHANGED roleVars \/ BecomeFollower(t, None)
    BY <1>3 DEF Tick, TickElection, TickHeatbeat, StepCheckQuorum
  <2>2. CASE BecomeFollower(t, None)
    BY <2>2 DEF BecomeFollower, OutOfOffice, TypeOK
  <2>. QED  BY <1>1, <1>2, <2>1, <2>2
<1>4. ASSUME NEW t \in Server, NEW m \in Stepped(t), Deliver(t, m)
      PROVE  OutOfOffice(s)'
  <2>1. CASE ReceiveVoteResp(t, m)
    <3>1. t # s
      BY <2>1
    <3>. QED  BY <2>1, <3>1 DEF ReceiveVoteResp, BecomeLeader, BecomeFollower,
                                OutOfOffice, TypeOK
  <2>2. CASE ~ReceiveVoteResp(t, m)
    <3>1. UNCHANGED <<stepFunc, state>> \/ StepHup(t)
      BY <1>4, <2>2 DEF Deliver, Ignored, ReceiveHup, ReceiveVote, ReceiveApp,
                        ReceiveAppResp, ReceiveProp, roleVars
    <3>. QED  BY <1>2, <3>1 DEF OutOfOffice
  <2>. QED  BY <2>1, <2>2
<1>5. ASSUME NEW t \in Server,
             \/ StoreEntries(t)
             \/ \E p \in Peer : SendAppend(t, p) \/ SendHeartbeat(t, p)
      PROVE  UNCHANGED roleVars
  BY <1>5 DEF StoreEntries, SendAppend, SendHeartbeat
<1>6. CASE UNCHANGED vars
  BY <1>1, <1>6 DEF vars
<1>. QED  BY <1>1, <1>3, <1>4, <1>5, <1>6 DEF Next

\* Without an answer to s under way none is stepped, batched or not.
LEMMA NoneStepped ==
    ASSUME TypeOK, NoAnswers, NEW s \in Server,
           \A m \in Inject : m.to = s => m.type \notin Answers,
           NEW m \in Stepped(s)
    PROVE  ~ReceiveVoteResp(s, m)
<1>. SUFFICES ASSUME ReceiveVoteResp(s, m) PROVE FALSE
  OBVIOUS
<1>1. m.type \in Answers /\ m.to = s
  BY DEF ReceiveVoteResp, Receive, Answers
<1>2. PICK o \in network \cup Inject : m = o \/ m = [o EXCEPT !.from = s]
  BY DEF Stepped
<1>3. o \in Message
  BY InjectAssumption DEF TypeOK
<1>4. m.type = o.type /\ m.to = o.to
  BY <1>2, <1>3 DEF Message
<1>. QED  BY <1>1, <1>2, <1>4 DEF NoAnswers

(***************************************************************************)
(* Whoever leads was answered by a peer that runs other code: the          *)
(* response to a granted vote is never sent, and nothing else than an      *)
(* answer ends a campaign in office (raft.cpp:136-146, 281-302).           *)
(***************************************************************************)
THEOREM OnlyAnsweredLeadAlways == Spec => []OnlyAnsweredLead
<1>. DEFINE Inv == NoAnswers /\ OnlyAnsweredLead
<1>1. Init => Inv
  BY DEF Init, NoAnswers, OnlyAnsweredLead
<1>2. TypeOK /\ Inv /\ [Next]_vars => Inv'
  <2>. SUFFICES ASSUME TypeOK, Inv, [Next]_vars PROVE Inv'
    OBVIOUS
  <2>1. NoAnswers'
    BY NoAnswersStep
  <2>2. ASSUME NEW s \in Server, \A m \in Inject : m.to = s => m.type \notin Answers
        PROVE  OutOfOffice(s)'
    <3>1. OutOfOffice(s)
      BY <2>2 DEF OnlyAnsweredLead, OutOfOffice, Answers
    <3>. QED  BY <2>2, <3>1, OfficeStep, NoneStepped
  <2>3. OnlyAnsweredLead'
    BY <2>2 DEF OnlyAnsweredLead, OutOfOffice, Answers
  <2>. QED  BY <2>1, <2>3
<1>. QED  BY <1>1, <1>2, TypeInvariant, PTL DEF Spec

-----------------------------------------------------------------------------
(* A cluster of this code alone.                                            *)

\* Nobody leads or hears of a leader, and nothing is committed.
NobodyIsElected ==
    \A s \in Server :
        /\ stepFunc[s] # "StepLeader" /\ state[s] = "Follower"
        /\ lead[s] = None /\ committed[s] = Snapshot

\* No peer answers a vote request.
NoForeignAnswers == \A m \in Inject : m.type \notin Answers

\* Nothing but vote requests is ever under way.
AloneInv ==
    /\ TypeOK /\ NobodyIsElected
    /\ \A m \in network : m.type = "MsgVote"

LEMMA AloneStep ==
    ASSUME NoForeignAnswers, AloneInv, [Next]_vars
    PROVE  /\ UNCHANGED <<lead, committed>>
           /\ \A s \in Server : stepFunc'[s] # "StepLeader" /\ state'[s] = "Follower"
           /\ \A m \in network' : m.type = "MsgVote"
<1>. DEFINE Kept == /\ UNCHANGED <<lead, committed>>
                    /\ \A s \in Server : stepFunc'[s] # "StepLeader" /\ state'[s] = "Follower"
                    /\ \A m \in network' : m.type = "MsgVote"
<1>1. /\ \A s \in Server : stepFunc[s] # "StepLeader" /\ state[s] = "Follower"
      /\ \A m \in network : m.type = "MsgVote"
  BY DEF AloneInv, NobodyIsElected
<1>2. CASE UNCHANGED <<roleVars, committed, network>>
  BY <1>1, <1>2 DEF roleVars
<1>3. ASSUME NEW s \in Server, StepHup(s), UNCHANGED committed PROVE Kept
  <2>1. CASE Campaign(s)
    <3>. DEFINE votesAsked == {[Msg("MsgVote", s, v) EXCEPT !.term = term[s]] :
                                  v \in Voters \ {s}}
    <3>1. Send({}) \/ Send(votesAsked)
      BY <2>1 DEF Campaign
    <3>2. \A r \in votesAsked : r.type = "MsgVote"
      BY DEF Msg
    <3>. HIDE DEF votesAsked
    <3>3. \A m \in network' : m.type = "MsgVote"
      BY <1>1, <3>1, <3>2 DEF Send
    <3>4. /\ stepFunc' = [stepFunc EXCEPT ![s] = "StepCandidate"]
          /\ state' = [state EXCEPT ![s] = "Follower"] /\ UNCHANGED lead
      BY <2>1 DEF Campaign, BecomeCandidate
    <3>5. \A t \in Server : stepFunc'[t] # "StepLeader" /\ state'[t] = "Follower"
      BY <1>1, <3>4 DEF AloneInv, TypeOK
    <3>. QED  BY <1>3, <3>3, <3>4, <3>5
  <2>. QED  BY <1>2, <1>3, <2>1 DEF StepHup
<1>4. ASSUME NEW s \in Server, Tick(s) PROVE Kept
  <2>1. TickElection(s)
    BY <1>1, <1>4 DEF Tick, TickHeatbeat
  <2>2. UNCHANGED committed
    BY <2>1 DEF TickElection, logVars
  <2>3. StepHup(s) \/ UNCHANGED <<roleVars, network>>
    BY <2>1 DEF TickElection
  <2>. QED  BY <1>2, <1>3, <2>2, <2>3
<1>5. ASSUME NEW s \in Server, NEW m \in Stepped(s), Deliver(s, m) PROVE Kept
  <2>1. m.type \notin {"MsgVoteResp", "MsgPreVoteResp", "MsgApp"}
    BY <1>1, SteppedFacts, InjectAssumption DEF AloneInv, NoForeignAnswers, Answers
  <2>2. \/ Ignored(s, m) \/ ReceiveHup(s, m) \/ ReceiveVote(s, m)
    BY <1>1, <1>5, <2>1 DEF Deliver, ReceiveVoteResp, ReceiveApp, ReceiveAppResp, ReceiveProp
  <2>. QED  BY <1>2, <1>3, <2>2 DEF Ignored, ReceiveHup, ReceiveVote
<1>6. ASSUME NEW s \in Server,
             \/ StoreEntries(s)
             \/ \E p \in Peer : SendAppend(s, p) \/ SendHeartbeat(s, p)
      PROVE  Kept
  BY <1>1, <1>2, <1>6 DEF StoreEntries, SendAppend, SendHeartbeat
<1>7. CASE UNCHANGED vars
  BY <1>2, <1>7 DEF vars, logVars
<1>. QED  BY <1>4, <1>5, <1>6, <1>7 DEF Next

(***************************************************************************)
(* Servers of this code alone never elect anybody, whatever their number,  *)
(* timeouts and garbage values, whatever the application calls and         *)
(* whatever else than answers arrives (raft.cpp:281-302).                  *)
(***************************************************************************)
THEOREM NobodyIsElectedAlways ==
    ASSUME NoForeignAnswers
    PROVE  Spec => []NobodyIsElected
<1>1. Init => AloneInv
  <2>. SUFFICES ASSUME Init PROVE AloneInv
    OBVIOUS
  <2>1. NobodyIsElected /\ network = {}
    BY DEF Init, NobodyIsElected
  <2>. QED  BY <2>1, InitType DEF AloneInv
<1>2. AloneInv /\ [Next]_vars => AloneInv'
  <2>. SUFFICES ASSUME AloneInv, [Next]_vars PROVE AloneInv'
    OBVIOUS
  <2>1. TypeOK'
    BY NextType DEF AloneInv
  <2>. QED  BY <2>1, AloneStep DEF AloneInv, NobodyIsElected
<1>3. AloneInv => NobodyIsElected
  BY DEF AloneInv
<1>. QED  BY <1>1, <1>2, <1>3, PTL DEF Spec
=============================================================================
