------------------------ MODULE RaftElectionsProofs ------------------------
(***************************************************************************)
(* The spacing of campaigns, for every timeout and any servers: it holds   *)
(* as long as the application does not call SendAppend, whose failures     *)
(* send a MsgHup, and no peer sends one.                                   *)
(***************************************************************************)
EXTENDS RaftElections, RaftVotesProofs

\* The ticks counted since the last campaign are at least those its counter
\* has seen since.
SpacingInv ==
    /\ TypeOK /\ NoHup /\ RolesAgree
    /\ ticks \in [Server -> 0..ElectionTimeout] /\ gap \in [Server -> Nat]
    /\ \A s \in Server : ticks[s] = ElectionTimeout \/ electionElapsed[s] <= ticks[s]
    /\ ElectionsSpaced

LEMMA StepIsNext == [ElectionNext]_electionVars => [Next]_vars
<1>1. UNCHANGED electionVars => UNCHANGED vars
  BY DEF electionVars
<1>2. ASSUME ElectionNext PROVE Next
  <2>1. PICK s \in Server :
           \/ CountedTick(s)
           \/ \E m \in Stepped(s) : Deliver(s, m)
           \/ StoreEntries(s)
           \/ \E p \in Peer : SendAppend(s, p) \/ SendHeartbeat(s, p)
    BY <1>2 DEF ElectionNext
  <2>2. \/ Tick(s)
        \/ \E m \in Stepped(s) : Deliver(s, m)
        \/ StoreEntries(s)
        \/ \E p \in Peer : SendAppend(s, p) \/ SendHeartbeat(s, p)
    BY <2>1 DEF CountedTick
  <2>. QED  BY <2>2 DEF Next
<1>3. CASE ElectionNext
  BY <1>2, <1>3
<1>4. CASE UNCHANGED electionVars
  BY <1>1, <1>4
<1>. QED  BY <1>3, <1>4

(***************************************************************************)
(* The history variables restrict nothing: RaftElections implements Raft,  *)
(* and what is proved of Raft holds of it.                                 *)
(***************************************************************************)
THEOREM ElectionsImplementRaft == ElectionSpec => Spec
<1>1. ElectionInit => Init
  BY DEF ElectionInit
<1>. QED  BY <1>1, StepIsNext, PTL DEF ElectionSpec, Spec

(***************************************************************************)
(* OnlyVotersCampaign and LeadersStayUnknown in RaftElections: from        *)
(* the implementation and the theorems of Raft.                            *)
(***************************************************************************)
THEOREM ElectionsKeepOffices ==
    ASSUME NoHupFromPeers
    PROVE  ElectionSpec => [](OnlyVotersCampaign /\ LeadersStayUnknown)
<1>1. NoSendAppend
  BY DEF NoHupFromPeers
<1>2. Spec => []OnlyVotersCampaign
  BY OnlyVotersCampaignAlways
<1>3. Spec => []LeadersStayUnknown
  BY <1>1, LeadersStayUnknownAlways
<1>. QED  BY <1>2, <1>3, ElectionsImplementRaft, PTL

\* A step that delivers a message, stores or sends moves no count forward and
\* no counter.
LEMMA OtherStepElapsed ==
    ASSUME TypeOK, NEW t \in Server,
           \/ \E m \in Stepped(t) : Deliver(t, m)
           \/ StoreEntries(t)
           \/ \E p \in Peer : SendAppend(t, p) \/ SendHeartbeat(t, p),
           NEW s \in Server
    PROVE  electionElapsed'[s] \in {electionElapsed[s], 0}
<1>1. ASSUME NEW m \in Stepped(t), Deliver(t, m)
      PROVE  electionElapsed'[s] \in {electionElapsed[s], 0}
  BY <1>1 DEF Deliver, Ignored, ReceiveHup, ReceiveVote, ReceiveVoteResp, ReceiveApp,
              ReceiveAppResp, ReceiveProp, timerVars, TypeOK
<1>2. CASE StoreEntries(t) \/ \E p \in Peer : SendAppend(t, p) \/ SendHeartbeat(t, p)
  BY <1>2 DEF StoreEntries, SendAppend, SendHeartbeat, timerVars
<1>. QED  BY <1>1, <1>2

LEMMA SpacingStep ==
    NoHupFromPeers /\ SpacingInv /\ [ElectionNext]_electionVars => SpacingInv'
<1>. SUFFICES ASSUME NoHupFromPeers, SpacingInv, [ElectionNext]_electionVars
              PROVE  SpacingInv'
  OBVIOUS
<1>1. /\ TypeOK /\ NoHup /\ RolesAgree /\ [Next]_vars
      /\ TypeOK' /\ NoHup' /\ RolesAgree'
  BY StepIsNext, NextType, NoHupStep, RolesAgreeStep DEF SpacingInv, NoHupFromPeers
<1>. DEFINE Spaced(s) == /\ ticks'[s] \in 0..ElectionTimeout /\ gap'[s] \in Nat
                         /\ ticks'[s] = ElectionTimeout \/ electionElapsed'[s] <= ticks'[s]
                         /\ gap'[s] >= ElectionTimeout
<1>2. ASSUME ticks' \in [Server -> 0..ElectionTimeout], gap' \in [Server -> Nat],
             \A s \in Server : Spaced(s)
      PROVE  SpacingInv'
  BY <1>1, <1>2 DEF SpacingInv, ElectionsSpaced
<1>3. /\ ticks \in [Server -> 0..ElectionTimeout] /\ gap \in [Server -> Nat]
      /\ \A s \in Server : /\ ticks[s] \in 0..ElectionTimeout /\ gap[s] \in Nat
                           /\ ticks[s] = ElectionTimeout \/ electionElapsed[s] <= ticks[s]
                           /\ gap[s] >= ElectionTimeout
                           /\ electionElapsed[s] \in Nat /\ electionElapsed[s] <= MaxElapsed
                           /\ randomizedTimeout[s] \in Nat
                           /\ randomizedTimeout[s] >= ElectionTimeout
      /\ ElectionTimeout \in Nat \ {0} /\ MaxElapsed \in Nat /\ MaxElapsed > ElectionTimeout
  BY TimeoutAssumption DEF SpacingInv, ElectionsSpaced, TypeOK
<1>4. ASSUME NEW t \in Server, CountedTick(t)
      PROVE  SpacingInv'
  <2>. DEFINE now == Lower(ticks[t] + 1, ElectionTimeout)
              counter == Inc(electionElapsed[t])
              fires == TimerFires(t, counter)
  <2>1. /\ now \in 0..ElectionTimeout
        /\ now = ElectionTimeout \/ now = ticks[t] + 1
    BY <1>3 DEF Lower
  <2>2. counter \in Nat /\ counter <= electionElapsed[t] + 1
    BY <1>3 DEF Inc
  <2>3. now = ElectionTimeout \/ counter <= now
    BY <1>3, <2>1, <2>2
  <2>4. fires => now = ElectionTimeout
    <3>. SUFFICES ASSUME fires PROVE now = ElectionTimeout
      OBVIOUS
    <3>1. counter >= randomizedTimeout[t]
      BY DEF TimerFires, PastElectionTimeout
    <3>. HIDE DEF now, counter, fires
    <3>. QED  BY <1>3, <2>1, <2>2, <2>3, <3>1
  <2>5. \/ /\ fires /\ state[t] # "Leader"
           /\ ticks' = [ticks EXCEPT ![t] = 0] /\ gap' = [gap EXCEPT ![t] = now]
        \/ ticks' = [ticks EXCEPT ![t] = now] /\ gap' = gap
    BY <1>4 DEF CountedTick, Count
  <2>6. \/ electionElapsed' = [electionElapsed EXCEPT ![t] = 0]
        \/ /\ ~fires \/ state[t] = "Leader"
           /\ electionElapsed' = [electionElapsed EXCEPT ![t] = counter]
    <3>1. CASE TickElection(t)
      BY <3>1 DEF TickElection
    <3>2. CASE TickHeatbeat(t)
      <4>1. state[t] = "Leader"
        BY <1>1, <3>2 DEF TickHeatbeat, RolesAgree
      <4>2. electionElapsed' = [electionElapsed EXCEPT ![t] = 0]
            \/ electionElapsed' = [electionElapsed EXCEPT ![t] = counter]
        BY <3>2 DEF TickHeatbeat
      <4>. QED  BY <4>1, <4>2
    <3>. QED  BY <1>4, <3>1, <3>2 DEF CountedTick, Tick
  <2>. HIDE DEF now, counter, fires
  <2>7. /\ ticks' \in [Server -> 0..ElectionTimeout] /\ gap' \in [Server -> Nat]
        /\ \A s \in Server \ {t} : ticks'[s] = ticks[s] /\ gap'[s] = gap[s]
    BY <1>3, <2>1, <2>5
  <2>8. \A s \in Server \ {t} : electionElapsed'[s] = electionElapsed[s]
    BY <1>1, <2>6 DEF TypeOK
  <2>9. Spaced(t)
    <3>1. electionElapsed'[t] = 0 \/ (electionElapsed'[t] = counter /\ (~fires \/ state[t] = "Leader"))
      BY <1>1, <2>6 DEF TypeOK
    <3>2. \/ fires /\ state[t] # "Leader" /\ ticks'[t] = 0 /\ gap'[t] = now
          \/ ticks'[t] = now /\ gap'[t] = gap[t]
      BY <1>3, <2>5
    <3>. QED  BY <1>3, <2>1, <2>3, <2>4, <3>1, <3>2
  <2>10. \A s \in Server \ {t} : Spaced(s)
    BY <1>3, <2>7, <2>8
  <2>. QED  BY <1>2, <2>7, <2>9, <2>10
<1>5. ASSUME ticks' = ticks, gap' = gap,
             \A s \in Server : electionElapsed'[s] \in {electionElapsed[s], 0}
      PROVE  SpacingInv'
  BY <1>2, <1>3, <1>5
<1>6. ASSUME NEW t \in Server, NEW m \in Stepped(t), Deliver(t, m),
             Count(t, 0, m.type = "MsgHup")
      PROVE  SpacingInv'
  <2>1. m.type # "MsgHup"
    BY <1>1, SteppedFacts DEF NoHupFromPeers, NoHup
  <2>2. ticks' = [ticks EXCEPT ![t] = Lower(ticks[t] + 0, ElectionTimeout)] /\ gap' = gap
    BY <1>6, <2>1 DEF Count
  <2>3. Lower(ticks[t] + 0, ElectionTimeout) = ticks[t]
    BY <1>3 DEF Lower
  <2>4. ticks' = ticks
    BY <1>3, <2>2, <2>3
  <2>. QED  BY <1>1, <1>5, <1>6, <2>2, <2>4, OtherStepElapsed
<1>7. ASSUME NEW t \in Server,
             StoreEntries(t) \/ \E p \in Peer : SendAppend(t, p) \/ SendHeartbeat(t, p),
             UNCHANGED <<ticks, gap>>
      PROVE  SpacingInv'
  BY <1>1, <1>5, <1>7, OtherStepElapsed
<1>8. CASE UNCHANGED electionVars
  <2>1. ticks' = ticks /\ gap' = gap /\ electionElapsed' = electionElapsed
    BY <1>8 DEF electionVars, vars, timerVars
  <2>. QED  BY <1>5, <2>1
<1>. QED  BY <1>4, <1>6, <1>7, <1>8 DEF ElectionNext

(***************************************************************************)
(* "ElectionTick is the number of Node.Tick invocations that must pass     *)
(* between elections" (config.h:59-60): true of any servers, voters and    *)
(* timeouts, as long as nobody sends a MsgHup.                             *)
(***************************************************************************)
THEOREM ElectionsAlwaysSpaced ==
    ASSUME NoHupFromPeers
    PROVE  ElectionSpec => []ElectionsSpaced
<1>1. ElectionInit => SpacingInv
  <2>. SUFFICES ASSUME ElectionInit PROVE SpacingInv
    OBVIOUS
  <2>1. TypeOK /\ RolesAgree
    BY InitType, RolesAgreeInit DEF ElectionInit
  <2>2. NoHup
    BY DEF ElectionInit, Init, NoHup
  <2>. QED  BY <2>1, <2>2, TimeoutAssumption
            DEF ElectionInit, Init, SpacingInv, ElectionsSpaced
<1>2. SpacingInv => ElectionsSpaced
  BY DEF SpacingInv
<1>3. SpacingInv /\ [ElectionNext]_electionVars => SpacingInv'
  BY SpacingStep
<1>. QED  BY <1>1, <1>2, <1>3, PTL DEF ElectionSpec
=============================================================================
