--------------------------- MODULE RaftElections ---------------------------
(***************************************************************************)
(* Raft with two history variables about elections: the ticks a server has *)
(* seen since its last campaign, and how many had passed between its last  *)
(* two.  They never guard a step.                                          *)
(***************************************************************************)
EXTENDS MCRaft

VARIABLES
    ticks,      \* ticks[s]: ticks since the last campaign of s
    gap         \* gap[s]: ticks between the last two campaigns of s

electionVars == <<vars, ticks, gap>>

\* Both count up to ElectionTimeout and stay there.
ElectionInit ==
    /\ Init
    /\ ticks = [s \in Server |-> 0]
    /\ gap = [s \in Server |-> ElectionTimeout]

\* The step campaigns (MsgHup stepped on a server that does not lead).
Count(s, passed, campaigns) ==
    LET now == Lower(ticks[s] + passed, ElectionTimeout)
    IN  IF campaigns /\ state[s] # "Leader" /\ ~PreVote
          THEN /\ ticks' = [ticks EXCEPT ![s] = 0]
               /\ gap' = [gap EXCEPT ![s] = now]
          ELSE /\ ticks' = [ticks EXCEPT ![s] = now]
               /\ UNCHANGED gap

CountedTick(s) ==
    Tick(s) /\ Count(s, 1, TimerFires(s, Inc(electionElapsed[s])))

ElectionNext ==
    \E s \in Server :
        \/ CountedTick(s)
        \/ \E m \in Stepped(s) :
              Deliver(s, m) /\ Count(s, 0, m.type = "MsgHup")
        \/ /\ \/ StoreEntries(s)
              \/ \E p \in Peer : SendAppend(s, p) \/ SendHeartbeat(s, p)
           /\ UNCHANGED <<ticks, gap>>

ElectionSpec == ElectionInit /\ [][ElectionNext]_electionVars

\* The application keeps calling Node::Tick.
FairElectionSpec ==
    ElectionSpec /\ \A s \in Server : WF_electionVars(CountedTick(s))

-----------------------------------------------------------------------------
(***************************************************************************)
(* "ElectionTick is the number of Node.Tick invocations that must pass     *)
(* between elections" (config.h:59-60): whatever answers, grants and role  *)
(* changes come in between, at least that many pass between two campaigns  *)
(* after the first.                                                        *)
(***************************************************************************)
ElectionsSpaced == \A s \in Server : gap[s] >= ElectionTimeout
=============================================================================
