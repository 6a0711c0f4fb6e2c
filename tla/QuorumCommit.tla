---------------------------- MODULE QuorumCommit ----------------------------
(***************************************************************************)
(* What the commit index of a server promises, with messages, roles, terms *)
(* and timers left out.  Every server records, for every voter, the        *)
(* highest position that voter has acknowledged to it.  A server moves its *)
(* commit index forward in two ways only: it decides a position that a     *)
(* quorum of the voters has acknowledged to itself, or it learns a position *)
(* that another server has already committed.                              *)
(***************************************************************************)
EXTENDS Integers

CONSTANTS
    Server,     \* the servers
    Voters,     \* the members whose acknowledgements count
    Quorums,    \* the sets of voters that may decide
    MaxWord,    \* positions are 0..MaxWord
    Snapshot    \* the position every server starts from

ASSUME QuorumCommitAssumption ==
    /\ Quorums \subseteq SUBSET Voters
    /\ \A Q \in Quorums : \A S \in SUBSET Voters : Q \subseteq S => S \in Quorums
    /\ MaxWord \in Nat /\ Snapshot \in 0..MaxWord

VARIABLES
    committed,  \* committed[s]: the commit index of s
    acked       \* acked[s][v]: what voter v has acknowledged to s

vars == <<committed, acked>>

Word == 0..MaxWord

Ackers(ack, i) == {v \in Voters : ack[v] >= i}

\* A quorum of the voters has acknowledged i.
QuorumAcked(ack, i) == Ackers(ack, i) \in Quorums

Init ==
    /\ committed = [s \in Server |-> Snapshot]
    /\ acked = [s \in Server |-> [v \in Voters |-> 0]]

\* Mutant: one acknowledgement is enough.
DecideOnAnyAck(s) ==
    /\ \E a \in [Voters -> Word] :
          /\ \A v \in Voters : a[v] >= acked[s][v]
          /\ acked' = [acked EXCEPT ![s] = a]
    /\ \E i \in Word :
          /\ i > committed[s] => Ackers(acked'[s], i) # {}
          /\ i >= committed[s]
          /\ committed' = [committed EXCEPT ![s] = i]

\* Mutant: a voter may acknowledge what lies beyond the last position.
DecidePastWord(s) ==
    /\ \E a \in [Voters -> 0..(MaxWord + 1)] :
          /\ \A v \in Voters : a[v] >= acked[s][v]
          /\ acked' = [acked EXCEPT ![s] = a]
    /\ UNCHANGED committed

\* A voter acknowledges more to s, and s may decide a position in the same step.
Decide(s) ==
    /\ \E a \in [Voters -> Word] :
          /\ \A v \in Voters : a[v] >= acked[s][v]
          /\ acked' = [acked EXCEPT ![s] = a]
    /\ \E i \in Word :
          /\ i > committed[s] => QuorumAcked(acked'[s], i)
          /\ i >= committed[s]
          /\ committed' = [committed EXCEPT ![s] = i]

\* s hears of a position another server has committed.
Learn(s) ==
    /\ \E t \in Server, i \in Word :
          /\ committed[s] <= i
          /\ i <= committed[t]
          /\ committed' = [committed EXCEPT ![s] = i]
    /\ UNCHANGED acked

Next == \E s \in Server : Decide(s) \/ Learn(s)

Spec == Init /\ [][Next]_vars

-----------------------------------------------------------------------------
TypeOK ==
    /\ committed \in [Server -> Word]
    /\ acked \in [Server -> [Voters -> Word]]

(***************************************************************************)
(* Whatever a server has committed beyond the starting snapshot, a quorum  *)
(* of the voters has acknowledged to one of the servers (raft_log.h:101).  *)
(***************************************************************************)
QuorumBacked ==
    \A s \in Server :
        committed[s] > Snapshot =>
            \E t \in Server : QuorumAcked(acked[t], committed[s])
=============================================================================
