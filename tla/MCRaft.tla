------------------------------- MODULE MCRaft -------------------------------
(* Instances of Raft for TLC: what peers running other code may send.       *)
EXTENDS Raft

CONSTANTS n1, n2, n3, n4

MCAcks(to, senders, indexes) ==
    {[Msg("MsgAppResp", p, to) EXCEPT !.index = i] : p \in senders, i \in indexes}

MCAnswers(to, senders) ==
    {[Msg("MsgVoteResp", p, to) EXCEPT !.reject = r] :
        p \in senders, r \in BOOLEAN}

\* No peer runs other code.
MCNoMessages == {}

\* n1 may lead; different voters acknowledge different positions.  No outsider
\* answers another server, and nobody but a leader itself vouches for 4.
MCLeaderInject ==
    MCAcks(n1, {n2}, {1, 3}) \cup MCAcks(n1, {n3}, {2})
      \cup MCAnswers(n1, {n2}) \cup {Msg("MsgProp", n2, n1)}

\* Answers, and no acknowledgement: either server may come to lead.
MCNoAcksInject ==
    MCAnswers(n1, {n2}) \cup MCAnswers(n2, {n1}) \cup {Msg("MsgProp", n2, n1)}

\* n1 may come to lead; the learner n4 is asked for its vote.
MCTimersInject == MCAnswers(n1, {n2}) \cup {Msg("MsgVote", n2, n4)}

\* Acknowledgements of voters and of the stranger n4.
MCCommitInject ==
    MCAcks(n1, {n2, n3}, 1..2) \cup MCAcks(n1, {n4}, {2})
      \cup MCAnswers(n1, {n2, n3}) \cup {Msg("MsgProp", n2, n1)}
=============================================================================
