------------------------------ MODULE RaftDocs ------------------------------
(***************************************************************************)
(* What the repository's comments say of the raft state machine and the    *)
(* code does not do.  The run of the property ends in a counterexample.    *)
(***************************************************************************)
EXTENDS MCRaft

(***************************************************************************)
(* "For MsgVote m.Term should always equal r.Term" (raft.cpp:279-280): a   *)
(* vote cast for another server answers a request of the voter's own term. *)
(***************************************************************************)
VotesInOwnTerm ==
    [][\A s \in Server :
          vote'[s] # vote[s] /\ vote'[s] # s
            => \E m \in network : /\ m.type = "MsgVote" /\ m.to = s
                                  /\ m.from = vote'[s] /\ m.term = term[s]]_vars
=============================================================================
