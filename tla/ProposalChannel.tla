--------------------------- MODULE ProposalChannel ---------------------------
(***************************************************************************)
(* What the path of a proposal through the example promises: whatever is   *)
(* accepted is handed on in the order of its making, the oldest first, and *)
(* nothing else is.  That the process may end is why nothing more is said. *)
(***************************************************************************)
EXTENDS Naturals, Sequences

CONSTANT MaxProposals   \* proposals are numbered 1..MaxProposals as they are made

VARIABLES
    accepted,   \* the proposals put on the queue so far
    handed      \* those of them handed on so far

Init == accepted = <<>> /\ handed = <<>>

\* A proposal younger than all before it is accepted.
Accept(n) ==
    /\ \A k \in 1..Len(accepted) : accepted[k] < n
    /\ accepted' = Append(accepted, n)
    /\ UNCHANGED handed

\* The oldest that waits is handed on.
HandOn ==
    /\ Len(handed) < Len(accepted)
    /\ handed' = Append(handed, accepted[Len(handed) + 1])
    /\ UNCHANGED accepted

Next == (\E n \in 1..MaxProposals : Accept(n)) \/ HandOn

Spec == Init /\ [][Next]_<<accepted, handed>>
=============================================================================
