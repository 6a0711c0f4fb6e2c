------------------------------ MODULE LogWindow ------------------------------
(***************************************************************************)
(* What a log storage promises: it holds the terms of a contiguous range   *)
(* of positions, the first of which has already been discarded but for its *)
(* term.  The range grows at its end and is discarded from its beginning;  *)
(* the term of a position never changes while the position is in it.       *)
(***************************************************************************)
EXTENDS Integers

CONSTANTS
    Terms,      \* the terms entries may carry
    MaxIndex    \* bound: the last position

VARIABLE log    \* log[i]: the term of position i

DomainFrom(b, e) == [b..e -> Terms]

Init == \E t \in Terms : log = [i \in {0} |-> t]

\* Positions are added after the last.
Extend ==
    \E b, e, f \in 0..MaxIndex :
        /\ b <= e /\ e <= f /\ DOMAIN log = b..e
        /\ log' \in DomainFrom(b, f)
        /\ \A i \in b..e : log'[i] = log[i]

\* Everything before position b is discarded.
Discard ==
    \E b, c, e \in 0..MaxIndex :
        /\ b <= c /\ c <= e /\ DOMAIN log = b..e
        /\ log' = [i \in c..e |-> log[i]]

Next == Extend \/ Discard

Spec == Init /\ [][Next]_log
=============================================================================
