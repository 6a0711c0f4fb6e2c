-------------------------- MODULE RaftExampleDocs --------------------------
(***************************************************************************)
(* What a comment of the library promises the example and the example does *)
(* not get.  The run of the property ends in a counterexample.             *)
(***************************************************************************)
EXTENDS RaftExample

(***************************************************************************)
(* "Tick increments the internal logical clock for this Node"              *)
(* (node.h:130): once the timer has called Node::Tick, the server ticks,   *)
(* unless the process ends first.  The queue id of node_ was never copied  *)
(* from the Node that StartNode returned (node.cpp:152).                   *)
(***************************************************************************)
TickAdvancesClock == timer = "fired" ~> (ticks > 0 \/ ~Running)
=============================================================================
