-------------------------- MODULE MCMemoryStorage --------------------------
(* An instance of MemoryStorage for TLC: two hard states as model values.   *)
EXTENDS MemoryStorage

CONSTANTS h1, h2
=============================================================================
