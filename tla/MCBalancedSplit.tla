---------------------------- MODULE MCBalancedSplit ----------------------------
(* BalancedSplit with interchangeable streams.                             *)
EXTENDS BalancedSplit

Symmetry == Permutations(Streams)
================================================================================
