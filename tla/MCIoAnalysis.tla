----------------------------- MODULE MCIoAnalysis -----------------------------
(* IoAnalysis on small traces.                                             *)
EXTENDS IoAnalysis

TwoRets == {-1, 2}

Symmetry == Permutations(Tids) \cup Permutations(Comms)
===============================================================================
