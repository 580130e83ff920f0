------------------------------- MODULE Reduction -------------------------------
(***************************************************************************)
(* What the analyses expect of a map-reduce: the result of every worker is *)
(* merged into the final one exactly once, one at a time, and, when the    *)
(* analysis asked for an ordered reduction, in the order of the workers.   *)
(* CpuChunks and IoChunks describe the outcome of such a reduction.        *)
(***************************************************************************)
EXTENDS Integers, SequencesExt

VARIABLES
  numWorkers,   (* The number of workers.                                  *)
  ordered,      (* Whether the analysis asks for an ordered reduction.     *)
  merged,       (* The workers merged so far, in the order of the merges.  *)
  returned      (* The result has been handed to doEnd.                    *)

vars == <<numWorkers, ordered, merged, returned>>

Init == numWorkers \in Nat /\ ordered \in BOOLEAN /\ merged = <<>> /\ returned = FALSE

MergeOne(i) ==
  /\ i \notin ToSet(merged)
  /\ ordered => i = Len(merged) + 1
  /\ merged' = Append(merged, i)
  /\ UNCHANGED <<numWorkers, ordered, returned>>

Return ==
  /\ ~returned
  /\ ToSet(merged) = 1 .. numWorkers
  /\ returned' = TRUE
  /\ UNCHANGED <<numWorkers, ordered, merged>>

Next == (\E i \in 1 .. numWorkers : MergeOne(i)) \/ Return

Safety == Init /\ [][Next]_vars

Spec == Safety /\ WF_vars(Next)
===============================================================================
