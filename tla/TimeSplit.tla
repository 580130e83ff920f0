------------------------------- MODULE TimeSplit -------------------------------
(***************************************************************************)
(* How the unbalanced parallel analysis cuts a trace into time ranges:     *)
(* the two loops of TraceAnalysis::doExecuteParallelUnbalanced and the     *)
(* TraceWorker constructor.  NULL stands for a null pointer.               *)
(***************************************************************************)
EXTENDS Integers, Sequences

CONSTANTS
  MaxTime,      (* A bound on the timestamps of a trace.                   *)
  MaxThreads,   (* A bound on the --thread option.                         *)
  NULL

ASSUME TimeSplitAssumption ==
  /\ MaxTime \in Nat \ {0}
  /\ MaxThreads \in Nat \ {0}
  /\ NULL \notin Nat

VARIABLES
  begin, end,   (* getBegin() and getEnd() of the trace.                   *)
  threads,      (* The --thread option.                                    *)
  positions,    (* positions[1 .. threads], as far as computed.            *)
  workers       (* The workers constructed so far.                         *)

vars == <<begin, end, threads, positions, workers>>

(* main.cpp refuses a number of threads below 1.                           *)
Init ==
  /\ begin \in 1 .. MaxTime
  /\ end \in begin .. MaxTime
  /\ threads \in 1 .. MaxThreads
  /\ positions = <<>>
  /\ workers = <<>>

(* Wrong on purpose: the division rounds up.                               *)
StepRoundedUp == (end - begin + threads - 1) \div threads

Step == (end - begin) \div threads

(* One turn of the first loop.                                             *)
ComputePosition ==
  /\ Len(positions) < threads
  /\ positions' = Append(positions, begin + Len(positions) * Step)
  /\ UNCHANGED <<begin, end, threads, workers>>

(* Wrong on purpose: consecutive ranges share a timestamp.                 *)
TraceWorkerOverlapping(b, e) == [beginPos |-> b, endPos |-> e]

(* The constructor moves a begin position one tick on ("Fixes overlap      *)
(* problem").                                                              *)
TraceWorker(b, e) == [beginPos |-> IF b = NULL THEN NULL ELSE b + 1, endPos |-> e]

(* One turn of the second loop; sequences count from 1.                    *)
AddWorker ==
  LET i == Len(workers) + 1
  IN  /\ Len(positions) = threads
      /\ i <= threads
      /\ workers' = Append(workers,
                      TraceWorker(IF i = 1 THEN NULL ELSE positions[i],
                                  IF i = threads THEN NULL ELSE positions[i + 1]))
      /\ UNCHANGED <<begin, end, threads, positions>>

Finished == Len(workers) = threads /\ UNCHANGED vars

Next == ComputePosition \/ AddWorker \/ Finished

Spec == Init /\ [][Next]_vars

-------------------------------------------------------------------------------
(* What TraceSet::between(beginPos, endPos) iterates over: the events from *)
(* the first timestamp to the last one, both included; a null position is  *)
(* the respective end of the trace.                                        *)
First(w) == IF w.beginPos = NULL THEN begin ELSE w.beginPos
Last(w)  == IF w.endPos = NULL THEN end ELSE w.endPos

Done == Len(workers) = threads

(* Each range begins one tick after the one before it ends, ends no        *)
(* earlier than it could begin, and stays inside the trace; the first and  *)
(* the last reach the ends of the trace.  These are the ranges the modules *)
(* CpuChunks and IoChunks read (traceanalysis.h:324-347 and 371-382).      *)
RangesInOrder ==
  Done =>
    /\ First(workers[1]) = begin
    /\ Last(workers[threads]) = end
    /\ \A i \in 1 .. threads : Last(workers[i]) \in begin .. end
    /\ \A i \in 1 .. threads : Last(workers[i]) >= First(workers[i]) - 1
    /\ \A i \in 1 .. threads - 1 : First(workers[i + 1]) = Last(workers[i]) + 1

(* Every event of the trace is read by exactly one worker, also when there *)
(* are more threads than timestamps and the step is 0.                     *)
EveryEventOnce ==
  Done =>
    \A ts \in begin .. end :
      \E i \in 1 .. threads :
        \A j \in 1 .. threads : ts \in First(workers[j]) .. Last(workers[j]) <=> j = i
===============================================================================
