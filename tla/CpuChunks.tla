------------------------------- MODULE CpuChunks -------------------------------
(***************************************************************************)
(* The parallel CPU analysis over one trace: CpuWorker::doMap on each of   *)
(* the `Threads` time ranges of the trace, CpuWorker::doReduce on their    *)
(* contexts in the order of the ranges, CpuAnalysis::doEnd on the result.  *)
(*                                                                         *)
(* A worker reads nothing but its own range of an immutable trace, and the *)
(* ordered reduction (module MapReduce) merges the contexts one at a time  *)
(* in range order, so the outcome of a run is that of the workers taken in *)
(* that order.  This module takes them in that order, and draws the trace  *)
(* one context switch at a time.                                           *)
(***************************************************************************)
EXTENDS SchedTrace, CpuContext

CONSTANTS
  Threads,      (* The number of ranges, the --thread option.              *)
  MaxPrinted,   (* The number of threads printed (10 in printResults).     *)
  Lossy         (* Whether the tracer may discard events.                  *)

ASSUME CpuChunksAssumption ==
  /\ Threads \in Nat \ {0}
  /\ MaxPrinted \in Nat
  /\ Lossy \in BOOLEAN

VARIABLES
  chunk,        (* The range being read, 1 .. Threads.                     *)
  work,         (* The context the worker of that range fills.             *)
  final,        (* The context the ranges before it were reduced to.       *)
  phase,        (* "map", then "reduced", then "done".                     *)
  printed       (* The threads printResults lists, in order.               *)

vars == <<running, now, chunk, work, final, phase, printed>>

(* doMap starts from a context that spans the worker's range.  Range i     *)
(* begins one tick after the end of range i - 1 (the TraceWorker           *)
(* constructor) and the last one ends with the trace.  Where the others    *)
(* end is left open here: any non-decreasing positions inside the trace.   *)
EndPositions(i) == IF i = Threads THEN {TraceEnd} ELSE TraceBegin .. TraceEnd

NewWork(i, begin) == {NewContext(begin, p) : p \in {q \in EndPositions(i) : q >= begin - 1}}

Init ==
  /\ TraceInit
  /\ chunk = 1
  /\ work \in NewWork(1, TraceBegin)
  /\ final = EmptyContext
  /\ phase = "map"
  /\ printed = <<>>

(* The worker meets the next event of its range.                           *)
MapEvent(c, next, comm, ts) ==
  /\ phase = "map"
  /\ ts \in work.start .. work.end
  /\ Switch(c, next, ts)
  /\ work' = HandleSchedSwitch(work, SwitchEvent(c, next, comm, ts))
  /\ UNCHANGED <<chunk, final, phase, printed>>

(* A context switch whose event the tracer discarded: nobody handles it.   *)
DiscardedEvent(c, next, ts) ==
  /\ Lossy
  /\ phase = "map"
  /\ ts \in work.start .. work.end
  /\ Switch(c, next, ts)
  /\ UNCHANGED <<chunk, work, final, phase, printed>>

(* The range is exhausted: its context is merged into the result and the   *)
(* next worker starts.                                                     *)
Reduce ==
  /\ phase = "map"
  /\ final' = Merge(final, work)
  /\ IF chunk < Threads
     THEN /\ chunk' = chunk + 1
          /\ work' \in NewWork(chunk + 1, work.end + 1)
          /\ UNCHANGED phase
     ELSE /\ phase' = "reduced"
          /\ work' = EmptyContext
          /\ UNCHANGED chunk
  /\ UNCHANGED <<running, now, printed>>

(* doEnd, then printResults.                                               *)
End ==
  /\ phase = "reduced"
  /\ final' = PatchEndTasks(final)
  /\ \E l \in SortedTids(final') :
       printed' = SubSeq(l, 1, IF Len(l) < MaxPrinted THEN Len(l) ELSE MaxPrinted)
  /\ phase' = "done"
  /\ UNCHANGED <<running, now, chunk, work>>

Finished == phase = "done" /\ UNCHANGED vars

Next ==
  \/ \E c \in Cpus, next \in AllTids, ts \in now .. TraceEnd :
       \/ \E comm \in Comms : MapEvent(c, next, comm, ts)
       \/ DiscardedEvent(c, next, ts)
  \/ Reduce
  \/ End
  \/ Finished

Spec == Init /\ [][Next]_vars

-------------------------------------------------------------------------------
(* The accounts if every event mapped so far were merged now.              *)
CpuNow(c) == MergeCpu(final, work, c)

ThreadNow(t) == MergeProcess(final, work, t)

Since == [c \in Cpus |-> IF CpuNow(c).currentTask = None THEN None
                         ELSE CpuNow(c).currentTask.start]
Busy  == [c \in Cpus |-> CpuNow(c).cpu_ns]
Spent == [t \in AllTids |-> ThreadNow(t).cpu_ns]
Name  == [t \in AllTids |-> ThreadNow(t).comm]

Usage == INSTANCE CpuUsage WITH
  since <- Since, busy <- Busy, spent <- Spent, name <- Name, closed <- phase = "done"

TypeOK ==
  /\ running \in [Cpus -> AllTids]
  /\ now \in TraceBegin .. TraceEnd
  /\ chunk \in 1 .. Threads
  /\ work \in Contexts
  /\ final \in Contexts
  /\ phase \in {"map", "reduced", "done"}

(* Wherever the trace is cut, the parallel analysis charges every CPU and  *)
(* every thread exactly the time it is known to run, and names every       *)
(* thread as it was last seen: a run that spans any number of chunks is    *)
(* counted once (CpuContext::merge).                                       *)
ParallelImplementsUsage == Usage!Spec

(* A task that the chunks merged so far left running is the task that the  *)
(* current chunk found running, and the current chunk has recorded when it *)
(* stopped: merge never reaches its "Mismatch" branch and never drops the  *)
(* end of a run (cpucontext.cpp:135-155).                                  *)
RunsMeet ==
  \A c \in Cpus :
    /\ final.cpus[c].currentTask # None
    /\ work.cpus[c].present
    => /\ work.cpus[c].unknownTask # None
       /\ SameTask(final, work, c)

(* The total that every percentage is relative to is the length of the     *)
(* trace, although each chunk only knows its own bounds and the bounds of  *)
(* a chunk start one tick late (cpucontext.cpp:102-108).                   *)
SpanIsTrace ==
  phase # "map" => final.start = TraceBegin /\ final.end = TraceEnd

(* No CPU is reported above 100% (the percentage of cpuanalysis.cpp:155).  *)
CpusAtMostFull ==
  phase = "done" =>
    \A c \in Cpus : final.cpus[c].cpu_ns <= final.end - final.start

(* Neither is a thread, however often it migrates and however many of its  *)
(* runs cross a chunk boundary (cpuanalysis.cpp:155 and 171).              *)
AtMostFull ==
  /\ CpusAtMostFull
  /\ phase = "done" =>
       \A t \in Tids : final.tids[t].cpu_ns <= final.end - final.start

(* The two tables of the report agree: the CPUs together are charged what  *)
(* the threads together are charged.                                       *)
TablesAgree == phase = "done" => CpuTotal(final) = TidTotal(final)

(* Even on a trace with discarded events the threads are never charged     *)
(* more than the CPUs (merge charges a mismatched run to the CPU only).    *)
ThreadsWithinCpus == TidTotal(final) <= CpuTotal(final)

(* A printed thread is heavier than, or as heavy as, one that is not.      *)
HeaviestPrinted ==
  phase = "done" =>
    \A i \in DOMAIN printed, t \in AllTids \ ToSet(printed) :
      final.tids[t].cpu_ns <= final.tids[printed[i]].cpu_ns

(* Every thread is printed under its own id.                               *)
PrintedUnderOwnTid ==
  \A i \in DOMAIN printed : final.tids[printed[i]].tid = printed[i]
===============================================================================
