------------------------------ MODULE CpuAnalysis ------------------------------
(***************************************************************************)
(* The serial and the parallel CPU analysis reading the same trace: what   *)
(* `--analysis cpu --serial` and `--analysis cpu --thread N` print.        *)
(***************************************************************************)
EXTENDS CpuChunks

VARIABLES data, ended

Serial == INSTANCE CpuSerial

bothVars == <<vars, data, ended>>

BothInit == Init /\ Serial!Init

BothEvent(c, next, comm, ts) ==
  MapEvent(c, next, comm, ts) /\ Serial!Event(c, next, comm, ts)

BothDiscarded(c, next, ts) == DiscardedEvent(c, next, ts) /\ UNCHANGED <<data, ended>>

ParallelReduce == Reduce /\ UNCHANGED <<data, ended>>

ParallelEnd == End /\ UNCHANGED <<data, ended>>

(* The serial analysis ends after the last event of the trace.             *)
SerialEnd ==
  /\ phase # "map"
  /\ Serial!End
  /\ UNCHANGED <<chunk, work, final, phase, printed>>

BothDone == phase = "done" /\ ended /\ UNCHANGED bothVars

BothNext ==
  \/ \E c \in Cpus, next \in AllTids, ts \in now .. TraceEnd :
       \/ \E comm \in Names(c) : BothEvent(c, next, comm, ts)
       \/ BothDiscarded(c, next, ts)
  \/ ParallelReduce
  \/ ParallelEnd
  \/ SerialEnd
  \/ BothDone

BothSpec == BothInit /\ [][BothNext]_bothVars

SerialImplementsUsage == Serial!SerialImplementsUsage

(* The parallel analysis reports what the serial one reports: the same     *)
(* CPUs and threads with the same times and names, over the same span      *)
(* ("to get same results", cpucontext.cpp:161).                            *)
SameReport ==
  phase = "done" /\ ended =>
    /\ final.start = data.start /\ final.end = data.end
    /\ \A c \in Cpus : /\ final.cpus[c].present = data.cpus[c].present
                       /\ final.cpus[c].cpu_ns = data.cpus[c].cpu_ns
    /\ final.tids = data.tids

(* On any trace, also one with discarded events, a thread that changes its *)
(* name is shown under its latest one, whichever chunks have seen it under *)
(* which name (cpucontext.cpp:125).                                        *)
SameNames ==
  phase = "done" /\ ended =>
    \A t \in AllTids : final.tids[t].comm = data.tids[t].comm

(* The serial analysis stays within 100% even when events were discarded.  *)
SerialAtMostFull ==
  ended => \A c \in Cpus : data.cpus[c].cpu_ns <= TraceEnd - TraceBegin
===============================================================================
