-------------------------------- MODULE IoChunks --------------------------------
(***************************************************************************)
(* The parallel I/O analysis over one trace: IoWorker::doMap on each of    *)
(* the `Threads` time ranges of the trace, IoWorker::doReduce on their     *)
(* contexts in the order of the ranges, IoAnalysis::doEnd on the result.   *)
(* The ranges are taken in order and the trace is drawn one event at a     *)
(* time, as in CpuChunks.                                                  *)
(***************************************************************************)
EXTENDS SyscallTrace, IoContext

CONSTANTS
  Threads,      (* The number of ranges, the --thread option.              *)
  MaxPrinted    (* The number of threads listed (10 in printResults).      *)

ASSUME IoChunksAssumption ==
  /\ Threads \in Nat \ {0}
  /\ MaxPrinted \in Nat

VARIABLES
  chunk,        (* The range being read, 1 .. Threads.                     *)
  beginPos,     (* Its first timestamp.                                    *)
  endPos,       (* Its last timestamp.                                     *)
  work,         (* The context the worker of that range fills.             *)
  final,        (* The context the ranges before it were reduced to.       *)
  phase,        (* "map", then "reduced", then "done".                     *)
  reads,        (* The threads listed under "Syscall I/O Read", in order.  *)
  writes        (* The threads listed under "Syscall I/O Write", in order. *)

traceVars == <<call, last, now>>
vars == <<traceVars, chunk, beginPos, endPos, work, final, phase, reads, writes>>

(* Where a range that begins at `begin` ends: the last one with the trace, *)
(* the others anywhere (see TimeSplit).                                    *)
EndPositions(i, begin) ==
  IF i = Threads THEN {TraceEnd} ELSE {p \in TraceBegin .. TraceEnd : p >= begin - 1}

Init ==
  /\ TraceInit
  /\ chunk = 1
  /\ beginPos = TraceBegin
  /\ endPos \in EndPositions(1, TraceBegin)
  /\ work = NewContext
  /\ final = NewContext
  /\ phase = "map"
  /\ reads = <<>>
  /\ writes = <<>>

(* The worker meets the next event of its range: the entry of a read or a  *)
(* write, the exit of any call.                                            *)
Map(ts, next) ==
  /\ phase = "map"
  /\ ts \in beginPos .. endPos
  /\ work' = next
  /\ UNCHANGED <<chunk, beginPos, endPos, final, phase, reads, writes>>

MapEnter(t, type, comm, ts) ==
  /\ EnterCall(t, type, ts)
  /\ Map(ts, HandleReadWrite(work, EntryEvent(t, comm, ts), type))

MapEnterOther(t, ts) ==
  /\ EnterCall(t, "OTHER", ts)
  /\ Map(ts, work)

MapExit(t, comm, ret, ts) ==
  /\ ExitCall(t, ts)
  /\ Map(ts, HandleExitSyscall(work, ExitEvent(t, comm, ret, ts)))

(* The range is exhausted: its context is merged into the result and the   *)
(* next worker starts, one tick later.                                     *)
Reduce ==
  /\ phase = "map"
  /\ final' = Merge(final, work)
  /\ work' = NewContext
  /\ IF chunk < Threads
     THEN /\ chunk' = chunk + 1
          /\ beginPos' = endPos + 1
          /\ endPos' \in EndPositions(chunk + 1, endPos + 1)
          /\ UNCHANGED phase
     ELSE /\ phase' = "reduced"
          /\ UNCHANGED <<chunk, beginPos, endPos>>
  /\ UNCHANGED <<traceVars, reads, writes>>

Printed(l) == SubSeq(l, 1, IF Len(l) < MaxPrinted THEN Len(l) ELSE MaxPrinted)

(* doEnd, then printResults.                                               *)
End ==
  /\ phase = "reduced"
  /\ \E l \in ByRead(final) :
       /\ reads' = Printed(l)
       /\ \E m \in ByWrite(final, l) : writes' = Printed(m)
  /\ phase' = "done"
  /\ UNCHANGED <<traceVars, chunk, beginPos, endPos, work, final>>

Finished == phase = "done" /\ UNCHANGED vars

Next ==
  \/ \E t \in Tids, ts \in now .. TraceEnd :
       \/ MapEnterOther(t, ts)
       \/ \E comm \in Comms :
            \/ \E type \in IOTypes : MapEnter(t, type, comm, ts)
            \/ \E ret \in Rets : MapExit(t, comm, ret, ts)
  \/ Reduce
  \/ End
  \/ Finished

Spec == Init /\ [][Next]_vars

-------------------------------------------------------------------------------
(* The accounts if every event mapped so far were merged now.              *)
ProcessNow(t) == MergeProcess(final[t], work[t])

Known == {t \in Tids : ProcessNow(t).currentSyscall # None}
Seen  == {t \in Tids : ProcessNow(t).present}
Name  == [t \in Tids |-> ProcessNow(t).comm]
Read  == [t \in Tids |-> ProcessNow(t).read]
Write == [t \in Tids |-> ProcessNow(t).write]

Usage == INSTANCE IoUsage WITH
  known <- Known, seen <- Seen, name <- Name, read <- Read, write <- Write,
  closed <- phase = "done"

TypeOK ==
  /\ call \in [Tids -> Calls \cup {"NONE"}]
  /\ last \in [Tids -> (TraceBegin - 1) .. TraceEnd]
  /\ now \in TraceBegin .. TraceEnd
  /\ chunk \in 1 .. Threads
  /\ beginPos \in Nat
  /\ endPos \in TraceBegin .. TraceEnd
  /\ work \in Contexts
  /\ final \in Contexts
  /\ phase \in {"map", "reduced", "done"}

(* Wherever the trace is cut, the parallel analysis charges every call     *)
(* that the trace shows entirely once, to its thread and in its            *)
(* direction, with its own latency and return value, and names every       *)
(* thread as it was first seen (IoContext::merge, iocontext.cpp:108).      *)
ParallelImplementsUsage == Usage!Spec

(* A call that the chunks merged so far left unfinished is still the call  *)
(* its thread is in, or the current chunk has kept its exit: merge never   *)
(* pairs an entry with the exit of another call, nor loses an exit because *)
(* only the first one of a chunk is kept (iocontext.cpp:61-67 and 124).    *)
CallsMeet ==
  \A t \in Tids : final[t].currentSyscall # None =>
    \/ /\ ~work[t].present
       /\ call[t] = final[t].currentSyscall.type
       /\ last[t] = final[t].currentSyscall.start
    \/ work[t].unknownSyscall # None

(* The bytes of a call are in the table it belongs to: a thread that is    *)
(* not listed under reads (writes) has not read (written) more than one    *)
(* that is, although both tables print the same list, sorted again         *)
(* (iocontext.cpp:86-100, ioanalysis.cpp:194 and 210).                     *)
HeaviestListed ==
  phase = "done" => \A t \in Tids :
    /\ \A i \in DOMAIN reads :
         t \notin ToSet(reads) => final[t].read.bytes <= final[reads[i]].read.bytes
    /\ \A i \in DOMAIN writes :
         t \notin ToSet(writes) => final[t].write.bytes <= final[writes[i]].write.bytes
===============================================================================
