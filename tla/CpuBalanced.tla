------------------------------ MODULE CpuBalanced ------------------------------
(***************************************************************************)
(* The balanced CPU analysis: the tracer writes one stream for each CPU,   *)
(* BalancedSplit cuts every stream on its own, CpuWorker::doMap runs on    *)
(* the chunks, and their contexts are merged in the order of their begin   *)
(* positions, which is an order of time within a stream only.  Beside it,  *)
(* the serial analysis of the same trace.                                  *)
(*                                                                         *)
(* Neither a worker nor a merge looks at the time: the events are drawn    *)
(* first, each into the chunk it belongs to, then the chunks are merged.   *)
(***************************************************************************)
EXTENDS SchedTrace, CpuContext

CONSTANTS
  MaxCuts       (* A bound on the positions a stream is cut at.            *)

ASSUME CpuBalancedAssumption == MaxCuts \in Nat

VARIABLES
  span,         (* The first and the last timestamp of each stream.        *)
  cuts,         (* The positions each stream is cut at.                    *)
  work,         (* The contexts the workers fill, by CPU and chunk.        *)
  left,         (* The chunks that are not merged yet.                     *)
  final,        (* The context the others were reduced to.                 *)
  data, ended   (* The serial analysis; both have ended.                   *)

Serial == INSTANCE CpuSerial

vars == <<running, now, span, cuts, work, left, final, data, ended>>

Times == TraceBegin .. TraceEnd

(* The streams together span the trace, each of them a part of it.         *)
Spans ==
  {s \in [Cpus -> {r \in Times \X Times : r[1] <= r[2]}] :
     /\ \E c \in Cpus : s[c][1] = TraceBegin
     /\ \E c \in Cpus : s[c][2] = TraceEnd}

(* Packets end one after the other, possibly at the same time.             *)
CutLists ==
  {l \in UNION {[1 .. n -> Times] : n \in 0 .. MaxCuts} :
     IsSorted(l, LAMBDA p, q : p <= q)}

Chunks(c) == 1 .. Len(cuts[c]) + 1

AllChunks == {v \in Cpus \X (1 .. MaxCuts + 1) : v[2] \in Chunks(v[1])}

(* The positions of a worker, None where the code passes a null pointer.   *)
BeginPos(c, i) == IF i = 1 THEN None ELSE cuts[c][i - 1] + 1
EndPos(c, i)   == IF i = Len(cuts[c]) + 1 THEN None ELSE cuts[c][i]

(* The context doMap starts from.                                          *)
NewWork(c, i) ==
  NewContext(IF BeginPos(c, i) = None THEN span[c][1] ELSE BeginPos(c, i),
             IF EndPos(c, i) = None THEN span[c][2] ELSE EndPos(c, i))

Init ==
  /\ Serial!Init
  /\ span \in Spans
  /\ cuts \in [Cpus -> CutLists]
  /\ \A c \in Cpus : ToSet(cuts[c]) \subseteq span[c][1] .. span[c][2]
  /\ work = [c \in Cpus |-> [i \in Chunks(c) |-> NewWork(c, i)]]
  /\ left = AllChunks
  /\ final = EmptyContext

(* The chunk that an event of CPU c belongs to.                            *)
ChunkAt(c, ts) == CHOOSE i \in Chunks(c) : ts \in work[c][i].start .. work[c][i].end

Event(c, next, comm, ts) ==
  /\ left = AllChunks
  /\ ts \in span[c][1] .. span[c][2]
  /\ Serial!Event(c, next, comm, ts)
  /\ work' = [work EXCEPT ![c][ChunkAt(c, ts)] =
                HandleSchedSwitch(@, SwitchEvent(c, next, comm, ts))]
  /\ UNCHANGED <<span, cuts, left, final>>

(* Wrong on purpose: the chunks that begin with their stream come last.    *)
BeforeNullLast(v, w) ==
  /\ BeginPos(v[1], v[2]) # None
  /\ BeginPos(w[1], w[2]) # None => BeginPos(v[1], v[2]) < BeginPos(w[1], w[2])

Before(v, w) ==
  /\ BeginPos(w[1], w[2]) # None
  /\ BeginPos(v[1], v[2]) # None => BeginPos(v[1], v[2]) < BeginPos(w[1], w[2])

(* The next chunk in the order of the sort, in which equals may come in    *)
(* any order, is merged.                                                   *)
Reduce ==
  \E w \in left :
    /\ \A v \in left : ~Before(v, w)
    /\ left' = left \ {w}
    /\ final' = Merge(final, work[w[1]][w[2]])
    /\ UNCHANGED <<running, now, span, cuts, work, data, ended>>

(* doEnd, and the end of the serial analysis.                              *)
End ==
  /\ left = {}
  /\ Serial!End
  /\ final' = PatchEndTasks(final)
  /\ UNCHANGED <<span, cuts, work, left>>

Finished == ended /\ UNCHANGED vars

Next ==
  \/ \E c \in Cpus, next \in AllTids, ts \in now .. TraceEnd :
       \E comm \in Names(c) : Event(c, next, comm, ts)
  \/ Reduce
  \/ End
  \/ Finished

Spec == Init /\ [][Next]_vars

-------------------------------------------------------------------------------
(* The balanced analysis reports the CPUs and the threads that the serial  *)
(* one reports, with the same times: merging streams that overlap in time, *)
(* and chunks that begin at the same time in any order, neither loses nor  *)
(* repeats a run (traceanalysis.h:285, cpucontext.cpp:131-173).            *)
SameTimes ==
  ended =>
    /\ \A c \in Cpus : /\ final.cpus[c].present = data.cpus[c].present
                       /\ final.cpus[c].cpu_ns = data.cpus[c].cpu_ns
    /\ \A t \in AllTids : /\ final.tids[t].present = data.tids[t].present
                          /\ final.tids[t].cpu_ns = data.tids[t].cpu_ns
                          /\ final.tids[t].tid = data.tids[t].tid

(* The percentages are relative to the whole trace, although no stream     *)
(* need span it (cpucontext.cpp:102-108).                                  *)
SameSpan == ended => final.start = data.start /\ final.end = data.end

SeenOn(t) == {c \in Cpus : \E i \in Chunks(c) : work[c][i].tids[t].present}

(* A thread that was switched out on one CPU only has its latest name.     *)
(* One that migrates may be shown under an older one: the chunk merged     *)
(* last need not be the latest of those that saw it (cpucontext.cpp:125).  *)
PinnedSameNames ==
  ended => \A t \in AllTids :
    Cardinality(SeenOn(t)) <= 1 => final.tids[t].comm = data.tids[t].comm
===============================================================================
