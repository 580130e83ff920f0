--------------------------- MODULE CpuAnalysisProofs ---------------------------
(***************************************************************************)
(* On a trace without discarded events the parallel and the serial CPU     *)
(* analysis both implement CpuUsage and report the same, wherever the      *)
(* trace is cut, however long it is and however many CPUs, threads, names  *)
(* and chunks there are.                                                   *)
(*                                                                         *)
(* First the parallel analysis.  Its properties are not inductive.  What   *)
(* has to be carried along is how the two contexts relate to the machine:  *)
(* the task a CPU is left with by the chunks before is the one it still    *)
(* runs until the current chunk sees the CPU (Left), and from then on the  *)
(* current chunk has recorded the end of that run and knows what the CPU   *)
(* runs (Seen).                                                            *)
(*                                                                         *)
(* Then the serial one.  Both implement CpuUsage, which leaves no choice   *)
(* but the trace; it is enough that their accounts start equal and make    *)
(* the same steps.  They close the trace at different moments, so          *)
(* afterwards they agree on what they charge by the end of the trace       *)
(* (Owed).  What CpuUsage does not speak of, which entries of the tables   *)
(* exist and under which thread id, is followed on its own (Entries,       *)
(* Recorded).                                                              *)
(***************************************************************************)
EXTENDS CpuAnalysis, CpuContextProofs

(* The bounds of the contexts, range by range.                             *)
Spans ==
  IF phase = "map"
  THEN /\ work.end \in TraceBegin .. TraceEnd
       /\ work.start <= work.end + 1
       /\ chunk = Threads => work.end = TraceEnd
       /\ IF chunk = 1
          THEN work.start = TraceBegin /\ final.start = 0 /\ final.end = 0
          ELSE /\ final.start = TraceBegin
               /\ final.end \in TraceBegin .. TraceEnd
               /\ work.start = final.end + 1
  ELSE final.start = TraceBegin /\ final.end = TraceEnd

(* A thread runs on one CPU at a time.                                     *)
OneCpu == \A c, d \in Cpus : running[c] = running[d] /\ running[c] # Idle => c = d

(* The Cpu the current chunk holds.                                        *)
Seen ==
  \A c \in Cpus :
    LET new == work.cpus[c] IN
    /\ ~new.present => new.cpu_ns = 0 /\ new.currentTask = None /\ new.unknownTask = None
    /\ new.present /\ new.currentTask = None => running[c] = Idle
    /\ new.currentTask # None => new.currentTask.tid = running[c]
    /\ StartedBefore(new, now)

(* The Cpu the chunks before left.                                         *)
Left ==
  \A c \in Cpus :
    LET old == final.cpus[c]
        new == work.cpus[c]
    IN  /\ StartedBefore(old, now)
        /\ old.currentTask # None =>
             IF new.present
             THEN /\ new.unknownTask # None
                  /\ new.unknownTask.tid = old.currentTask.tid
                  /\ old.currentTask.start <= new.unknownTask.end
             ELSE old.currentTask.tid = running[c]

(* Nothing is left to merge after the last chunk, nothing to charge after  *)
(* the end.                                                                *)
Phases ==
  /\ phase # "map" => work = EmptyContext
  /\ phase = "done" => \A c \in Cpus : final.cpus[c].currentTask = None

IInv == TypeOK /\ Spans /\ OneCpu /\ Seen /\ Left /\ Alone(final) /\ Phases

(* The invariant is what merge needs.                                      *)
LEMMA MergeReady ==
  IInv => /\ StopsLater(final, work)
          /\ Alone(final)
          /\ work \in Contexts /\ final \in Contexts
          /\ \A c \in Cpus : /\ CpuNow(c) \in Cpu
                             /\ StartedBefore(CpuNow(c), now)
                             /\ CpuNow(c).currentTask # None =>
                                  CpuNow(c).currentTask.tid = running[c]
<1> SUFFICES ASSUME IInv
             PROVE  /\ StopsLater(final, work)
                    /\ Alone(final)
                    /\ work \in Contexts /\ final \in Contexts
                    /\ \A c \in Cpus : /\ CpuNow(c) \in Cpu
                                       /\ StartedBefore(CpuNow(c), now)
                                       /\ CpuNow(c).currentTask # None =>
                                            CpuNow(c).currentTask.tid = running[c]
  OBVIOUS
<1>1. work \in Contexts /\ final \in Contexts /\ Alone(final)
  BY DEF IInv, TypeOK
<1>2. StopsLater(final, work)
  BY DEF IInv, Seen, Left, StopsLater, Continued
<1>3. ASSUME NEW c \in Cpus
      PROVE  /\ CpuNow(c) \in Cpu
             /\ StartedBefore(CpuNow(c), now)
             /\ CpuNow(c).currentTask # None => CpuNow(c).currentTask.tid = running[c]
  <2>1. CpuNow(c) \in Cpu
    BY <1>1, <1>2, MergeCpuType DEF CpuNow
  <2>2. CpuNow(c).currentTask =
          IF final.cpus[c].currentTask # None /\ work.cpus[c].unknownTask = None
          THEN final.cpus[c].currentTask ELSE work.cpus[c].currentTask
    BY DEF CpuNow, MergeCpu, KeepsTask
  <2>3. CASE final.cpus[c].currentTask # None /\ work.cpus[c].unknownTask = None
    BY <2>1, <2>2, <2>3 DEF IInv, Left, StartedBefore
  <2>4. CASE ~(final.cpus[c].currentTask # None /\ work.cpus[c].unknownTask = None)
    BY <2>1, <2>2, <2>4 DEF IInv, Seen, StartedBefore
  <2> QED
    BY <2>1, <2>3, <2>4
<1> QED
  BY <1>1, <1>2, <1>3

(* A worker's context is the fresh context of a range that ends in time.   *)
LEMMA NewWorkIsNew ==
  ASSUME NEW i, NEW begin, NEW w, w \in NewWork(i, begin)
  PROVE  \E p \in EndPositions(i) : p >= begin - 1 /\ w = NewContext(begin, p)
BY DEF NewWork

(* After a reduction the next worker starts from a fresh context, or there *)
(* is none.                                                                *)
LEMMA NextWork ==
  ASSUME TypeOK, Reduce
  PROVE  \E s, e \in Nat :
           /\ work' = NewContext(s, e)
           /\ \/ /\ chunk < Threads /\ chunk' = chunk + 1 /\ phase' = "map"
                 /\ s = work.end + 1 /\ e >= work.end /\ e \in TraceBegin .. TraceEnd
                 /\ chunk' = Threads => e = TraceEnd
              \/ /\ chunk = Threads /\ chunk' = chunk /\ phase' = "reduced"
                 /\ work' = EmptyContext
<1> USE TracedSystemAssumption, CpuChunksAssumption
<1>0. chunk \in 1 .. Threads /\ TraceBegin \in Nat /\ TraceEnd \in Nat
  BY DEF TypeOK
<1>1. work.end \in Nat
  BY DEF TypeOK, Contexts
<1>2. CASE chunk < Threads
  <2>1. work' \in NewWork(chunk + 1, work.end + 1)
    BY <1>2 DEF Reduce
  <2> DEFINE begin == work.end + 1
  <2> HIDE DEF begin
  <2>2. PICK p \in EndPositions(chunk + 1) : p >= begin - 1 /\ work' = NewContext(begin, p)
    BY <2>1, NewWorkIsNew DEF begin
  <2>3. /\ p \in TraceBegin .. TraceEnd /\ p \in Nat /\ work.end + 1 \in Nat
        /\ chunk + 1 = Threads => p = TraceEnd
        /\ p >= work.end /\ work' = NewContext(work.end + 1, p)
    BY <1>0, <1>1, <2>2 DEF EndPositions, begin
  <2> QED
    BY <1>0, <1>1, <1>2, <2>3 DEF Reduce
<1>3. CASE ~(chunk < Threads)
  <2>1. chunk = Threads /\ chunk' = chunk /\ phase' = "reduced" /\ work' = EmptyContext
    BY <1>0, <1>3 DEF Reduce
  <2>2. work' = NewContext(0, 0)
    BY <2>1 DEF EmptyContext
  <2> QED
    BY <2>1, <2>2
<1> QED
  BY <1>2, <1>3

(* The bounds of the merged context are those of the trace read so far.    *)
LEMMA ReduceSpans ==
  ASSUME TypeOK, Spans, Reduce
  PROVE  Spans'
<1> USE TracedSystemAssumption, CpuChunksAssumption
<1>1. /\ phase = "map" /\ final' = Merge(final, work) /\ chunk \in 1 .. Threads
      /\ TraceBegin \in Nat /\ TraceEnd \in Nat /\ TraceBegin # 0 /\ TraceBegin <= TraceEnd
  BY DEF Reduce, TypeOK
<1>2. PICK s \in Nat, e \in Nat :
        /\ work' = NewContext(s, e)
        /\ \/ /\ chunk < Threads /\ chunk' = chunk + 1 /\ phase' = "map"
              /\ s = work.end + 1 /\ e >= work.end /\ e \in TraceBegin .. TraceEnd
              /\ chunk' = Threads => e = TraceEnd
           \/ /\ chunk = Threads /\ chunk' = chunk /\ phase' = "reduced"
              /\ work' = EmptyContext
  BY NextWork
<1>3. work'.start = s /\ work'.end = e
  BY <1>2, NewContextType
<1>4. /\ final'.start = IF work.start < final.start \/ final.start = 0
                       THEN work.start ELSE final.start
      /\ final'.end = IF work.end > final.end THEN work.end ELSE final.end
  BY <1>1 DEF Merge, MergedStart
<1>5. final'.start = TraceBegin /\ final'.end = work.end /\ work.end \in TraceBegin .. TraceEnd
  <2>1. CASE chunk = 1
    BY <1>1, <1>4, <2>1 DEF Spans
  <2>2. CASE chunk # 1
    BY <1>1, <1>4, <2>2 DEF Spans
  <2> QED
    BY <2>1, <2>2
<1> QED
  BY <1>1, <1>2, <1>3, <1>5 DEF Spans

-------------------------------------------------------------------------------
(* What holds on any trace, also on one with discarded events: how the     *)
(* contexts relate to the ranges and to the time, and their totals.        *)
InRange ==
  \A c \in Cpus :
    LET old == final.cpus[c]
        new == work.cpus[c]
    IN  /\ StartedBefore(old, now) /\ StartedBefore(new, now)
        /\ new.unknownTask # None => work.start <= new.unknownTask.end
        /\ phase = "map" =>
             /\ StartedBefore(new, work.end)
             /\ old.currentTask # None => old.currentTask.start < work.start

(* Within a chunk the totals are the same; merging may only charge the     *)
(* CPUs more.                                                              *)
Balanced ==
  /\ CpuTotal(work) = TidTotal(work)
  /\ TidTotal(final) <= CpuTotal(final)

AnyTraceInv == TypeOK /\ Spans /\ Phases /\ InRange /\ Balanced

(* The initial contexts are empty.                                         *)
LEMMA InitAnyTrace == Init => AnyTraceInv
<1> SUFFICES ASSUME Init PROVE AnyTraceInv
  OBVIOUS
<1> USE TracedSystemAssumption, CpuChunksAssumption
<1>1. /\ TraceBegin \in Nat /\ TraceEnd \in Nat /\ TraceBegin <= TraceEnd
      /\ now = TraceBegin /\ running \in [Cpus -> AllTids]
      /\ chunk = 1 /\ phase = "map" /\ final = NewContext(0, 0)
  BY DEF Init, TraceInit, EmptyContext
<1>2. PICK p \in EndPositions(1) : work = NewContext(TraceBegin, p)
  BY DEF Init, NewWork
<1>3. p \in Nat /\ TraceBegin <= p /\ p <= TraceEnd /\ (1 = Threads => p = TraceEnd)
  BY <1>1, <1>2 DEF EndPositions
<1>4. /\ work \in Contexts /\ work.start = TraceBegin /\ work.end = p
      /\ final \in Contexts /\ final.start = 0 /\ final.end = 0
      /\ \A c \in Cpus : work.cpus[c] = NewCpu /\ final.cpus[c] = NewCpu
  BY <1>1, <1>2, <1>3, NewContextType
<1>5. TypeOK /\ Spans /\ Phases
  BY <1>1, <1>3, <1>4 DEF TypeOK, Spans, Phases
<1>6. InRange
  BY <1>4 DEF InRange, StartedBefore, NewCpu
<1>7. Balanced
  BY <1>1, <1>2, <1>3, NewTotals DEF Balanced
<1> QED
  BY <1>5, <1>6, <1>7 DEF AnyTraceInv

(* A switch charges a CPU and a thread of the chunk alike.                 *)
LEMMA MapEventAnyTrace ==
  ASSUME AnyTraceInv, NEW c \in Cpus, NEW next \in AllTids, NEW comm \in Comms,
         NEW ts \in now .. TraceEnd, MapEvent(c, next, comm, ts)
  PROVE  AnyTraceInv'
<1> USE TracedSystemAssumption
<1> DEFINE e == SwitchEvent(c, next, comm, ts)
<1>1. /\ e \in Events /\ e.cpu_id = c /\ e.timestamp = ts /\ e.next_tid = next
      /\ ts \in Nat /\ now \in Nat /\ now <= ts /\ ts <= TraceEnd /\ TraceBegin <= now
  BY DEF SwitchEvent, Events, AnyTraceInv, TypeOK
<1>2. /\ phase = "map" /\ phase' = phase /\ chunk' = chunk /\ final' = final
      /\ running' = [running EXCEPT ![c] = next] /\ now' = ts
      /\ work' = HandleSchedSwitch(work, e)
      /\ ts \in work.start .. work.end
  BY DEF MapEvent, Switch
<1> HIDE DEF e
<1>3. /\ work \in Contexts /\ final \in Contexts
      /\ \A d \in Cpus : work.cpus[d] \in Cpu /\ final.cpus[d] \in Cpu
  BY DEF AnyTraceInv, TypeOK, Contexts
<1>4. \A d \in Cpus : StartedBefore(work.cpus[d], ts) /\ StartedBefore(final.cpus[d], ts)
  BY <1>1, <1>3, CpuFields DEF AnyTraceInv, InRange, StartedBefore
<1>5. work' \in Contexts
  BY <1>1, <1>2, <1>3, <1>4, HandleType
<1>6. /\ work'.cpus = [work.cpus EXCEPT ![c] = SwitchCpu(work.cpus[c], e)]
      /\ work'.start = work.start /\ work'.end = work.end
  BY <1>1, <1>2 DEF HandleSchedSwitch
<1>7. /\ \A d \in Cpus \ {c} : work'.cpus[d] = work.cpus[d]
      /\ work'.cpus[c].currentTask # None => work'.cpus[c].currentTask.start = ts
      /\ work'.cpus[c].unknownTask # None =>
           \/ work'.cpus[c].unknownTask = work.cpus[c].unknownTask
           \/ work'.cpus[c].unknownTask.end = ts
  BY <1>1, <1>3, <1>6 DEF SwitchCpu, NextTask, Contexts
<1>8. TypeOK' /\ Spans' /\ Phases'
  BY <1>1, <1>2, <1>5, <1>6 DEF AnyTraceInv, TypeOK, Spans, Phases
<1>9. InRange'
  <2>1. ASSUME NEW d \in Cpus
        PROVE  LET old == final'.cpus[d]
                   new == work'.cpus[d]
               IN  /\ StartedBefore(old, now') /\ StartedBefore(new, now')
                   /\ new.unknownTask # None => work'.start <= new.unknownTask.end
                   /\ phase' = "map" =>
                        /\ StartedBefore(new, work'.end)
                        /\ old.currentTask # None => old.currentTask.start < work'.start
    <3>1. CASE d = c
      BY <1>1, <1>2, <1>4, <1>6, <1>7, <3>1 DEF AnyTraceInv, InRange, StartedBefore
    <3>2. CASE d # c
      BY <1>1, <1>2, <1>4, <1>6, <1>7, <3>2 DEF AnyTraceInv, InRange
    <3> QED
      BY <3>1, <3>2
  <2> QED
    BY <2>1 DEF InRange
<1>10. Balanced'
  BY <1>1, <1>2, <1>3, <1>4, HandleTotals, Totals DEF AnyTraceInv, Balanced
<1> QED
  BY <1>8, <1>9, <1>10 DEF AnyTraceInv

(* A switch nobody handles changes no context.                             *)
LEMMA DiscardedAnyTrace ==
  ASSUME AnyTraceInv, NEW c \in Cpus, NEW next \in AllTids,
         NEW ts \in now .. TraceEnd, DiscardedEvent(c, next, ts)
  PROVE  AnyTraceInv'
<1> USE TracedSystemAssumption
<1>1. /\ ts \in Nat /\ now \in Nat /\ now <= ts /\ ts <= TraceEnd /\ TraceBegin <= now
      /\ running' = [running EXCEPT ![c] = next] /\ now' = ts
      /\ UNCHANGED <<chunk, work, final, phase, printed>>
  BY DEF AnyTraceInv, TypeOK, DiscardedEvent, Switch
<1>2. TypeOK' /\ Spans' /\ Phases' /\ Balanced'
  BY <1>1 DEF AnyTraceInv, TypeOK, Spans, Phases, Balanced
<1>3. \A d \in Cpus : StartedBefore(work.cpus[d], ts) /\ StartedBefore(final.cpus[d], ts)
  <2> TAKE d \in Cpus
  <2>1. work.cpus[d] \in Cpu /\ final.cpus[d] \in Cpu
    BY DEF AnyTraceInv, TypeOK, Contexts
  <2> QED
    BY <1>1, <2>1, CpuFields DEF AnyTraceInv, InRange, StartedBefore
<1>4. InRange'
  BY <1>1, <1>3 DEF AnyTraceInv, InRange
<1> QED
  BY <1>2, <1>4 DEF AnyTraceInv

(* An unfinished task of the chunks before started before this chunk, so   *)
(* no merge charges a negative time.                                       *)
LEMMA ReduceAnyTrace == AnyTraceInv /\ Reduce => AnyTraceInv'
<1> SUFFICES ASSUME AnyTraceInv, Reduce PROVE AnyTraceInv'
  OBVIOUS
<1> USE TracedSystemAssumption, CpuChunksAssumption
<1>1. /\ phase = "map" /\ final' = Merge(final, work)
      /\ running' = running /\ now' = now
      /\ chunk \in 1 .. Threads /\ now \in Nat
      /\ work \in Contexts /\ final \in Contexts
      /\ work.start \in Nat /\ work.end \in Nat /\ work.start <= work.end + 1
  BY DEF Reduce, AnyTraceInv, TypeOK, Contexts, Spans
<1>2. PICK s \in Nat, e \in Nat :
        /\ work' = NewContext(s, e)
        /\ \/ /\ chunk < Threads /\ chunk' = chunk + 1 /\ phase' = "map"
              /\ s = work.end + 1 /\ e >= work.end /\ e \in TraceBegin .. TraceEnd
              /\ chunk' = Threads => e = TraceEnd
           \/ /\ chunk = Threads /\ chunk' = chunk /\ phase' = "reduced"
              /\ work' = EmptyContext
  BY NextWork DEF AnyTraceInv
<1>3. /\ work' \in Contexts /\ work'.start = s /\ work'.end = e
      /\ \A c \in Cpus : /\ work'.cpus[c].currentTask = None
                         /\ work'.cpus[c].unknownTask = None
  BY <1>2, NewContextType DEF NewCpu
<1>4. \A c \in Cpus : /\ final.cpus[c] \in Cpu /\ work.cpus[c] \in Cpu
                      /\ final.cpus[c].currentTask # None =>
                           /\ final.cpus[c].currentTask.start \in Nat
                           /\ final.cpus[c].currentTask.start < work.start
                           /\ final.cpus[c].currentTask.start <= now
                      /\ work.cpus[c].currentTask # None =>
                           /\ work.cpus[c].currentTask.start \in Nat
                           /\ work.cpus[c].currentTask.start <= work.end
                           /\ work.cpus[c].currentTask.start <= now
                      /\ work.cpus[c].unknownTask # None =>
                           /\ work.cpus[c].unknownTask.end \in Nat
                           /\ work.start <= work.cpus[c].unknownTask.end
  <2> TAKE c \in Cpus
  <2>1. final.cpus[c] \in Cpu /\ work.cpus[c] \in Cpu
    BY <1>1 DEF Contexts
  <2> QED
    BY <1>1, <2>1, CpuFields DEF AnyTraceInv, InRange, StartedBefore
<1>5. StopsLater(final, work)
  BY <1>1, <1>4 DEF StopsLater, Continued
<1>6. /\ final' \in Contexts
      /\ \A c \in Cpus : final'.cpus[c] = MergeCpu(final, work, c)
  BY <1>1, <1>5, MergeType
<1>7. TypeOK' /\ Phases' /\ Spans'
  BY <1>1, <1>2, <1>3, <1>6, ReduceSpans DEF AnyTraceInv, TypeOK, Phases
<1>8. \A c \in Cpus : final'.cpus[c].currentTask # None =>
                        /\ final'.cpus[c].currentTask.start <= now
                        /\ final'.cpus[c].currentTask.start < work.end + 1
  <2> TAKE c \in Cpus
  <2>1. final'.cpus[c] = MergeCpu(final, work, c)
    BY <1>6
  <2>2. MergeCpu(final, work, c).currentTask =
          IF KeepsTask(final.cpus[c], work.cpus[c])
          THEN final.cpus[c].currentTask ELSE work.cpus[c].currentTask
    BY DEF MergeCpu
  <2> QED
    BY <1>1, <1>4, <2>1, <2>2
<1>9. InRange'
  BY <1>1, <1>2, <1>3, <1>8 DEF InRange, StartedBefore
<1>10. Balanced'
  <2>1. CpuTotal(work') = 0 /\ TidTotal(work') = 0
    BY <1>2, NewTotals
  <2>2. PICK cpu \in Nat, tid \in Nat :
          /\ tid <= cpu
          /\ CpuTotal(final') = CpuTotal(final) + CpuTotal(work) + cpu
          /\ TidTotal(final') = TidTotal(final) + TidTotal(work) + tid
    BY <1>1, <1>5, MergeTotals
  <2>3. /\ CpuTotal(final) \in Nat /\ CpuTotal(work) \in Nat
        /\ TidTotal(final) \in Nat /\ TidTotal(work) \in Nat
    BY <1>1, Totals
  <2>4. TidTotal(final') <= CpuTotal(final')
    BY <2>2, <2>3 DEF AnyTraceInv, Balanced
  <2> QED
    BY <2>1, <2>4 DEF Balanced
<1> QED
  BY <1>7, <1>9, <1>10 DEF AnyTraceInv

(* The last runs are charged to CPUs and threads alike.                    *)
LEMMA EndAnyTrace == AnyTraceInv /\ End => AnyTraceInv'
<1> SUFFICES ASSUME AnyTraceInv, End PROVE AnyTraceInv'
  OBVIOUS
<1> USE TracedSystemAssumption
<1>1. /\ phase = "reduced" /\ phase' = "done" /\ final' = PatchEndTasks(final)
      /\ running' = running /\ now' = now /\ chunk' = chunk /\ work' = work
      /\ final \in Contexts /\ final.end = TraceEnd /\ TraceEnd \in Nat
      /\ now \in Nat /\ now <= TraceEnd
  BY DEF End, AnyTraceInv, TypeOK, Spans
<1>2. \A c \in Cpus : StartedBefore(final.cpus[c], final.end)
  <2> TAKE c \in Cpus
  <2>1. final.cpus[c] \in Cpu
    BY <1>1 DEF Contexts
  <2> QED
    BY <1>1, <2>1, CpuFields DEF AnyTraceInv, InRange, StartedBefore
<1>3. /\ final' \in Contexts
      /\ \E d \in Nat : /\ CpuTotal(final') = CpuTotal(final) + d
                        /\ TidTotal(final') = TidTotal(final) + d
  BY <1>1, <1>2, EndTotals
<1>4. /\ final'.start = final.start /\ final'.end = final.end
      /\ \A c \in Cpus : final'.cpus[c].currentTask = None
  BY <1>1 DEF PatchEndTasks, EndCpu
<1>5. TypeOK' /\ Spans' /\ Phases'
  BY <1>1, <1>3, <1>4 DEF AnyTraceInv, TypeOK, Spans, Phases
<1>6. InRange'
  BY <1>1, <1>4 DEF AnyTraceInv, InRange, StartedBefore
<1>7. Balanced'
  BY <1>1, <1>3, Totals DEF AnyTraceInv, Balanced
<1> QED
  BY <1>5, <1>6, <1>7 DEF AnyTraceInv

(* A step of the parallel analysis keeps what holds on any trace, with     *)
(* discarded events or without, ...                                        *)
LEMMA StepAnyTrace == AnyTraceInv /\ [Next]_vars => AnyTraceInv'
<1> SUFFICES ASSUME AnyTraceInv, [Next]_vars PROVE AnyTraceInv'
  OBVIOUS
<1>1. ASSUME NEW c \in Cpus, NEW next \in AllTids, NEW ts \in now .. TraceEnd,
             NEW comm \in Comms, MapEvent(c, next, comm, ts)
      PROVE  AnyTraceInv'
  BY <1>1, MapEventAnyTrace
<1>2. ASSUME NEW c \in Cpus, NEW next \in AllTids, NEW ts \in now .. TraceEnd,
             DiscardedEvent(c, next, ts)
      PROVE  AnyTraceInv'
  BY <1>2, DiscardedAnyTrace
<1>3. CASE Reduce
  BY <1>3, ReduceAnyTrace
<1>4. CASE End
  BY <1>4, EndAnyTrace
<1>5. CASE UNCHANGED vars
  BY <1>5 DEF vars, AnyTraceInv, TypeOK, Spans, Phases, InRange, Balanced
<1>6. CASE Finished
  BY <1>5, <1>6 DEF Finished
<1> QED
  BY <1>1, <1>2, <1>3, <1>4, <1>5, <1>6 DEF Next

(* ... so it holds always.                                                 *)
LEMMA AnyTraceInvariance == Spec => []AnyTraceInv
BY InitAnyTrace, StepAnyTrace, PTL DEF Spec

(* Every state of the analysis is well typed, events discarded or not: in  *)
(* particular no duration is ever negative (TypeOK).                       *)
THEOREM WellTyped == Spec => []TypeOK
<1>1. AnyTraceInv => TypeOK
  BY DEF AnyTraceInv
<1> QED
  BY <1>1, AnyTraceInvariance, PTL

(* The percentages are relative to the length of the trace (SpanIsTrace).  *)
THEOREM SpanOfReport == Spec => []SpanIsTrace
<1>1. AnyTraceInv => SpanIsTrace
  BY DEF AnyTraceInv, Spans, SpanIsTrace
<1> QED
  BY <1>1, AnyTraceInvariance, PTL

(* Whatever events were discarded, the threads together are never charged  *)
(* more than the CPUs together (ThreadsWithinCpus).                        *)
THEOREM ThreadsNeverExceedCpus == Spec => []ThreadsWithinCpus
<1>1. AnyTraceInv => ThreadsWithinCpus
  BY DEF AnyTraceInv, Balanced, ThreadsWithinCpus
<1> QED
  BY <1>1, AnyTraceInvariance, PTL

(* Threads without an entry have no time, so the list does not miss them.  *)
Listing == NoTimeUnseen(work) /\ NoTimeUnseen(final) /\ HeaviestPrinted

(* The end lists the threads by their final times.                         *)
LEMMA EndListing ==
  ASSUME AnyTraceInv, AnyTraceInv', Listing, End
  PROVE  Listing'
<1>1. /\ phase' = "done" /\ work' = work /\ final' = PatchEndTasks(final)
      /\ \E l \in SortedTids(final') :
           printed' = SubSeq(l, 1, IF Len(l) < MaxPrinted THEN Len(l) ELSE MaxPrinted)
  BY DEF End
<1>2. PICK l \in SortedTids(final') :
        printed' = SubSeq(l, 1, IF Len(l) < MaxPrinted THEN Len(l) ELSE MaxPrinted)
  BY <1>1
<1>3. Len(l) \in Nat
  BY ListLength
<1>4. PICK n \in 0 .. Len(l) : printed' = SubSeq(l, 1, n)
  BY <1>2, <1>3, CpuChunksAssumption
<1>5. final' \in Contexts /\ NoTimeUnseen(final')
  BY <1>1, NoTimeEnd DEF AnyTraceInv, TypeOK, Listing
<1>6. /\ DOMAIN printed' = 1 .. n
      /\ \A i \in 1 .. n, t \in AllTids \ ToSet(printed') :
           final'.tids[t].cpu_ns <= final'.tids[printed'[i]].cpu_ns
  BY <1>4, <1>5, ListedHeaviest
<1> QED
  BY <1>1, <1>5, <1>6 DEF Listing, HeaviestPrinted

(* Nothing else lists them.                                                *)
LEMMA StepListing ==
  ASSUME AnyTraceInv, AnyTraceInv', Listing, [Next]_vars
  PROVE  Listing'
<1>1. ASSUME NEW c \in Cpus, NEW next \in AllTids, NEW ts \in now .. TraceEnd,
             NEW comm \in Comms, MapEvent(c, next, comm, ts)
      PROVE  Listing'
  <2> DEFINE e == SwitchEvent(c, next, comm, ts)
  <2>1. /\ phase' # "done" /\ final' = final /\ work' = HandleSchedSwitch(work, e)
        /\ work \in Contexts
    BY <1>1 DEF MapEvent, AnyTraceInv, TypeOK
  <2>2. e \in Events
    BY TracedSystemAssumption DEF SwitchEvent, Events, AnyTraceInv, TypeOK
  <2> HIDE DEF e
  <2>3. NoTimeUnseen(work')
    BY <2>1, <2>2, NoTimeSwitch DEF Listing
  <2> QED
    BY <2>1, <2>3 DEF Listing, HeaviestPrinted, NoTimeUnseen
<1>2. ASSUME NEW c \in Cpus, NEW next \in AllTids, NEW ts \in now .. TraceEnd,
             DiscardedEvent(c, next, ts)
      PROVE  Listing'
  BY <1>2 DEF DiscardedEvent, Listing, HeaviestPrinted, NoTimeUnseen
<1>3. CASE Reduce
  <2>1. /\ phase' # "done" /\ final' = Merge(final, work)
        /\ \E s, e : work' = NewContext(s, e)
    BY <1>3 DEF Reduce, NewWork, EmptyContext
  <2>2. NoTimeUnseen(final') /\ NoTimeUnseen(work')
    BY <2>1, NoTimeMerge, NoTimeNew DEF Listing
  <2> QED
    BY <2>1, <2>2 DEF Listing, HeaviestPrinted
<1>4. CASE End
  BY <1>4, EndListing
<1>5. CASE UNCHANGED vars
  BY <1>5 DEF vars, Listing, HeaviestPrinted, NoTimeUnseen
<1> QED
  BY <1>1, <1>2, <1>3, <1>4, <1>5 DEF Next, Finished

(* The threads printed are the heaviest ones, whatever order the hash      *)
(* lists equals in and however many are printed (HeaviestPrinted).         *)
THEOREM HeaviestArePrinted == Spec => []HeaviestPrinted
<1>1. Init => Listing
  BY NoTimeNew DEF Init, NewWork, EmptyContext, Listing, HeaviestPrinted
<1>2. Listing => HeaviestPrinted
  BY DEF Listing
<1> QED
  BY <1>1, <1>2, StepListing, AnyTraceInvariance, PTL DEF Spec

-------------------------------------------------------------------------------
(* From here on no event is discarded.                                     *)

(* Before the first event nothing is accounted for.                        *)
LEMMA InitRefines == Init => IInv /\ Usage!Init
<1> SUFFICES ASSUME Init PROVE IInv /\ Usage!Init
  OBVIOUS
<1> USE TracedSystemAssumption, CpuChunksAssumption
<1>1. /\ TraceBegin \in Nat /\ TraceEnd \in Nat /\ TraceBegin <= TraceEnd
      /\ now = TraceBegin /\ running \in [Cpus -> AllTids]
      /\ \A c \in Cpus : running[c] # Idle => ~RunsElsewhere(running[c], c)
      /\ chunk = 1 /\ phase = "map" /\ final = EmptyContext
  BY DEF Init, TraceInit
<1>2. PICK p \in EndPositions(1) : work = NewContext(TraceBegin, p)
  BY DEF Init, NewWork
<1>3. p \in Nat /\ TraceBegin <= p /\ p <= TraceEnd /\ (1 = Threads => p = TraceEnd)
  BY <1>1, <1>2 DEF EndPositions
<1>4. /\ work \in Contexts /\ work.start = TraceBegin /\ work.end = p
      /\ \A c \in Cpus : work.cpus[c] = NewCpu
  BY <1>1, <1>2, <1>3, NewContextType
<1>5. /\ final \in Contexts /\ final.start = 0 /\ final.end = 0
      /\ \A c \in Cpus : final.cpus[c] = NewCpu
      /\ \A t \in AllTids : final.tids[t] = NewProcess
  BY <1>1, NewContextType DEF EmptyContext
<1>6. /\ NewCpu.present = FALSE /\ NewCpu.cpu_ns = 0
      /\ NewCpu.currentTask = None /\ NewCpu.unknownTask = None
  BY DEF NewCpu
<1>7. TypeOK
  BY <1>1, <1>4, <1>5 DEF TypeOK
<1>8. Spans
  BY <1>1, <1>3, <1>4, <1>5 DEF Spans
<1>9. OneCpu
  BY <1>1 DEF OneCpu, RunsElsewhere
<1>10. Seen /\ Left /\ Alone(final) /\ Phases
  BY <1>1, <1>4, <1>5, <1>6 DEF Seen, Left, Alone, Phases, StartedBefore
<1>11. /\ \A c \in Cpus : CpuNow(c).cpu_ns = 0 /\ CpuNow(c).currentTask = None
       /\ \A t \in AllTids : ThreadNow(t).cpu_ns = 0 /\ ThreadNow(t).comm = NoComm
  <2>1. NewProcess.cpu_ns = 0 /\ NewProcess.comm = NoComm
    BY DEF NewProcess
  <2>2. /\ \A c \in Cpus : /\ CpuNow(c).cpu_ns = final.cpus[c].cpu_ns
                           /\ CpuNow(c).currentTask = final.cpus[c].currentTask
        /\ \A t \in AllTids : /\ ThreadNow(t).cpu_ns = final.tids[t].cpu_ns
                              /\ ThreadNow(t).comm = final.tids[t].comm
    BY <1>1, <1>2, <1>3, <1>5, <1>10, MergeWithNew DEF CpuNow, ThreadNow
  <2> QED
    BY <1>5, <1>6, <2>1, <2>2
<1>12. /\ Since = [c \in Cpus |-> None] /\ Busy = [c \in Cpus |-> 0]
       /\ Spent = [t \in AllTids |-> 0] /\ Name = [t \in AllTids |-> NoComm]
  BY <1>11 DEF Since, Busy, Spent, Name
<1>13. Usage!Init
  BY <1>1, <1>12 DEF RunsElsewhere, AllTids, Usage!Init, Usage!TraceInit,
                     Usage!RunsElsewhere, Usage!AllTids
<1> QED
  BY <1>7, <1>8, <1>9, <1>10, <1>13 DEF IInv

(* The elapsed time CpuUsage speaks of is the one of the merged context.   *)
LEMMA ElapsedIsRan ==
  ASSUME IInv, NEW c \in Cpus, NEW ts \in Nat
  PROVE  Usage!Elapsed(c, ts) = Ran(CpuNow(c), ts)
<1>1. CpuNow(c).currentTask # None => CpuNow(c).currentTask.start \in Nat
  BY MergeReady, CpuFields
<1> QED
  BY <1>1, CpuContextAssumption DEF Since, Ran, Usage!Elapsed

(* A switch handled by a worker is accounted for as CpuUsage does.         *)
LEMMA MapEventRefines ==
  ASSUME IInv, NEW c \in Cpus, NEW next \in AllTids, NEW comm \in Comms,
         NEW ts \in now .. TraceEnd, MapEvent(c, next, comm, ts)
  PROVE  IInv' /\ Usage!Account(c, next, comm, ts)
<1> USE TracedSystemAssumption
<1> DEFINE e == SwitchEvent(c, next, comm, ts)
           prev == running[c]
           task == IF next # Idle THEN [start |-> ts, tid |-> next] ELSE None
<1>1. /\ e \in Events /\ e.cpu_id = c /\ e.prev_tid = prev /\ e.next_tid = next
      /\ e.timestamp = ts /\ e.prev_comm = comm
      /\ prev \in AllTids /\ ts \in Nat /\ now \in Nat /\ now <= ts /\ ts <= TraceEnd
      /\ TraceBegin <= now
  BY DEF SwitchEvent, Events, IInv, TypeOK
<1>2. /\ phase = "map" /\ phase' = phase /\ chunk' = chunk /\ final' = final
      /\ Switch(c, next, ts)
      /\ running' = [running EXCEPT ![c] = next] /\ now' = ts
      /\ next # prev /\ (next # Idle => ~RunsElsewhere(next, c))
      /\ work' = HandleSchedSwitch(work, e)
  BY DEF MapEvent, Switch
<1> HIDE DEF e
<1>3. /\ work \in Contexts /\ final \in Contexts /\ Alone(final) /\ StopsLater(final, work)
      /\ work.cpus[c] \in Cpu /\ final.cpus[c] \in Cpu
  BY MergeReady DEF Contexts
<1>4. \A d \in Cpus : StartedBefore(work.cpus[d], ts) /\ StartedBefore(final.cpus[d], ts)
  <2> TAKE d \in Cpus
  <2>1. work.cpus[d] \in Cpu /\ final.cpus[d] \in Cpu
    BY <1>3 DEF Contexts
  <2> QED
    BY <1>1, <2>1, CpuFields DEF IInv, Seen, Left, StartedBefore
<1>5. Continues(final, work, e)
  BY <1>1, <1>4 DEF IInv, Seen, Left, Continues, StartedBefore
<1>6. work' \in Contexts
  BY <1>1, <1>2, <1>3, <1>4, HandleType
<1>7. /\ StopsLater(final, work')
      /\ MergeCpu(final, work', c).cpu_ns = CpuNow(c).cpu_ns + Ran(CpuNow(c), ts)
      /\ MergeCpu(final, work', c).currentTask = task
      /\ \A d \in Cpus \ {c} : MergeCpu(final, work', d) = CpuNow(d)
      /\ MergeProcess(final, work', prev).cpu_ns = ThreadNow(prev).cpu_ns + Ran(CpuNow(c), ts)
      /\ MergeProcess(final, work', prev).comm = comm
      /\ \A t \in AllTids \ {prev} :
           /\ MergeProcess(final, work', t).cpu_ns = ThreadNow(t).cpu_ns
           /\ MergeProcess(final, work', t).comm = ThreadNow(t).comm
  BY <1>1, <1>2, <1>3, <1>4, <1>5, MergeAfterSwitch DEF CpuNow, ThreadNow
<1>8. /\ \A d \in Cpus : CpuNow(d)' = MergeCpu(final, work', d)
      /\ \A t \in AllTids : ThreadNow(t)' = MergeProcess(final, work', t)
  BY <1>2 DEF CpuNow, ThreadNow
<1>9. /\ work'.cpus = [work.cpus EXCEPT ![c] = SwitchCpu(work.cpus[c], e)]
      /\ work'.start = work.start /\ work'.end = work.end
  BY <1>1, <1>2 DEF HandleSchedSwitch
<1>10. /\ work'.cpus[c].present = TRUE
       /\ work'.cpus[c].currentTask = task
       /\ work'.cpus[c].unknownTask = IF work.cpus[c].currentTask = None /\ prev # Idle
                                      THEN [end |-> ts, tid |-> prev]
                                      ELSE work.cpus[c].unknownTask
       /\ \A d \in Cpus \ {c} : work'.cpus[d] = work.cpus[d]
  BY <1>1, <1>3, <1>9 DEF SwitchCpu, NextTask, Contexts
<1>11. task # None => task.start = ts /\ task.tid = next
  OBVIOUS
<1>12. next # Idle => task # None
  BY <1>1, CpuContextAssumption DEF Task, AllTids
<1>13. task = None => next = Idle
  BY <1>12
<1> HIDE DEF prev, task
<1>14. TypeOK'
  BY <1>1, <1>2, <1>6 DEF IInv, TypeOK
<1>15. Spans'
  BY <1>2, <1>9 DEF IInv, Spans
<1>16. OneCpu'
  BY <1>1, <1>2 DEF IInv, TypeOK, OneCpu, RunsElsewhere
<1>17. Seen'
  <2>1. ASSUME NEW d \in Cpus
        PROVE  LET new == work'.cpus[d] IN
               /\ ~new.present =>
                    new.cpu_ns = 0 /\ new.currentTask = None /\ new.unknownTask = None
               /\ new.present /\ new.currentTask = None => running'[d] = Idle
               /\ new.currentTask # None => new.currentTask.tid = running'[d]
               /\ StartedBefore(new, now')
    <3>1. CASE d = c
      BY <1>1, <1>2, <1>10, <1>11, <1>13, <3>1 DEF IInv, TypeOK, StartedBefore
    <3>2. CASE d # c
      BY <1>2, <1>4, <1>10, <3>2 DEF IInv, TypeOK, Seen
    <3> QED
      BY <3>1, <3>2
  <2> QED
    BY <2>1 DEF Seen
<1>18. Left'
  <2>1. ASSUME NEW d \in Cpus
        PROVE  LET old == final'.cpus[d]
                   new == work'.cpus[d]
               IN  /\ StartedBefore(old, now')
                   /\ old.currentTask # None =>
                        IF new.present
                        THEN /\ new.unknownTask # None
                             /\ new.unknownTask.tid = old.currentTask.tid
                             /\ old.currentTask.start <= new.unknownTask.end
                        ELSE old.currentTask.tid = running'[d]
    <3>1. CASE d # c
      BY <1>2, <1>4, <1>10, <3>1 DEF IInv, TypeOK, Left
    <3>2. CASE d = c /\ final.cpus[c].currentTask = None
      BY <1>2, <1>4, <3>2
    <3>3. CASE d = c /\ final.cpus[c].currentTask # None /\ work.cpus[c].present
      <4>1. work.cpus[c].currentTask = None => prev = Idle
        BY <3>3 DEF IInv, Seen, prev
      <4>2. work'.cpus[c].unknownTask = work.cpus[c].unknownTask
        BY <1>10, <4>1
      <4> QED
        BY <1>2, <1>4, <1>10, <3>3, <4>2 DEF IInv, Left
    <3>4. CASE d = c /\ final.cpus[c].currentTask # None /\ ~work.cpus[c].present
      <4>1. /\ work.cpus[c].currentTask = None /\ final.cpus[c].currentTask.tid = prev
        BY <3>4 DEF IInv, Seen, Left, prev
      <4>2. prev \in Tids /\ prev # Idle
        BY <1>3, <3>4, <4>1, CpuFields
      <4>3. /\ work'.cpus[c].unknownTask = [end |-> ts, tid |-> prev]
            /\ [end |-> ts, tid |-> prev] # None
        BY <1>1, <1>10, <4>1, <4>2, CpuContextAssumption DEF UnknownTask
      <4> QED
        BY <1>2, <1>4, <1>10, <3>4, <4>1, <4>3 DEF StartedBefore
    <3> QED
      BY <3>1, <3>2, <3>3, <3>4
  <2> QED
    BY <2>1 DEF Left
<1>19. Alone(final)' /\ Phases'
  BY <1>2, <1>3 DEF Phases, Alone
<1>20. Usage!Elapsed(c, ts) = Ran(CpuNow(c), ts)
  BY <1>1, ElapsedIsRan
<1>21. Busy' = [Busy EXCEPT ![c] = @ + Usage!Elapsed(c, ts)]
  BY <1>7, <1>8, <1>20 DEF Busy
<1>22. /\ Spent' = [Spent EXCEPT ![prev] = @ + Usage!Elapsed(c, ts)]
       /\ Name' = [Name EXCEPT ![prev] = comm]
  BY <1>7, <1>8, <1>20 DEF Spent, Name
<1>23. Since' = [Since EXCEPT ![c] = IF next = Idle THEN None ELSE ts]
  <2>1. task = None <=> next = Idle
    BY <1>12 DEF task
  <2> QED
    BY <1>7, <1>8, <1>11, <2>1 DEF Since
<1>24. Usage!Switch(c, next, ts)
  BY <1>2 DEF Switch, RunsElsewhere, AllTids, Usage!Switch, Usage!RunsElsewhere, Usage!AllTids
<1>25. Usage!Account(c, next, comm, ts)
  BY <1>2, <1>21, <1>22, <1>23, <1>24 DEF prev, Usage!Account
<1> QED
  BY <1>14, <1>15, <1>16, <1>17, <1>18, <1>19, <1>25 DEF IInv

(* Merging a chunk changes no account: the next chunk starts from nothing. *)
LEMMA ReduceRefines == IInv /\ Reduce => IInv' /\ UNCHANGED Usage!vars
<1> SUFFICES ASSUME IInv, Reduce PROVE IInv' /\ UNCHANGED Usage!vars
  OBVIOUS
<1> USE TracedSystemAssumption, CpuChunksAssumption
<1>1. /\ phase = "map" /\ final' = Merge(final, work)
      /\ running' = running /\ now' = now
      /\ chunk \in 1 .. Threads /\ now \in Nat
      /\ TraceBegin \in Nat /\ TraceEnd \in Nat /\ TraceBegin # 0 /\ TraceBegin <= TraceEnd
  BY DEF Reduce, IInv, TypeOK
<1>2. PICK s \in Nat, e \in Nat :
        /\ work' = NewContext(s, e)
        /\ \/ /\ chunk < Threads /\ chunk' = chunk + 1 /\ phase' = "map"
              /\ s = work.end + 1 /\ e >= work.end /\ e \in TraceBegin .. TraceEnd
              /\ chunk' = Threads => e = TraceEnd
           \/ /\ chunk = Threads /\ chunk' = chunk /\ phase' = "reduced"
              /\ work' = EmptyContext
  BY NextWork DEF IInv
<1>3. /\ work' \in Contexts /\ work'.start = s /\ work'.end = e
      /\ \A c \in Cpus : /\ work'.cpus[c].present = FALSE /\ work'.cpus[c].cpu_ns = 0
                         /\ work'.cpus[c].currentTask = None
                         /\ work'.cpus[c].unknownTask = None
  BY <1>2, NewContextType DEF NewCpu
<1>4. /\ final' \in Contexts
      /\ \A c \in Cpus : final'.cpus[c] = CpuNow(c)
      /\ \A t \in AllTids : final'.tids[t] = ThreadNow(t)
  BY <1>1, MergeReady, MergeType DEF CpuNow, ThreadNow
<1>5. \A c \in Cpus : /\ CpuNow(c) \in Cpu
                      /\ StartedBefore(CpuNow(c), now)
                      /\ CpuNow(c).currentTask # None => CpuNow(c).currentTask.tid = running[c]
  BY MergeReady
<1>6. TypeOK'
  BY <1>1, <1>2, <1>3, <1>4 DEF IInv, TypeOK
<1>9. Spans'
  BY ReduceSpans DEF IInv
<1>10. OneCpu'
  BY <1>1 DEF IInv, OneCpu
<1>11. Seen'
  BY <1>1, <1>3 DEF Seen, StartedBefore
<1>12. Left'
  BY <1>1, <1>3, <1>4, <1>5 DEF Left
<1>13. Alone(final)'
  <2> SUFFICES ASSUME NEW c \in Cpus, NEW d \in Cpus,
                      CpuNow(c).currentTask # None, CpuNow(d).currentTask # None,
                      CpuNow(c).currentTask.tid = CpuNow(d).currentTask.tid
               PROVE  c = d
    BY <1>4 DEF Alone
  <2>1. CpuNow(c).currentTask.tid # Idle
    BY <1>5, CpuFields
  <2> QED
    BY <1>5, <2>1 DEF IInv, OneCpu
<1>14. Phases'
  BY <1>2 DEF Phases
<1>15. /\ \A c \in Cpus : /\ (CpuNow(c).cpu_ns)' = CpuNow(c).cpu_ns
                          /\ (CpuNow(c).currentTask)' = CpuNow(c).currentTask
       /\ \A t \in AllTids : /\ (ThreadNow(t).cpu_ns)' = ThreadNow(t).cpu_ns
                             /\ (ThreadNow(t).comm)' = ThreadNow(t).comm
  <2>1. Alone(final')
    BY <1>13
  <2>2. /\ \A c \in Cpus : /\ MergeCpu(final', work', c).cpu_ns = final'.cpus[c].cpu_ns
                           /\ MergeCpu(final', work', c).currentTask =
                                final'.cpus[c].currentTask
        /\ \A t \in AllTids : /\ MergeProcess(final', work', t).cpu_ns = final'.tids[t].cpu_ns
                              /\ MergeProcess(final', work', t).comm = final'.tids[t].comm
    BY <1>2, <1>4, <2>1, MergeWithNew
  <2>3. /\ \A c \in Cpus : CpuNow(c)' = MergeCpu(final', work', c)
        /\ \A t \in AllTids : ThreadNow(t)' = MergeProcess(final', work', t)
    BY DEF CpuNow, ThreadNow
  <2> QED
    BY <1>4, <2>2, <2>3
<1>16. Since' = Since /\ Busy' = Busy /\ Spent' = Spent /\ Name' = Name
  BY <1>15 DEF Since, Busy, Spent, Name
<1>17. (phase = "done")' = (phase = "done")
  BY <1>1, <1>2
<1> QED
  BY <1>1, <1>6, <1>9, <1>10, <1>11, <1>12, <1>13, <1>14, <1>16, <1>17 DEF IInv, Usage!vars

(* handleEnd charges the last runs as CpuUsage does.                       *)
LEMMA EndRefines == IInv /\ End => IInv' /\ Usage!Close
<1> SUFFICES ASSUME IInv, End PROVE IInv' /\ Usage!Close
  OBVIOUS
<1> USE TracedSystemAssumption
<1> DEFINE last == [c \in Cpus |-> Ran(final.cpus[c], TraceEnd)]
<1>1. /\ phase = "reduced" /\ phase' = "done" /\ final' = PatchEndTasks(final)
      /\ running' = running /\ now' = now /\ chunk' = chunk /\ work' = work
      /\ final \in Contexts /\ Alone(final)
      /\ final.start = TraceBegin /\ final.end = TraceEnd /\ TraceEnd \in Nat
      /\ work = EmptyContext
  BY DEF End, IInv, TypeOK, Spans, Phases
<1>2. work = NewContext(0, 0)
  BY <1>1 DEF EmptyContext
<1>3. /\ \A c \in Cpus : /\ CpuNow(c).cpu_ns = final.cpus[c].cpu_ns
                         /\ CpuNow(c).currentTask = final.cpus[c].currentTask
      /\ \A t \in AllTids : /\ ThreadNow(t).cpu_ns = final.tids[t].cpu_ns
                            /\ ThreadNow(t).comm = final.tids[t].comm
  BY <1>1, <1>2, MergeWithNew DEF CpuNow, ThreadNow
<1>4. \A c \in Cpus : final.cpus[c] \in Cpu /\ StartedBefore(final.cpus[c], TraceEnd)
  <2> TAKE c \in Cpus
  <2>1. final.cpus[c] \in Cpu /\ now \in Nat /\ now <= TraceEnd
    BY <1>1 DEF IInv, TypeOK, Contexts
  <2> QED
    BY <1>1, <2>1, CpuFields DEF IInv, Left, StartedBefore
<1>5. \A c \in Cpus : last[c] \in Nat /\ last[c] \in Int
                      /\ last[c] = Usage!Elapsed(c, TraceEnd)
  <2> TAKE c \in Cpus
  <2>1. Ran(final.cpus[c], TraceEnd) = Ran(CpuNow(c), TraceEnd)
    BY <1>3 DEF Ran
  <2> QED
    BY <1>1, <1>4, <2>1, RanType, ElapsedIsRan
<1>6. [c \in Cpus |-> Usage!Elapsed(c, TraceEnd)] = last
  BY <1>5
<1> HIDE DEF last
<1>7. ASSUME NEW t \in AllTids
      PROVE  /\ StillRunning(final, t) = Usage!Hosts(t)
             /\ SumFunctionOnSet(last, StillRunning(final, t)) \in Nat
  <2>1. \A c \in Cpus : /\ (Since[c] # None) <=> (final.cpus[c].currentTask # None)
                        /\ final.cpus[c].currentTask # None =>
                             final.cpus[c].currentTask.tid = running[c]
    BY <1>3, <1>4, MergeReady, CpuFields, CpuContextAssumption DEF Since
  <2>2. StillRunning(final, t) = Usage!Hosts(t)
    BY <2>1 DEF StillRunning, Usage!Hosts
  <2>3. CASE StillRunning(final, t) = {}
    <3>1. SumFunctionOnSet(last, StillRunning(final, t)) = 0
      BY <2>3, SumOfNone
    <3> QED
      BY <2>2, <3>1
  <2>4. CASE StillRunning(final, t) # {}
    <3>1. PICK c \in Cpus : c \in StillRunning(final, t)
      BY <2>4 DEF StillRunning
    <3>2. StillRunning(final, t) = {c}
      BY <1>1, <3>1 DEF StillRunning, Alone
    <3>3. SumFunctionOnSet(last, {c}) = last[c]
      BY <1>5, SumOfOne
    <3> QED
      BY <1>5, <2>2, <3>2, <3>3
  <2> QED
    BY <2>3, <2>4
<1>8. /\ \A c \in Cpus :
            /\ final'.cpus[c] = EndCpu(final.cpus[c], TraceEnd)
            /\ final'.cpus[c].cpu_ns = final.cpus[c].cpu_ns + last[c]
            /\ final'.cpus[c].currentTask = None
      /\ \A t \in AllTids :
            /\ final'.tids[t] = EndProcess(final, t)
            /\ final'.tids[t].cpu_ns =
                 final.tids[t].cpu_ns + SumFunctionOnSet(last, StillRunning(final, t))
            /\ final'.tids[t].comm = final.tids[t].comm
      /\ final'.start = final.start /\ final'.end = final.end
  BY <1>1 DEF PatchEndTasks, EndCpu, EndProcess, last
<1>9. final' \in Contexts
  <2>1. \A c \in Cpus : final'.cpus[c] \in Cpu
    BY <1>1, <1>4, <1>8, EndCpuType
  <2>2. \A t \in AllTids : final'.tids[t] \in Process
    <3> TAKE t \in AllTids
    <3>1. final.tids[t] \in Process /\ final'.tids[t].cpu_ns \in Nat
      BY <1>1, <1>7, <1>8 DEF Contexts, Process
    <3> QED
      BY <1>1, <1>8, <3>1, EndProcessType
  <2> QED
    BY <1>1, <2>1, <2>2 DEF PatchEndTasks, Contexts
<1>10. TypeOK' /\ Spans'
  BY <1>1, <1>8, <1>9 DEF IInv, TypeOK, Spans
<1>11. OneCpu' /\ Seen' /\ Left' /\ Alone(final)' /\ Phases'
  BY <1>1, <1>8 DEF IInv, OneCpu, Seen, Left, Alone, Phases, StartedBefore
<1>12. /\ \A c \in Cpus : /\ (CpuNow(c).cpu_ns)' = final'.cpus[c].cpu_ns
                          /\ (CpuNow(c).currentTask)' = None
       /\ \A t \in AllTids : /\ (ThreadNow(t).cpu_ns)' = final'.tids[t].cpu_ns
                             /\ (ThreadNow(t).comm)' = final'.tids[t].comm
  <2>1. Alone(final') /\ work' = NewContext(0, 0)
    BY <1>1, <1>2, <1>11
  <2>2. /\ \A c \in Cpus : /\ MergeCpu(final', work', c).cpu_ns = final'.cpus[c].cpu_ns
                           /\ MergeCpu(final', work', c).currentTask =
                                final'.cpus[c].currentTask
        /\ \A t \in AllTids : /\ MergeProcess(final', work', t).cpu_ns = final'.tids[t].cpu_ns
                              /\ MergeProcess(final', work', t).comm = final'.tids[t].comm
    BY <1>9, <2>1, MergeWithNew
  <2>3. /\ \A c \in Cpus : CpuNow(c)' = MergeCpu(final', work', c)
        /\ \A t \in AllTids : ThreadNow(t)' = MergeProcess(final', work', t)
    BY DEF CpuNow, ThreadNow
  <2> QED
    BY <1>8, <2>2, <2>3
<1>13. Busy' = [c \in Cpus |-> Busy[c] + Usage!Elapsed(c, TraceEnd)]
  BY <1>3, <1>5, <1>8, <1>12 DEF Busy
<1>14. Spent' = [t \in AllTids |-> Spent[t] +
                   SumFunctionOnSet([c \in Cpus |-> Usage!Elapsed(c, TraceEnd)], Usage!Hosts(t))]
  BY <1>3, <1>6, <1>7, <1>8, <1>12 DEF Spent
<1>15. Name' = Name /\ Since' = [c \in Cpus |-> None]
  BY <1>3, <1>8, <1>12 DEF Name, Since
<1>16. Usage!AllTids = AllTids
  BY DEF AllTids, Usage!AllTids
<1>17. ASSUME NEW f, NEW S
       PROVE  Usage!SumFunctionOnSet(f, S) = SumFunctionOnSet(f, S)
  BY DEF Usage!SumFunctionOnSet, SumFunctionOnSet, Usage!FoldFunctionOnSet, FoldFunctionOnSet,
         Usage!MapThenFoldSet, MapThenFoldSet
<1>18. Usage!Close
  BY <1>1, <1>13, <1>14, <1>15, <1>16, <1>17 DEF Usage!Close
<1> QED
  BY <1>10, <1>11, <1>18 DEF IInv

-------------------------------------------------------------------------------
(* The invariant and the refinement, step by step.                         *)
LEMMA StepRefines ==
  ~Lossy => (IInv /\ [Next]_vars => IInv' /\ [Usage!Next]_Usage!vars)
<1> SUFFICES ASSUME ~Lossy, IInv, [Next]_vars PROVE IInv' /\ [Usage!Next]_Usage!vars
  OBVIOUS
<1>1. ASSUME NEW c \in Cpus, NEW next \in AllTids, NEW ts \in now .. TraceEnd,
             NEW comm \in Comms, MapEvent(c, next, comm, ts)
      PROVE  IInv' /\ Usage!Next
  BY <1>1, MapEventRefines DEF Usage!Next, Usage!AllTids, AllTids
<1>2. ASSUME NEW c \in Cpus, NEW next \in AllTids, NEW ts \in now .. TraceEnd,
             DiscardedEvent(c, next, ts)
      PROVE  FALSE
  BY <1>2 DEF DiscardedEvent
<1>3. CASE Reduce
  BY <1>3, ReduceRefines
<1>4. CASE End
  BY <1>4, EndRefines DEF Usage!Next
<1>5. CASE UNCHANGED vars
  BY <1>5 DEF vars, IInv, TypeOK, Spans, OneCpu, Seen, Left, Alone, Phases, Usage!vars,
              Since, Busy, Spent, Name, CpuNow, ThreadNow
<1>6. CASE Finished
  BY <1>5, <1>6 DEF Finished
<1> QED
  BY <1>1, <1>2, <1>3, <1>4, <1>5, <1>6 DEF Next

(* On a trace without discarded events the whole invariant holds always.   *)
LEMMA Invariance ==
  ASSUME ~Lossy
  PROVE  Spec => []IInv
<1>1. Init => IInv
  BY InitRefines
<1>2. IInv /\ [Next]_vars => IInv'
  BY StepRefines
<1> QED
  BY <1>1, <1>2, PTL DEF Spec

(* A task left running by the chunks before is the one the current chunk   *)
(* found, whatever the cut (RunsMeet).                                     *)
THEOREM UnfinishedTasksMeet ==
  ASSUME ~Lossy
  PROVE  Spec => []RunsMeet
<1>1. IInv => RunsMeet
  BY DEF IInv, Left, RunsMeet, SameTask
<1> QED
  BY <1>1, Invariance, PTL

(* The parallel analysis charges every CPU and every thread exactly the    *)
(* time it is known to run (ParallelImplementsUsage).                      *)
THEOREM ParallelRefinesUsage ==
  ASSUME ~Lossy
  PROVE  Spec => ParallelImplementsUsage
<1>1. IInv /\ [Next]_vars => IInv' /\ [Usage!Next]_Usage!vars
  BY StepRefines
<1>2. Init => IInv /\ Usage!Init
  BY InitRefines
<1> QED
  BY <1>1, <1>2, PTL DEF Spec, ParallelImplementsUsage, Usage!Spec

-------------------------------------------------------------------------------
(* CpuUsage, as the parallel analysis refines it, charges no CPU and no    *)
(* thread more than the length of the trace (WithinTrace).  That is not    *)
(* inductive: it has to be known that what is charged so far fits before   *)
(* the run under way started (UsageFits), and that a thread has one run    *)
(* under way at most (UsageRuns).                                          *)

(* The sums of CpuUsage are those of the lemmas about sums.                *)
LEMMA UsageSum ==
  ASSUME NEW f, NEW S
  PROVE  Usage!SumFunctionOnSet(f, S) = SumFunctionOnSet(f, S)
BY DEF Usage!SumFunctionOnSet, Usage!FoldFunctionOnSet, Usage!MapThenFoldSet,
       SumFunctionOnSet, FoldFunctionOnSet, MapThenFoldSet

UsageTypes ==
  /\ running \in [Cpus -> Usage!AllTids]
  /\ now \in TraceBegin .. TraceEnd
  /\ Since \in [Cpus -> (TraceBegin .. now) \cup {None}]
  /\ Busy \in [Cpus -> Nat]
  /\ Spent \in [Usage!AllTids -> Nat]

(* A timed CPU runs a thread, and no other CPU runs that thread.           *)
UsageRuns ==
  /\ \A c \in Cpus : Since[c] # None => running[c] # Idle
  /\ \A c, d \in Cpus : running[c] = running[d] /\ running[c] # Idle => c = d

(* What is charged lies before the run under way, or before now.           *)
UsageFits ==
  phase # "done" =>
    /\ \A c \in Cpus : Busy[c] <= (IF Since[c] = None THEN now ELSE Since[c]) - TraceBegin
    /\ \A t \in Usage!AllTids : Spent[t] <= now - TraceBegin
    /\ \A c \in Cpus : Since[c] # None => Spent[running[c]] <= Since[c] - TraceBegin

UsageInv == UsageTypes /\ UsageRuns /\ UsageFits /\ Usage!WithinTrace

(* The invariant holds initially.                                          *)
LEMMA UsageInitInv == Usage!Init => UsageInv
<1> SUFFICES ASSUME Usage!Init PROVE UsageInv
  OBVIOUS
<1> USE TracedSystemAssumption DEF Usage!Init, Usage!TraceInit, Usage!AllTids
<1>1. UsageTypes
  <2>1. now \in TraceBegin .. TraceEnd
    OBVIOUS
  <2>2. Since \in [Cpus -> (TraceBegin .. now) \cup {None}]
    OBVIOUS
  <2>3. Busy \in [Cpus -> Nat] /\ Spent \in [Usage!AllTids -> Nat]
    OBVIOUS
  <2> QED
    BY <2>1, <2>2, <2>3 DEF UsageTypes
<1>2. UsageRuns
  BY DEF UsageRuns, Usage!RunsElsewhere
<1>3. UsageFits
  BY DEF UsageFits
<1>4. Usage!WithinTrace
  BY DEF Usage!WithinTrace
<1> QED
  BY <1>1, <1>2, <1>3, <1>4 DEF UsageInv

(* A context switch preserves it.                                          *)
LEMMA UsageAccountInv ==
  ASSUME UsageInv, NEW c \in Cpus, NEW next \in Usage!AllTids, NEW comm \in Comms,
         NEW ts \in now .. TraceEnd, Usage!Account(c, next, comm, ts)
  PROVE  UsageInv'
<1> USE TracedSystemAssumption
<1> DEFINE prev == running[c]
<1>1. /\ prev \in Usage!AllTids
      /\ ts \in Nat /\ now \in Nat /\ now <= ts /\ ts <= TraceEnd /\ TraceBegin <= now
      /\ TraceEnd \in Nat /\ TraceBegin \in Nat
  BY DEF UsageInv, UsageTypes
<1>2. Usage!Elapsed(c, ts) \in Nat
  BY <1>1 DEF UsageInv, UsageTypes, Usage!Elapsed
<1>3. /\ Since[c] = None => Usage!Elapsed(c, ts) = 0
      /\ Since[c] # None => Usage!Elapsed(c, ts) = ts - Since[c] /\ Since[c] \in TraceBegin .. now
  BY DEF UsageInv, UsageTypes, Usage!Elapsed
<1>4. /\ running' = [running EXCEPT ![c] = next]
      /\ now' = ts
      /\ Busy' = [Busy EXCEPT ![c] = @ + Usage!Elapsed(c, ts)]
      /\ Spent' = [Spent EXCEPT ![prev] = @ + Usage!Elapsed(c, ts)]
      /\ Since' = [Since EXCEPT ![c] = IF next = Idle THEN None ELSE ts]
      /\ next # prev
      /\ next # Idle => ~Usage!RunsElsewhere(next, c)
      /\ phase # "done" /\ phase' # "done"
  BY DEF Usage!Account, Usage!Switch
<1> HIDE DEF prev
<1>5. UsageTypes'
  BY <1>1, <1>2, <1>4 DEF UsageInv, UsageTypes
<1>6. UsageRuns'
  BY <1>1, <1>4 DEF UsageInv, UsageTypes, UsageRuns, Usage!RunsElsewhere
<1>7. prev = running[c]
  BY DEF prev
<1>8. /\ Busy[c] + Usage!Elapsed(c, ts) <= ts - TraceBegin
      /\ Spent[prev] + Usage!Elapsed(c, ts) <= ts - TraceBegin
  <2>1. CASE Since[c] = None
    BY <1>1, <1>2, <1>3, <1>4, <1>7, <2>1 DEF UsageInv, UsageTypes, UsageFits
  <2>2. CASE Since[c] # None
    BY <1>1, <1>2, <1>3, <1>4, <1>7, <2>2 DEF UsageInv, UsageTypes, UsageFits
  <2> QED
    BY <2>1, <2>2
<1>9. UsageFits'
  <2>1. \A d \in Cpus : Busy'[d] <= (IF Since'[d] = None THEN now' ELSE Since'[d]) - TraceBegin
    BY <1>1, <1>2, <1>4, <1>8 DEF UsageInv, UsageTypes, UsageFits
  <2>2. \A t \in Usage!AllTids : Spent'[t] <= now' - TraceBegin
    BY <1>1, <1>2, <1>4, <1>8 DEF UsageInv, UsageTypes, UsageFits
  <2>3. ASSUME NEW d \in Cpus, Since'[d] # None
        PROVE  Spent'[running'[d]] <= Since'[d] - TraceBegin
    <3>1. CASE d = c
      <4>1. Since'[d] = ts /\ running'[d] = next
        BY <1>4, <2>3, <3>1 DEF UsageInv, UsageTypes
      <4>2. Spent'[next] = Spent[next]
        BY <1>1, <1>4 DEF UsageInv, UsageTypes
      <4> QED
        BY <1>1, <1>4, <4>1, <4>2 DEF UsageInv, UsageTypes, UsageFits
    <3>2. CASE d # c
      <4>1. Since'[d] = Since[d] /\ running'[d] = running[d] /\ running[d] \in Usage!AllTids
        BY <1>4, <3>2 DEF UsageInv, UsageTypes
      <4>2. Spent'[running[d]] = Spent[running[d]]
        <5>1. CASE running[d] = prev
          <6>1. Since[c] = None
            BY <1>7, <2>3, <3>2, <4>1, <5>1 DEF UsageInv, UsageRuns
          <6> QED
            BY <1>1, <1>3, <1>4, <6>1 DEF UsageInv, UsageTypes
        <5>2. CASE running[d] # prev
          BY <1>4, <4>1, <5>2 DEF UsageInv, UsageTypes
        <5> QED
          BY <5>1, <5>2
      <4> QED
        BY <1>4, <2>3, <4>1, <4>2 DEF UsageInv, UsageFits
    <3> QED
      BY <3>1, <3>2
  <2> QED
    BY <2>1, <2>2, <2>3 DEF UsageFits
<1>10. Usage!WithinTrace'
  BY <1>1, <1>2, <1>4, <1>8 DEF UsageInv, UsageTypes, Usage!WithinTrace
<1> QED
  BY <1>5, <1>6, <1>9, <1>10 DEF UsageInv

(* So does the end of the trace: every thread has one last run at most.    *)
LEMMA UsageCloseInv == UsageInv /\ Usage!Close => UsageInv'
<1> SUFFICES ASSUME UsageInv, Usage!Close PROVE UsageInv'
  OBVIOUS
<1> USE TracedSystemAssumption
<1> DEFINE last == [c \in Cpus |-> Usage!Elapsed(c, TraceEnd)]
<1>1. /\ now \in Nat /\ TraceEnd \in Nat /\ TraceBegin \in Nat
      /\ TraceBegin <= now /\ now <= TraceEnd
  BY DEF UsageInv, UsageTypes
<1>2. \A c \in Cpus : last[c] \in Nat /\ Busy[c] + last[c] <= TraceEnd - TraceBegin
  <2> TAKE c \in Cpus
  <2>1. CASE Since[c] = None
    BY <1>1, <2>1 DEF UsageInv, UsageTypes, UsageFits, Usage!Elapsed, Usage!Close
  <2>2. CASE Since[c] # None
    BY <1>1, <2>2 DEF UsageInv, UsageTypes, UsageFits, Usage!Elapsed, Usage!Close
  <2> QED
    BY <2>1, <2>2
<1>3. ASSUME NEW t \in Usage!AllTids
      PROVE  /\ SumFunctionOnSet(last, Usage!Hosts(t)) \in Nat
             /\ Spent[t] + SumFunctionOnSet(last, Usage!Hosts(t)) <= TraceEnd - TraceBegin
  <2>1. CASE Usage!Hosts(t) = {}
    <3>1. SumFunctionOnSet(last, Usage!Hosts(t)) = 0
      BY <2>1, SumOfNone
    <3> QED
      BY <1>1, <3>1 DEF UsageInv, UsageTypes, Usage!WithinTrace
  <2>2. CASE Usage!Hosts(t) # {}
    <3>1. PICK c \in Cpus : Since[c] # None /\ running[c] = t
      BY <2>2 DEF Usage!Hosts
    <3>2. Usage!Hosts(t) = {c}
      BY <3>1 DEF Usage!Hosts, UsageInv, UsageRuns
    <3>3. SumFunctionOnSet(last, Usage!Hosts(t)) = last[c]
      <4> HIDE DEF last
      <4>1. last[c] \in Int
        BY <1>2
      <4>2. SumFunctionOnSet(last, {c}) = last[c]
        BY <4>1, SumOfOne
      <4> QED
        BY <3>2, <4>2
    <3>4. last[c] = TraceEnd - Since[c]
      BY <3>1 DEF Usage!Elapsed
    <3> QED
      BY <1>1, <1>2, <3>1, <3>3, <3>4 DEF UsageInv, UsageTypes, UsageFits, Usage!Close
  <2> QED
    BY <2>1, <2>2
<1>4. /\ Busy' = [c \in Cpus |-> Busy[c] + last[c]]
      /\ Spent' = [t \in Usage!AllTids |-> Spent[t] + SumFunctionOnSet(last, Usage!Hosts(t))]
      /\ Since' = [c \in Cpus |-> None]
      /\ phase' = "done" /\ now' = now /\ running' = running
  <2>1. Spent' = [t \in Usage!AllTids |->
                    Spent[t] + Usage!SumFunctionOnSet(last, Usage!Hosts(t))]
    BY DEF Usage!Close
  <2>2. Busy' = [c \in Cpus |-> Busy[c] + last[c]]
    BY DEF Usage!Close
  <2>3. Since' = [c \in Cpus |-> None] /\ phase' = "done" /\ now' = now /\ running' = running
    BY DEF Usage!Close
  <2> QED
    BY <2>1, <2>2, <2>3, UsageSum
<1> HIDE DEF last
<1>5. UsageTypes'
  BY <1>1, <1>2, <1>3, <1>4 DEF UsageInv, UsageTypes
<1>6. UsageRuns'
  BY <1>4 DEF UsageInv, UsageRuns
<1>7. UsageFits'
  BY <1>4 DEF UsageFits
<1>8. Usage!WithinTrace'
  BY <1>2, <1>3, <1>4 DEF Usage!WithinTrace
<1> QED
  BY <1>5, <1>6, <1>7, <1>8 DEF UsageInv

(* No CPU and no thread is ever charged more than the length of the trace. *)
THEOREM UsageWithinTrace == Usage!Spec => []Usage!WithinTrace
<1>1. UsageInv /\ [Usage!Next]_Usage!vars => UsageInv'
  <2> SUFFICES ASSUME UsageInv, [Usage!Next]_Usage!vars PROVE UsageInv'
    OBVIOUS
  <2>1. ASSUME NEW c \in Cpus, NEW next \in Usage!AllTids, NEW comm \in Comms,
               NEW ts \in now .. TraceEnd, Usage!Account(c, next, comm, ts)
        PROVE  UsageInv'
    BY <2>1, UsageAccountInv
  <2>2. CASE Usage!Close
    BY <2>2, UsageCloseInv
  <2>3. CASE UNCHANGED Usage!vars
    BY <2>3 DEF Usage!vars, UsageInv, UsageTypes, UsageRuns, UsageFits, Usage!WithinTrace
  <2> QED
    BY <2>1, <2>2, <2>3 DEF Usage!Next
<1>2. UsageInv => Usage!WithinTrace
  BY DEF UsageInv
<1> QED
  BY UsageInitInv, <1>1, <1>2, PTL DEF Usage!Spec

-------------------------------------------------------------------------------
(* The two tables balance.                                                 *)

LEMMA UsageFiniteTids == IsFiniteSet(Usage!AllTids)
BY FiniteSystem, FS_AddElement DEF Usage!AllTids

(* Nothing is charged at first.                                            *)
LEMMA UsageInitBalances == Usage!Init => Usage!Balances
<1> SUFFICES ASSUME Usage!Init PROVE Usage!Balances
  OBVIOUS
<1>1. (\A c \in Cpus : Busy[c] = 0) /\ (\A t \in Usage!AllTids : Spent[t] = 0)
  BY DEF Usage!Init
<1>2. SumFunctionOnSet(Busy, Cpus) = 0 /\ SumFunctionOnSet(Spent, Usage!AllTids) = 0
  BY <1>1, FiniteSystem, UsageFiniteTids, SumOfZeros
<1> QED
  BY <1>2, UsageSum DEF Usage!Balances

(* A context switch charges one CPU and one thread the same time.          *)
LEMMA UsageAccountBalances ==
  ASSUME UsageInv, Usage!Balances, NEW c \in Cpus, NEW next \in Usage!AllTids, NEW comm \in Comms,
         NEW ts \in now .. TraceEnd, Usage!Account(c, next, comm, ts)
  PROVE  Usage!Balances'
<1> DEFINE prev == running[c]
           d == Usage!Elapsed(c, ts)
<1>1. UsageTypes /\ UsageTypes'
  BY UsageAccountInv DEF UsageInv
<1>2. /\ prev \in Usage!AllTids /\ d \in Int
      /\ Busy' = [Busy EXCEPT ![c] = @ + d]
      /\ Spent' = [Spent EXCEPT ![prev] = @ + d]
  BY <1>1, TracedSystemAssumption DEF UsageTypes, Usage!Account, Usage!Elapsed
<1> HIDE DEF prev, d
<1>3. /\ \A x \in Cpus : Busy[x] \in Int /\ Busy'[x] \in Int
      /\ \A t \in Usage!AllTids : Spent[t] \in Int /\ Spent'[t] \in Int
      /\ \A x \in Cpus \ {c} : Busy'[x] = Busy[x]
      /\ \A t \in Usage!AllTids \ {prev} : Spent'[t] = Spent[t]
      /\ Busy'[c] - Busy[c] = d /\ Spent'[prev] - Spent[prev] = d
  BY <1>1, <1>2 DEF UsageTypes
<1>4. SumFunctionOnSet(Busy', Cpus) = SumFunctionOnSet(Busy, Cpus) + (Busy'[c] - Busy[c])
  BY <1>3, FiniteSystem, SumChange
<1>5. SumFunctionOnSet(Spent', Usage!AllTids) =
        SumFunctionOnSet(Spent, Usage!AllTids) + (Spent'[prev] - Spent[prev])
  <2>1. /\ IsFiniteSet(Usage!AllTids) /\ prev \in Usage!AllTids
        /\ \A t \in Usage!AllTids : Spent[t] \in Int /\ Spent'[t] \in Int
        /\ \A t \in Usage!AllTids \ {prev} : Spent'[t] = Spent[t]
    BY <1>2, <1>3, UsageFiniteTids
  <2> QED
    BY <2>1, SumChange
<1> QED
  BY <1>3, <1>4, <1>5, UsageSum DEF Usage!Balances

(* The end charges every timed CPU what it charges the thread on it: the   *)
(* timed CPUs are parted by the threads they run.                          *)
LEMMA UsageCloseBalances ==
  ASSUME UsageInv, Usage!Balances, Usage!Close
  PROVE  Usage!Balances'
<1> DEFINE last == [c \in Cpus |-> Usage!Elapsed(c, TraceEnd)]
           on == {c \in Cpus : Since[c] # None}
           lasts == [t \in Usage!AllTids |-> SumFunctionOnSet(last, Usage!Hosts(t))]
<1>1. UsageTypes /\ UsageTypes'
  BY UsageCloseInv DEF UsageInv
<1>2. \A c \in Cpus : last[c] \in Int /\ (c \notin on => last[c] = 0)
  BY <1>1, TracedSystemAssumption DEF UsageTypes, Usage!Elapsed
<1>3. /\ Busy' = [c \in Cpus |-> Busy[c] + last[c]]
      /\ Spent' = [t \in Usage!AllTids |-> Spent[t] + lasts[t]]
  <2>1. Spent' = [t \in Usage!AllTids |->
                    Spent[t] + Usage!SumFunctionOnSet(last, Usage!Hosts(t))]
    BY DEF Usage!Close
  <2>2. Busy' = [c \in Cpus |-> Busy[c] + last[c]]
    BY DEF Usage!Close
  <2> QED
    BY <2>1, <2>2, UsageSum
<1>4. \A t \in Usage!AllTids : Usage!Hosts(t) = {c \in on : running[c] = t}
  BY DEF Usage!Hosts
<1>5. lasts = [t \in Usage!AllTids |-> SumFunctionOnSet(last, {c \in on : running[c] = t})]
  BY <1>4
<1>6. on \in SUBSET Cpus /\ IsFiniteSet(on)
  BY FiniteSystem, FS_Subset
<1>7. \A c \in on : running[c] \in Usage!AllTids
  BY <1>1 DEF UsageTypes
<1>8. \A t \in Usage!AllTids : Spent[t] \in Int /\ Spent'[t] \in Int
  BY <1>1 DEF UsageTypes
<1>9. \A c \in Cpus : Busy[c] \in Int /\ Busy'[c] \in Int
  BY <1>1 DEF UsageTypes
<1> HIDE DEF last, on
<1>10. \A t \in Usage!AllTids : lasts[t] \in Int
  <2> TAKE t \in Usage!AllTids
  <2>1. IsFiniteSet(Usage!Hosts(t)) /\ Usage!Hosts(t) \in SUBSET Cpus
    BY FiniteSystem, FS_Subset DEF Usage!Hosts
  <2>2. SumFunctionOnSet(last, Usage!Hosts(t)) \in Int
    BY <1>2, <2>1, SumInt
  <2> QED
    BY <2>2
<1>11. SumFunctionOnSet(lasts, Usage!AllTids) = SumFunctionOnSet(last, on)
  <2>1. \A c \in on : last[c] \in Int /\ running[c] \in Usage!AllTids
    BY <1>2, <1>6, <1>7
  <2>2. SumFunctionOnSet([t \in Usage!AllTids |-> SumFunctionOnSet(last, {c \in on : running[c] = t})],
                         Usage!AllTids) = SumFunctionOnSet(last, on)
    BY <1>6, <2>1, UsageFiniteTids, SumByParts
  <2> QED
    BY <1>5, <2>2
<1> HIDE DEF lasts
<1>12. SumFunctionOnSet(last, Cpus) = SumFunctionOnSet(last, on)
  BY <1>2, <1>6, FiniteSystem, SumOnSupport
<1>13. SumFunctionOnSet(Busy', Cpus) = SumFunctionOnSet(Busy, Cpus) + SumFunctionOnSet(last, Cpus)
  BY <1>2, <1>3, <1>9, FiniteSystem, SumPlus
<1>14. SumFunctionOnSet(Spent', Usage!AllTids) =
         SumFunctionOnSet(Spent, Usage!AllTids) + SumFunctionOnSet(lasts, Usage!AllTids)
  BY <1>3, <1>8, <1>10, UsageFiniteTids, SumPlus
<1> QED
  BY <1>11, <1>12, <1>13, <1>14, UsageSum DEF Usage!Balances

(* The CPUs together are charged what the threads together are charged.    *)
THEOREM UsageBalances == Usage!Spec => []Usage!Balances
<1>1. UsageInv /\ Usage!Balances /\ [Usage!Next]_Usage!vars => UsageInv' /\ Usage!Balances'
  <2> SUFFICES ASSUME UsageInv, Usage!Balances, [Usage!Next]_Usage!vars PROVE UsageInv' /\ Usage!Balances'
    OBVIOUS
  <2>1. ASSUME NEW c \in Cpus, NEW next \in Usage!AllTids, NEW comm \in Comms,
               NEW ts \in now .. TraceEnd, Usage!Account(c, next, comm, ts)
        PROVE  UsageInv' /\ Usage!Balances'
    BY <2>1, UsageAccountInv, UsageAccountBalances
  <2>2. CASE Usage!Close
    BY <2>2, UsageCloseInv, UsageCloseBalances
  <2>3. CASE UNCHANGED Usage!vars
    BY <2>3 DEF Usage!vars, UsageInv, UsageTypes, UsageRuns, UsageFits, Usage!WithinTrace, Usage!Balances
  <2> QED
    BY <2>1, <2>2, <2>3 DEF Usage!Next
<1> QED
  BY UsageInitInv, UsageInitBalances, <1>1, PTL DEF Usage!Spec

(* No CPU and no thread is reported above 100%, whatever the cut, the      *)
(* number of migrations and the number of runs that cross a boundary       *)
(* (AtMostFull).                                                           *)
THEOREM NothingAboveFull ==
  ASSUME ~Lossy
  PROVE  Spec => []AtMostFull
<1>1. IInv /\ Usage!WithinTrace => AtMostFull
  <2> SUFFICES ASSUME IInv, Usage!WithinTrace, phase = "done" PROVE AtMostFull
    BY DEF AtMostFull, CpusAtMostFull
  <2>1. /\ final \in Contexts /\ Alone(final) /\ work = NewContext(0, 0)
        /\ final.start = TraceBegin /\ final.end = TraceEnd
    BY DEF IInv, TypeOK, Phases, Spans, EmptyContext
  <2>2. /\ \A c \in Cpus : Busy[c] = final.cpus[c].cpu_ns
        /\ \A t \in AllTids : Spent[t] = final.tids[t].cpu_ns
    BY <2>1, MergeWithNew DEF Busy, Spent, CpuNow, ThreadNow
  <2> QED
    BY <2>1, <2>2 DEF AtMostFull, CpusAtMostFull, Usage!WithinTrace, Usage!AllTids, AllTids
<1> QED
  BY <1>1, ParallelRefinesUsage, UsageWithinTrace, Invariance, PTL DEF ParallelImplementsUsage

(* The table of the CPUs and that of the threads account for the same      *)
(* time, whatever the cut (TablesAgree).                                   *)
THEOREM TablesBalance ==
  ASSUME ~Lossy
  PROVE  Spec => []TablesAgree
<1>1. IInv /\ Usage!Balances => TablesAgree
  <2> SUFFICES ASSUME IInv, Usage!Balances, phase = "done" PROVE TablesAgree
    BY DEF TablesAgree
  <2>1. final \in Contexts /\ Alone(final) /\ work = NewContext(0, 0)
    BY DEF IInv, TypeOK, Phases, EmptyContext
  <2>2. /\ \A c \in Cpus : Busy[c] = final.cpus[c].cpu_ns
        /\ \A t \in AllTids : Spent[t] = final.tids[t].cpu_ns
    BY <2>1, MergeWithNew DEF Busy, Spent, CpuNow, ThreadNow
  <2>3. CpuTimes(final) = Busy /\ TidTimes(final) = Spent
    BY <2>2 DEF CpuTimes, TidTimes, Busy, Spent
  <2>4. ASSUME NEW f, NEW S
        PROVE  Usage!SumFunctionOnSet(f, S) = SumFunctionOnSet(f, S)
    BY DEF Usage!SumFunctionOnSet, Usage!FoldFunctionOnSet, Usage!MapThenFoldSet,
           SumFunctionOnSet, FoldFunctionOnSet, MapThenFoldSet
  <2>5. SumFunctionOnSet(Busy, Cpus) = SumFunctionOnSet(Spent, AllTids)
    BY <2>4 DEF Usage!Balances, Usage!AllTids, AllTids
  <2> QED
    BY <2>1, <2>3, <2>5, Totals DEF TablesAgree
<1> QED
  BY <1>1, ParallelRefinesUsage, UsageBalances, Invariance, PTL DEF ParallelImplementsUsage

-------------------------------------------------------------------------------
(* The serial analysis.                                                    *)

(* The serial analysis is written with the same handlers.                  *)
LEMMA SerialEventIs ==
  ASSUME NEW c \in Cpus, NEW next \in AllTids, NEW comm \in Comms, NEW ts,
         Serial!Event(c, next, comm, ts)
  PROVE  /\ ~ended /\ ended' = ended /\ Switch(c, next, ts)
         /\ data' = HandleSchedSwitch(data, SwitchEvent(c, next, comm, ts))
<1>1. Serial!SwitchEvent(c, next, comm, ts) = SwitchEvent(c, next, comm, ts)
  BY DEF SwitchEvent, Serial!SwitchEvent
<1>2. ASSUME NEW e
      PROVE  Serial!HandleSchedSwitch(data, e) = HandleSchedSwitch(data, e)
  BY DEF HandleSchedSwitch, SwitchCpu, SwitchProcess, NextTask, Ran, Serial!HandleSchedSwitch,
         Serial!SwitchCpu, Serial!SwitchProcess, Serial!NextTask, Serial!Ran
<1> QED
  BY <1>1, <1>2 DEF Serial!Event, Serial!Switch, Serial!RunsElsewhere, Serial!AllTids,
                    Switch, RunsElsewhere, AllTids

(* The end of the serial analysis closes what still runs and leaves the    *)
(* trace alone.                                                            *)
LEMMA SerialEndIs ==
  ASSUME Serial!End
  PROVE  /\ ~ended /\ ended' = TRUE /\ running' = running /\ now' = now
         /\ data' = PatchEndTasks(data)
<1>1. ASSUME NEW f, NEW S
      PROVE  Serial!SumFunctionOnSet(f, S) = SumFunctionOnSet(f, S)
  BY DEF Serial!SumFunctionOnSet, SumFunctionOnSet, Serial!FoldFunctionOnSet, FoldFunctionOnSet,
         Serial!MapThenFoldSet, MapThenFoldSet
<1>2. Serial!PatchEndTasks(data) = PatchEndTasks(data)
  <2>1. \A c \in Cpus : Serial!EndCpu(data.cpus[c], data.end) = EndCpu(data.cpus[c], data.end)
    BY DEF EndCpu, Serial!EndCpu, Ran, Serial!Ran
  <2>2. [c \in Cpus |-> Serial!Ran(data.cpus[c], data.end)] =
          [c \in Cpus |-> Ran(data.cpus[c], data.end)]
    BY DEF Ran, Serial!Ran
  <2>3. \A t \in AllTids : Serial!EndProcess(data, t) = EndProcess(data, t)
    <3> TAKE t \in AllTids
    <3>1. Serial!StillRunning(data, t) = StillRunning(data, t)
      BY DEF StillRunning, Serial!StillRunning
    <3> QED
      BY <1>1, <2>2, <3>1 DEF EndProcess, Serial!EndProcess
  <2>4. Serial!AllTids = AllTids
    BY DEF AllTids, Serial!AllTids
  <2> QED
    BY <2>1, <2>3, <2>4 DEF PatchEndTasks, Serial!PatchEndTasks
<1> QED
  BY <1>2 DEF Serial!End

(* The serial analysis begins with an empty context of the whole trace.    *)
LEMMA SerialInitIs == Serial!Init => data = NewContext(TraceBegin, TraceEnd) /\ ended = FALSE
BY DEF Serial!Init, Serial!NewContext, Serial!NewCpu, Serial!NewProcess, Serial!AllTids,
       NewContext, NewCpu, NewProcess, AllTids

(* Both analyses take the same steps.                                      *)
LEMMA StepsOfBoth ==
  BothNext =>
    \/ \E c \in Cpus, next \in AllTids, ts \in now .. TraceEnd, comm \in Comms :
         MapEvent(c, next, comm, ts) /\ Serial!Event(c, next, comm, ts)
    \/ \E c \in Cpus, next \in AllTids, ts \in now .. TraceEnd :
         DiscardedEvent(c, next, ts) /\ data' = data /\ ended' = ended
    \/ Reduce /\ data' = data /\ ended' = ended
    \/ End /\ data' = data /\ ended' = ended
    \/ SerialEnd
    \/ UNCHANGED bothVars
<1>1. \A c \in Cpus : Names(c) \subseteq Comms
  BY TracedSystemAssumption DEF Names
<1> QED
  BY <1>1 DEF BothNext, BothEvent, BothDiscarded, ParallelReduce, ParallelEnd, BothDone

(* The parallel analysis is the one of CpuChunks.                          *)
LEMMA BothRunsChunks == BothSpec => Spec
<1>1. BothInit => Init
  BY DEF BothInit
<1>2. [BothNext]_bothVars => [Next]_vars
  <2>1. SerialEnd => UNCHANGED vars
    BY SerialEndIs DEF SerialEnd, vars
  <2>2. UNCHANGED bothVars => UNCHANGED vars
    BY DEF bothVars
  <2> QED
    BY <2>1, <2>2, StepsOfBoth DEF Next
<1> QED
  BY <1>1, <1>2, PTL DEF BothSpec, Spec

-------------------------------------------------------------------------------
(* Any trace, also one with discarded events.                              *)

(* What the serial analysis charges a CPU lies before the run it times, or *)
(* before now.                                                             *)
SerialWithin ==
  /\ data \in Contexts
  /\ data.start = TraceBegin /\ data.end = TraceEnd
  /\ now \in TraceBegin .. TraceEnd
  /\ running \in [Cpus -> AllTids]
  /\ ended \in BOOLEAN
  /\ \A c \in Cpus : StartedBefore(data.cpus[c], now)
  /\ IF ended
     THEN \A c \in Cpus : /\ data.cpus[c].currentTask = None
                          /\ data.cpus[c].cpu_ns <= TraceEnd - TraceBegin
     ELSE \A c \in Cpus :
            data.cpus[c].cpu_ns <=
              (IF data.cpus[c].currentTask = None THEN now
               ELSE data.cpus[c].currentTask.start) - TraceBegin

(* A serial context stays within the trace, lossy or not: at first, ...    *)
LEMMA SerialWithinInit == BothInit => SerialWithin
<1> SUFFICES ASSUME BothInit PROVE SerialWithin
  OBVIOUS
<1>1. /\ data = NewContext(TraceBegin, TraceEnd) /\ ended = FALSE
      /\ TraceBegin \in Nat /\ TraceEnd \in Nat /\ now = TraceBegin
      /\ TraceBegin <= TraceEnd /\ running \in [Cpus -> AllTids]
  BY SerialInitIs, TracedSystemAssumption DEF BothInit, Init, TraceInit
<1>2. /\ data \in Contexts /\ data.start = TraceBegin /\ data.end = TraceEnd
      /\ \A c \in Cpus : data.cpus[c] = NewCpu
  BY <1>1, NewContextType
<1>3. NewCpu.currentTask = None /\ NewCpu.cpu_ns = 0
  BY DEF NewCpu
<1>4. \A c \in Cpus : data.cpus[c].currentTask = None /\ data.cpus[c].cpu_ns = 0
  BY <1>2, <1>3
<1>5. \A c \in Cpus :
        /\ StartedBefore(data.cpus[c], now)
        /\ data.cpus[c].cpu_ns <=
             (IF data.cpus[c].currentTask = None THEN now
              ELSE data.cpus[c].currentTask.start) - TraceBegin
  BY <1>1, <1>4 DEF StartedBefore
<1>6. now \in TraceBegin .. TraceEnd
  BY <1>1
<1>7. ended \in BOOLEAN /\ ~ended
  BY <1>1, Zenon
<1> QED
  BY <1>1, <1>2, <1>5, <1>6, <1>7 DEF SerialWithin

(* ... when a switch is handled, ...                                       *)
LEMMA SerialWithinEvent ==
  ASSUME SerialWithin, NEW c \in Cpus, NEW next \in AllTids, NEW comm \in Comms,
         NEW ts \in now .. TraceEnd, Serial!Event(c, next, comm, ts)
  PROVE  SerialWithin'
<1> USE TracedSystemAssumption
<1> DEFINE e == SwitchEvent(c, next, comm, ts)
<1>1. /\ e \in Events /\ e.cpu_id = c /\ e.timestamp = ts /\ e.next_tid = next
      /\ ts \in Nat /\ now \in Nat /\ now <= ts /\ ts <= TraceEnd /\ TraceBegin <= now
      /\ TraceBegin \in Nat /\ TraceEnd \in Nat
  BY DEF SwitchEvent, Events, SerialWithin
<1>2. /\ ~ended /\ ended' = ended
      /\ running' = [running EXCEPT ![c] = next] /\ now' = ts
      /\ data' = HandleSchedSwitch(data, e)
  BY SerialEventIs DEF Switch
<1> HIDE DEF e
<1>3. \A d \in Cpus : /\ data.cpus[d] \in Cpu /\ StartedBefore(data.cpus[d], ts)
                      /\ data.cpus[d].cpu_ns \in Nat
                      /\ data.cpus[d].currentTask # None =>
                           data.cpus[d].currentTask.start \in Nat
  <2> TAKE d \in Cpus
  <2>1. data.cpus[d] \in Cpu
    BY DEF SerialWithin, Contexts
  <2> QED
    BY <1>1, <2>1, CpuFields DEF SerialWithin, StartedBefore
<1>4. data' \in Contexts
  BY <1>1, <1>2, <1>3, HandleType DEF SerialWithin
<1>5. /\ data'.cpus = [data.cpus EXCEPT ![c] = SwitchCpu(data.cpus[c], e)]
      /\ data'.start = data.start /\ data'.end = data.end
  BY <1>1, <1>2 DEF HandleSchedSwitch
<1>6. /\ \A d \in Cpus \ {c} : data'.cpus[d] = data.cpus[d]
      /\ data'.cpus[c].cpu_ns = data.cpus[c].cpu_ns + Ran(data.cpus[c], ts)
      /\ data'.cpus[c].currentTask # None => data'.cpus[c].currentTask.start = ts
  BY <1>1, <1>5 DEF SwitchCpu, NextTask, SerialWithin, Contexts
<1>7. \A d \in Cpus : StartedBefore(data'.cpus[d], ts)
  BY <1>1, <1>3, <1>6 DEF StartedBefore
<1>8. data'.cpus[c].cpu_ns <= ts - TraceBegin
  <2>1. CASE data.cpus[c].currentTask = None
    BY <1>1, <1>2, <1>3, <1>6, <2>1 DEF Ran, SerialWithin
  <2>2. CASE data.cpus[c].currentTask # None
    BY <1>1, <1>2, <1>3, <1>6, <2>2 DEF Ran, SerialWithin
  <2> QED
    BY <2>1, <2>2
<1>9. \A d \in Cpus :
        data'.cpus[d].cpu_ns <=
          (IF data'.cpus[d].currentTask = None THEN ts
           ELSE data'.cpus[d].currentTask.start) - TraceBegin
  <2> TAKE d \in Cpus
  <2>1. CASE d = c
    BY <1>6, <1>8, <2>1
  <2>2. CASE d # c
    BY <1>1, <1>2, <1>3, <1>6, <2>2 DEF SerialWithin
  <2> QED
    BY <2>1, <2>2
<1> QED
  BY <1>1, <1>2, <1>4, <1>5, <1>7, <1>9 DEF SerialWithin

(* ... at the end, ...                                                     *)
LEMMA SerialWithinEnd ==
  ASSUME SerialWithin, Serial!End
  PROVE  SerialWithin'
<1> USE TracedSystemAssumption
<1>1. /\ ~ended /\ ended' = TRUE /\ running' = running /\ now' = now
      /\ data' = PatchEndTasks(data)
      /\ now \in Nat /\ TraceBegin \in Nat /\ TraceEnd \in Nat
      /\ TraceBegin <= now /\ now <= TraceEnd
  BY SerialEndIs DEF SerialWithin
<1>2. \A c \in Cpus : /\ data.cpus[c] \in Cpu /\ StartedBefore(data.cpus[c], data.end)
                      /\ data.cpus[c].cpu_ns \in Nat
                      /\ data.cpus[c].currentTask # None =>
                           /\ data.cpus[c].currentTask.start \in Nat
                           /\ data.cpus[c].currentTask.start <= TraceEnd
  <2> TAKE c \in Cpus
  <2>1. data.cpus[c] \in Cpu
    BY DEF SerialWithin, Contexts
  <2> QED
    BY <1>1, <2>1, CpuFields DEF SerialWithin, StartedBefore
<1>3. data' \in Contexts
  BY <1>1, <1>2, EndTotals DEF SerialWithin
<1>4. /\ data'.start = data.start /\ data'.end = data.end
      /\ \A c \in Cpus : /\ data'.cpus[c].currentTask = None
                         /\ data'.cpus[c].cpu_ns = data.cpus[c].cpu_ns + Ran(data.cpus[c], TraceEnd)
  BY <1>1 DEF PatchEndTasks, EndCpu, SerialWithin
<1>5. \A c \in Cpus : data'.cpus[c].cpu_ns <= TraceEnd - TraceBegin
  BY <1>1, <1>2, <1>4 DEF SerialWithin, Ran
<1> QED
  BY <1>1, <1>3, <1>4, <1>5 DEF SerialWithin, StartedBefore

(* ... and so in every step of the two analyses.                           *)
LEMMA SerialWithinStep == SerialWithin /\ [BothNext]_bothVars => SerialWithin'
<1> SUFFICES ASSUME SerialWithin, [BothNext]_bothVars PROVE SerialWithin'
  OBVIOUS
<1>1. ASSUME NEW c \in Cpus, NEW next \in AllTids, NEW ts \in now .. TraceEnd,
             NEW comm \in Comms, Serial!Event(c, next, comm, ts)
      PROVE  SerialWithin'
  BY <1>1, SerialWithinEvent
<1>2. ASSUME NEW c \in Cpus, NEW next \in AllTids, NEW ts \in now .. TraceEnd,
             DiscardedEvent(c, next, ts), data' = data, ended' = ended
      PROVE  SerialWithin'
  <2>1. /\ ts \in Nat /\ now \in Nat /\ TraceBegin \in Nat /\ TraceEnd \in Nat
        /\ now <= ts /\ ts <= TraceEnd /\ TraceBegin <= now
        /\ running' = [running EXCEPT ![c] = next] /\ now' = ts
    BY <1>2, TracedSystemAssumption DEF DiscardedEvent, Switch, SerialWithin
  <2>2. \A d \in Cpus : /\ StartedBefore(data.cpus[d], ts) /\ data.cpus[d].cpu_ns \in Nat
                        /\ data.cpus[d].currentTask # None =>
                             data.cpus[d].currentTask.start \in Nat
    <3> TAKE d \in Cpus
    <3>1. data.cpus[d] \in Cpu
      BY DEF SerialWithin, Contexts
    <3> QED
      BY <2>1, <3>1, CpuFields DEF SerialWithin, StartedBefore
  <2>3. ~ended => \A d \in Cpus :
                    data.cpus[d].cpu_ns <=
                      (IF data.cpus[d].currentTask = None THEN ts
                       ELSE data.cpus[d].currentTask.start) - TraceBegin
    BY <2>1, <2>2 DEF SerialWithin
  <2> QED
    BY <1>2, <2>1, <2>2, <2>3 DEF SerialWithin
<1>3. CASE SerialEnd
  BY <1>3, SerialWithinEnd DEF SerialEnd
<1>4. CASE (Reduce \/ End) /\ data' = data /\ ended' = ended
  BY <1>4 DEF SerialWithin, Reduce, End
<1>5. CASE UNCHANGED bothVars
  BY <1>5 DEF SerialWithin, bothVars, vars
<1> QED
  BY <1>1, <1>2, <1>3, <1>4, <1>5, StepsOfBoth

(* Whatever events were discarded, the serial analysis charges no CPU more *)
(* than the length of the trace (SerialAtMostFull).                        *)
THEOREM SerialNeverAboveFull == BothSpec => []SerialAtMostFull
<1>1. SerialWithin => SerialAtMostFull
  BY DEF SerialWithin, SerialAtMostFull
<1> QED
  BY <1>1, SerialWithinInit, SerialWithinStep, PTL DEF BothSpec

(* The name both analyses would show.                                      *)
NamesAgree == \A t \in AllTids : ThreadNow(t).comm = data.tids[t].comm

(* The name a merge now would report is the chunk's, or that of the chunks *)
(* before when the chunk has not met the thread.                           *)
LEMMA NameNow ==
  \A t \in AllTids : ThreadNow(t).comm = IF work.tids[t].present THEN work.tids[t].comm
                                         ELSE final.tids[t].comm
BY DEF ThreadNow, MergeProcess, MergedName

(* Both analyses have the same names: at first, ...                        *)
LEMMA NamesAgreeInit == BothInit => NamesAgree
<1> SUFFICES ASSUME BothInit PROVE NamesAgree
  OBVIOUS
<1>1. data = NewContext(TraceBegin, TraceEnd) /\ final = NewContext(0, 0)
  BY SerialInitIs DEF BothInit, Init, EmptyContext
<1>2. PICK p : work = NewContext(TraceBegin, p)
  BY DEF BothInit, Init, NewWork
<1> QED
  BY <1>1, <1>2 DEF NamesAgree, ThreadNow, MergeProcess, MergedName, NewContext

(* ... when both handle a switch, ...                                      *)
LEMMA NamesAgreeEvent ==
  ASSUME NamesAgree, TypeOK, SerialWithin,
         NEW c \in Cpus, NEW next \in AllTids, NEW comm \in Comms,
         NEW ts \in now .. TraceEnd, MapEvent(c, next, comm, ts),
         Serial!Event(c, next, comm, ts)
  PROVE  NamesAgree'
<1> DEFINE e == SwitchEvent(c, next, comm, ts)
           prev == running[c]
<1>1. /\ work' = HandleSchedSwitch(work, e) /\ final' = final
      /\ data' = HandleSchedSwitch(data, e)
      /\ work \in Contexts /\ data \in Contexts /\ prev \in AllTids
  BY SerialEventIs DEF MapEvent, TypeOK, SerialWithin
<1>2. e.prev_tid = prev /\ e.prev_comm = comm
  BY DEF SwitchEvent
<1> HIDE DEF e
<1>3. /\ work'.tids[prev].present /\ work'.tids[prev].comm = comm
      /\ data'.tids[prev].comm = comm
      /\ \A t \in AllTids \ {prev} : /\ work'.tids[t] = work.tids[t]
                                     /\ data'.tids[t] = data.tids[t]
  BY <1>1, <1>2 DEF HandleSchedSwitch, SwitchProcess, Contexts
<1>4. \A t \in AllTids : (ThreadNow(t).comm)' = IF work'.tids[t].present THEN work'.tids[t].comm
                                                ELSE final'.tids[t].comm
  BY DEF ThreadNow, MergeProcess, MergedName
<1> QED
  BY <1>1, <1>3, <1>4, NameNow DEF NamesAgree

(* ... when a chunk is merged, ...                                         *)
LEMMA NamesAgreeReduce == NamesAgree /\ TypeOK /\ Reduce /\ data' = data => NamesAgree'
<1> SUFFICES ASSUME NamesAgree, TypeOK, Reduce, data' = data PROVE NamesAgree'
  OBVIOUS
<1>1. PICK s \in Nat, e \in Nat : work' = NewContext(s, e)
  BY NextWork
<1>2. \A t \in AllTids : /\ ~work'.tids[t].present
                         /\ final'.tids[t].comm = ThreadNow(t).comm
  BY <1>1 DEF NewContext, NewProcess, Reduce, Merge, ThreadNow
<1>3. \A t \in AllTids : (ThreadNow(t).comm)' = IF work'.tids[t].present THEN work'.tids[t].comm
                                                ELSE final'.tids[t].comm
  BY DEF ThreadNow, MergeProcess, MergedName
<1> QED
  BY <1>2, <1>3 DEF NamesAgree

(* ... and so in every step.                                               *)
LEMMA NamesAgreeStep ==
  NamesAgree /\ TypeOK /\ SerialWithin /\ [BothNext]_bothVars => NamesAgree'
<1> SUFFICES ASSUME NamesAgree, TypeOK, SerialWithin, [BothNext]_bothVars PROVE NamesAgree'
  OBVIOUS
<1>1. ASSUME NEW c \in Cpus, NEW next \in AllTids, NEW ts \in now .. TraceEnd,
             NEW comm \in Comms, MapEvent(c, next, comm, ts), Serial!Event(c, next, comm, ts)
      PROVE  NamesAgree'
  BY <1>1, NamesAgreeEvent
<1>2. CASE Reduce /\ data' = data
  BY <1>2, NamesAgreeReduce
<1>3. ASSUME work' = work, data' = data,
             \A t \in AllTids : final'.tids[t].comm = final.tids[t].comm
      PROVE  NamesAgree'
  <2>1. \A t \in AllTids : (ThreadNow(t).comm)' = IF work'.tids[t].present THEN work'.tids[t].comm
                                                  ELSE final'.tids[t].comm
    BY DEF ThreadNow, MergeProcess, MergedName
  <2> QED
    BY <1>3, <2>1, NameNow DEF NamesAgree
<1>4. CASE End /\ data' = data
  BY <1>3, <1>4 DEF End, PatchEndTasks, EndProcess
<1>5. CASE SerialEnd
  <2>0. \A t \in AllTids : PatchEndTasks(data).tids[t].comm = data.tids[t].comm
    BY DEF PatchEndTasks, EndProcess
  <2>1. \A t \in AllTids : data'.tids[t].comm = data.tids[t].comm
    BY <1>5, <2>0, SerialEndIs DEF SerialEnd
  <2>2. work' = work /\ final' = final
    BY <1>5 DEF SerialEnd
  <2>3. \A t \in AllTids : (ThreadNow(t).comm)' = ThreadNow(t).comm
    BY <2>2 DEF ThreadNow, MergeProcess, MergedName
  <2> QED
    BY <2>1, <2>3 DEF NamesAgree
<1>6. ASSUME NEW c \in Cpus, NEW next \in AllTids, NEW ts \in now .. TraceEnd,
             DiscardedEvent(c, next, ts), data' = data
      PROVE  NamesAgree'
  BY <1>3, <1>6 DEF DiscardedEvent
<1>7. CASE UNCHANGED bothVars
  BY <1>3, <1>7 DEF bothVars, vars
<1> QED
  BY <1>1, <1>2, <1>4, <1>5, <1>6, <1>7, StepsOfBoth

(* Whatever events were discarded, both analyses show a thread under the   *)
(* same name (SameNames).                                                  *)
THEOREM NamesAreTheSame == BothSpec => []SameNames
<1>1. NamesAgree /\ Phases => SameNames
  <2> SUFFICES ASSUME NamesAgree, Phases, phase = "done", NEW t \in AllTids
               PROVE  final.tids[t].comm = data.tids[t].comm
    BY DEF SameNames
  <2>1. ~work.tids[t].present
    BY DEF Phases, EmptyContext, NewContext, NewProcess
  <2> QED
    BY <2>1, NameNow DEF NamesAgree
<1>2. AnyTraceInv => TypeOK /\ Phases
  BY DEF AnyTraceInv
<1> QED
  BY <1>1, <1>2, NamesAgreeInit, NamesAgreeStep, SerialWithinInit, SerialWithinStep,
     BothRunsChunks, AnyTraceInvariance, PTL DEF BothSpec

-------------------------------------------------------------------------------
(* From here on no event is discarded: currentTask is the task the CPU     *)
(* runs.                                                                   *)
SerialTracks ==
  \A c \in Cpus : data.cpus[c].currentTask # None => data.cpus[c].currentTask.tid = running[c]

SerialInv == SerialWithin /\ SerialTracks /\ OneCpu

(* The initial context accounts for nothing.                               *)
LEMMA SerialInitRefines == BothInit => SerialInv /\ Serial!Usage!Init
<1> SUFFICES ASSUME BothInit PROVE SerialInv /\ Serial!Usage!Init
  OBVIOUS
<1>1. /\ data = NewContext(TraceBegin, TraceEnd) /\ ended = FALSE
      /\ TraceBegin \in Nat /\ TraceEnd \in Nat /\ TraceInit
  BY SerialInitIs, TracedSystemAssumption DEF BothInit, Init
<1>2. /\ \A c \in Cpus : data.cpus[c] = NewCpu
      /\ \A t \in AllTids : data.tids[t] = NewProcess
  BY <1>1, NewContextType
<1>3. /\ NewCpu.currentTask = None /\ NewCpu.cpu_ns = 0
      /\ NewProcess.cpu_ns = 0 /\ NewProcess.comm = NoComm
  BY DEF NewCpu, NewProcess
<1>4. /\ Serial!Since = [c \in Cpus |-> None] /\ Serial!Busy = [c \in Cpus |-> 0]
      /\ Serial!Spent = [t \in AllTids |-> 0] /\ Serial!Name = [t \in AllTids |-> NoComm]
  BY <1>2, <1>3 DEF Serial!Since, Serial!Busy, Serial!Spent, Serial!Name, Serial!AllTids, AllTids
<1>5. Serial!Usage!Init
  BY <1>1, <1>4 DEF TraceInit, RunsElsewhere, AllTids, Serial!Usage!Init,
                    Serial!Usage!TraceInit, Serial!Usage!RunsElsewhere, Serial!Usage!AllTids
<1>6. SerialTracks /\ OneCpu
  BY <1>1, <1>2, <1>3 DEF SerialTracks, OneCpu, TraceInit, RunsElsewhere
<1> QED
  BY <1>5, <1>6, SerialWithinInit DEF SerialInv

(* The elapsed time CpuUsage speaks of is the one the handlers compute.    *)
LEMMA SerialElapsed ==
  ASSUME SerialWithin, NEW c \in Cpus, NEW ts \in Nat
  PROVE  Serial!Usage!Elapsed(c, ts) = Ran(data.cpus[c], ts)
<1>1. data.cpus[c] \in Cpu
  BY DEF SerialWithin, Contexts
<1>2. data.cpus[c].currentTask # None => data.cpus[c].currentTask.start \in Nat
  BY <1>1, CpuFields
<1> QED
  BY <1>2, CpuContextAssumption DEF Serial!Since, Ran, Serial!Usage!Elapsed

(* handleSchedSwitch accounts for the switch as CpuUsage does.             *)
LEMMA SerialEventRefines ==
  ASSUME SerialInv, NEW c \in Cpus, NEW next \in AllTids, NEW comm \in Comms,
         NEW ts \in now .. TraceEnd, Serial!Event(c, next, comm, ts)
  PROVE  SerialInv' /\ Serial!Usage!Account(c, next, comm, ts)
<1> USE TracedSystemAssumption
<1> DEFINE e == SwitchEvent(c, next, comm, ts)
           prev == running[c]
<1>1. /\ e.cpu_id = c /\ e.prev_tid = prev /\ e.next_tid = next
      /\ e.timestamp = ts /\ e.prev_comm = comm
      /\ prev \in AllTids /\ ts \in Nat
      /\ data \in Contexts /\ data.cpus[c] \in Cpu
      /\ SerialWithin /\ running \in [Cpus -> AllTids]
  BY DEF SwitchEvent, SerialInv, SerialWithin, Contexts
<1>2. /\ ~ended /\ ended' = ended /\ Switch(c, next, ts)
      /\ running' = [running EXCEPT ![c] = next] /\ now' = ts
      /\ next # prev /\ (next # Idle => ~RunsElsewhere(next, c))
      /\ data' = HandleSchedSwitch(data, e)
  BY SerialEventIs DEF Switch
<1> HIDE DEF e
<1>5. /\ data'.cpus = [data.cpus EXCEPT ![c] = SwitchCpu(data.cpus[c], e)]
      /\ data'.tids = [data.tids EXCEPT ![prev] =
                         SwitchProcess(data.tids[prev], e, Ran(data.cpus[c], ts))]
  BY <1>1, <1>2 DEF HandleSchedSwitch
<1>6. /\ data'.cpus[c] = SwitchCpu(data.cpus[c], e)
      /\ \A d \in Cpus \ {c} : data'.cpus[d] = data.cpus[d]
      /\ data'.tids[prev] = SwitchProcess(data.tids[prev], e, Ran(data.cpus[c], ts))
      /\ \A t \in AllTids \ {prev} : data'.tids[t] = data.tids[t]
  BY <1>1, <1>5 DEF Contexts
<1>7. data'.cpus[c].currentTask = IF next # Idle THEN [start |-> ts, tid |-> next] ELSE None
  BY <1>1, <1>6 DEF SwitchCpu, NextTask
<1>8. SerialTracks'
  <2>1. data'.cpus[c].currentTask # None => data'.cpus[c].currentTask.tid = next
    BY <1>7
  <2> QED
    BY <1>1, <1>2, <1>6, <2>1 DEF SerialInv, SerialTracks
<1>9. OneCpu'
  BY <1>1, <1>2 DEF SerialInv, OneCpu, RunsElsewhere
<1>10. SerialWithin'
  BY <1>1, SerialWithinEvent
<1>11. Serial!Usage!Elapsed(c, ts) = Ran(data.cpus[c], ts)
  BY <1>1, SerialElapsed
<1>12. /\ data'.cpus[c].cpu_ns = data.cpus[c].cpu_ns + Serial!Usage!Elapsed(c, ts)
       /\ data'.tids[prev].cpu_ns = data.tids[prev].cpu_ns + Serial!Usage!Elapsed(c, ts)
       /\ data'.tids[prev].comm = comm
  BY <1>1, <1>6, <1>11 DEF SwitchCpu, SwitchProcess
<1>13. Serial!AllTids = AllTids
  BY DEF Serial!AllTids, AllTids
<1>14. Serial!Busy' = [Serial!Busy EXCEPT ![c] = @ + Serial!Usage!Elapsed(c, ts)]
  BY <1>6, <1>12 DEF Serial!Busy
<1>15. /\ Serial!Spent' = [Serial!Spent EXCEPT ![prev] = @ + Serial!Usage!Elapsed(c, ts)]
       /\ Serial!Name' = [Serial!Name EXCEPT ![prev] = comm]
  BY <1>6, <1>12, <1>13 DEF Serial!Spent, Serial!Name
<1>16. Serial!Since' = [Serial!Since EXCEPT ![c] = IF next = Idle THEN None ELSE ts]
  <2>1. next # Idle => [start |-> ts, tid |-> next] # None
    BY <1>1, CpuContextAssumption DEF Task, AllTids
  <2>2. data'.cpus[c].currentTask = None <=> next = Idle
    BY <1>7, <2>1
  <2>3. next # Idle => data'.cpus[c].currentTask.start = ts
    BY <1>7
  <2> QED
    BY <1>6, <2>2, <2>3 DEF Serial!Since
<1>17. Serial!Usage!Switch(c, next, ts)
  BY <1>2 DEF Switch, RunsElsewhere, AllTids, Serial!Usage!Switch,
              Serial!Usage!RunsElsewhere, Serial!Usage!AllTids
<1> QED
  BY <1>2, <1>8, <1>9, <1>10, <1>14, <1>15, <1>16, <1>17 DEF SerialInv, Serial!Usage!Account

(* handleEnd charges the last runs as CpuUsage does.                       *)
LEMMA SerialEndRefines == SerialInv /\ Serial!End => SerialInv' /\ Serial!Usage!Close
<1> SUFFICES ASSUME SerialInv, Serial!End PROVE SerialInv' /\ Serial!Usage!Close
  OBVIOUS
<1> USE TracedSystemAssumption
<1> DEFINE last == [c \in Cpus |-> Ran(data.cpus[c], TraceEnd)]
<1>1. /\ ~ended /\ ended' = TRUE /\ data' = PatchEndTasks(data)
      /\ running' = running /\ now' = now
      /\ SerialWithin /\ data.end = TraceEnd /\ TraceEnd \in Nat
      /\ \A c \in Cpus : data.cpus[c] \in Cpu
  BY SerialEndIs DEF SerialInv, SerialWithin, Contexts
<1>2. [c \in Cpus |-> Serial!Usage!Elapsed(c, TraceEnd)] = last
  BY <1>1, SerialElapsed
<1> HIDE DEF last
<1>3. \A t \in AllTids : StillRunning(data, t) = Serial!Usage!Hosts(t)
  <2>1. \A c \in Cpus : (Serial!Since[c] # None) <=> (data.cpus[c].currentTask # None)
    BY <1>1, CpuFields, CpuContextAssumption DEF Serial!Since
  <2> QED
    BY <2>1 DEF StillRunning, Serial!Usage!Hosts, SerialInv, SerialTracks
<1>4. /\ \A c \in Cpus :
            /\ data'.cpus[c].cpu_ns = data.cpus[c].cpu_ns + Ran(data.cpus[c], TraceEnd)
            /\ data'.cpus[c].currentTask = None
      /\ \A t \in AllTids :
            /\ data'.tids[t].cpu_ns =
                 data.tids[t].cpu_ns + SumFunctionOnSet(last, StillRunning(data, t))
            /\ data'.tids[t].comm = data.tids[t].comm
  BY <1>1 DEF PatchEndTasks, EndCpu, EndProcess, last
<1>5. SerialWithin' /\ SerialTracks' /\ OneCpu'
  BY <1>1, <1>4, SerialWithinEnd DEF SerialInv, SerialTracks, OneCpu
<1>6. Serial!AllTids = AllTids /\ Serial!Usage!AllTids = AllTids
  BY DEF AllTids, Serial!AllTids, Serial!Usage!AllTids
<1>7. Serial!Busy' = [c \in Cpus |-> Serial!Busy[c] + Serial!Usage!Elapsed(c, TraceEnd)]
  BY <1>1, <1>4, SerialElapsed DEF Serial!Busy
<1>8. ASSUME NEW f, NEW S
      PROVE  Serial!Usage!SumFunctionOnSet(f, S) = SumFunctionOnSet(f, S)
  BY DEF Serial!Usage!SumFunctionOnSet, SumFunctionOnSet, Serial!Usage!FoldFunctionOnSet,
         FoldFunctionOnSet, Serial!Usage!MapThenFoldSet, MapThenFoldSet
<1>9. Serial!Spent' = [t \in AllTids |-> Serial!Spent[t] + SumFunctionOnSet(last, Serial!Usage!Hosts(t))]
  BY <1>3, <1>4, <1>6 DEF Serial!Spent
<1>10. Serial!Name' = Serial!Name /\ Serial!Since' = [c \in Cpus |-> None]
  BY <1>4, <1>6 DEF Serial!Name, Serial!Since
<1>11. Serial!Usage!Close
  BY <1>1, <1>2, <1>6, <1>7, <1>8, <1>9, <1>10 DEF Serial!Usage!Close
<1> QED
  BY <1>5, <1>11 DEF SerialInv

(* Every step of both analyses is a step of the serial one, or none.       *)
LEMMA SerialStepRefines ==
  ASSUME ~Lossy
  PROVE  SerialInv /\ [BothNext]_bothVars =>
           SerialInv' /\ [Serial!Usage!Next]_Serial!Usage!vars
<1> SUFFICES ASSUME SerialInv, [BothNext]_bothVars
             PROVE  SerialInv' /\ [Serial!Usage!Next]_Serial!Usage!vars
  OBVIOUS
<1>1. ASSUME NEW c \in Cpus, NEW next \in AllTids, NEW ts \in now .. TraceEnd,
             NEW comm \in Comms, Serial!Event(c, next, comm, ts)
      PROVE  SerialInv' /\ Serial!Usage!Next
  BY <1>1, SerialEventRefines DEF Serial!Usage!Next, Serial!Usage!AllTids, AllTids
<1>2. ASSUME UNCHANGED <<data, ended, running, now>>
      PROVE  SerialInv' /\ UNCHANGED Serial!Usage!vars
  BY <1>2 DEF SerialInv, SerialWithin, SerialTracks, OneCpu, Serial!Usage!vars,
              Serial!Since, Serial!Busy, Serial!Spent, Serial!Name
<1>3. CASE Reduce /\ data' = data /\ ended' = ended
  BY <1>2, <1>3 DEF Reduce
<1>4. CASE End /\ data' = data /\ ended' = ended
  BY <1>2, <1>4 DEF End
<1>5. CASE SerialEnd
  BY <1>5, SerialEndRefines DEF SerialEnd, Serial!Usage!Next
<1>6. CASE UNCHANGED bothVars
  BY <1>2, <1>6 DEF bothVars, vars
<1>7. ASSUME NEW c \in Cpus, NEW next \in AllTids, NEW ts \in now .. TraceEnd,
             DiscardedEvent(c, next, ts)
      PROVE  FALSE
  BY <1>7 DEF DiscardedEvent
<1> QED
  BY <1>1, <1>3, <1>4, <1>5, <1>6, <1>7, StepsOfBoth

(* The serial analysis charges every CPU and every thread exactly the time *)
(* it is known to run (SerialImplementsUsage).                             *)
THEOREM SerialRefinesUsage ==
  ASSUME ~Lossy
  PROVE  BothSpec => SerialImplementsUsage
BY SerialInitRefines, SerialStepRefines,
   PTL DEF BothSpec, SerialImplementsUsage, Serial!SerialImplementsUsage, Serial!Usage!Spec

-------------------------------------------------------------------------------
(* A thread that was seen is listed under its own id, until the end of the *)
(* trace lists those that were only seen entering a CPU.                   *)
Entries(ctx) ==
  \A t \in AllTids : ctx.tids[t].tid = IF ctx.tids[t].present THEN t ELSE UnknownTid

(* The thread a chunk saw leave a CPU has an entry in that chunk.          *)
Recorded ==
  \A c \in Cpus : work.cpus[c].unknownTask # None =>
                    work.tids[work.cpus[c].unknownTask.tid].present

Labels ==
  /\ Entries(work) /\ Recorded
  /\ phase # "done" => Entries(final)
  /\ ~ended => Entries(data)

(* While the trace is read both analyses account for the same; afterwards  *)
(* they charge the same by the end of the trace.                           *)
Together ==
  phase = "map" =>
    /\ ~ended
    /\ Since = Serial!Since /\ Busy = Serial!Busy
    /\ Spent = Serial!Spent /\ Name = Serial!Name
    /\ \A c \in Cpus : CpuNow(c).present <=> data.cpus[c].present
    /\ \A t \in AllTids : ThreadNow(t).present <=> data.tids[t].present

Owed ==
  phase # "map" =>
    /\ \A c \in Cpus :
         /\ EndCpu(final.cpus[c], TraceEnd).present = EndCpu(data.cpus[c], TraceEnd).present
         /\ EndCpu(final.cpus[c], TraceEnd).cpu_ns = EndCpu(data.cpus[c], TraceEnd).cpu_ns
    /\ \A t \in AllTids : EndProcess(final, t) = EndProcess(data, t)

SameInv == IInv /\ SerialInv /\ Labels /\ Together /\ Owed

(* An entry of the merged context exists when one of the two has it.       *)
LEMMA EntryMerged ==
  ASSUME NEW this, NEW other, NEW t \in AllTids,
         \A c \in Cpus : other.cpus[c].unknownTask # None =>
                           other.tids[other.cpus[c].unknownTask.tid].present
  PROVE  /\ MergeProcess(this, other, t).present <=>
              (this.tids[t].present \/ other.tids[t].present)
         /\ MergeProcess(this, other, t).tid = IF this.tids[t].present THEN this.tids[t].tid
                                               ELSE other.tids[t].tid
<1>1. CompletedOn(this, other, t) # {} => other.tids[t].present
  BY DEF CompletedOn, Continued, SameTask
<1> QED
  BY <1>1 DEF MergeProcess

(* A switch is recorded under the id of the thread that leaves.            *)
LEMMA HandleEntries ==
  ASSUME NEW ctx \in Contexts, NEW e \in Events, Entries(ctx)
  PROVE  /\ Entries(HandleSchedSwitch(ctx, e))
         /\ HandleSchedSwitch(ctx, e).cpus[e.cpu_id].present
         /\ \A d \in Cpus \ {e.cpu_id} : HandleSchedSwitch(ctx, e).cpus[d] = ctx.cpus[d]
         /\ HandleSchedSwitch(ctx, e).tids[e.prev_tid].present
         /\ \A t \in AllTids \ {e.prev_tid} :
              HandleSchedSwitch(ctx, e).tids[t] = ctx.tids[t]
<1> DEFINE next == HandleSchedSwitch(ctx, e)
           p == e.prev_tid
<1>1. e.cpu_id \in Cpus /\ p \in AllTids
  BY DEF Events
<1>2. /\ next.cpus[e.cpu_id] = SwitchCpu(ctx.cpus[e.cpu_id], e)
      /\ \A d \in Cpus \ {e.cpu_id} : next.cpus[d] = ctx.cpus[d]
      /\ next.tids[p] = SwitchProcess(ctx.tids[p], e, Ran(ctx.cpus[e.cpu_id], e.timestamp))
      /\ \A t \in AllTids \ {p} : next.tids[t] = ctx.tids[t]
  BY <1>1 DEF HandleSchedSwitch, Contexts
<1>3. next.cpus[e.cpu_id].present
  BY <1>2 DEF SwitchCpu
<1>4. next.tids[p].present /\ next.tids[p].tid = p
  BY <1>1, <1>2 DEF SwitchProcess, Entries
<1> HIDE DEF next, p
<1>5. Entries(next)
  BY <1>2, <1>4 DEF Entries
<1> QED
  BY <1>2, <1>3, <1>4, <1>5 DEF next, p

(* Patching a context that has no task running changes nothing.            *)
LEMMA PatchTwice ==
  ASSUME NEW ctx \in Contexts, \A c \in Cpus : ctx.cpus[c].currentTask = None, NEW ts
  PROVE  /\ \A c \in Cpus : /\ EndCpu(ctx.cpus[c], ts).present = ctx.cpus[c].present
                            /\ EndCpu(ctx.cpus[c], ts).cpu_ns = ctx.cpus[c].cpu_ns
         /\ \A t \in AllTids : EndProcess(ctx, t) = ctx.tids[t]
<1>1. \A c \in Cpus : Ran(ctx.cpus[c], ts) = 0 /\ ctx.cpus[c].cpu_ns \in Nat
  BY CpuFields DEF Ran, Contexts
<1>2. \A c \in Cpus : /\ EndCpu(ctx.cpus[c], ts).present = ctx.cpus[c].present
                      /\ EndCpu(ctx.cpus[c], ts).cpu_ns = ctx.cpus[c].cpu_ns
  BY <1>1 DEF EndCpu
<1>3. ASSUME NEW t \in AllTids PROVE EndProcess(ctx, t) = ctx.tids[t]
  <2>1. ctx.tids[t] \in Process
    BY DEF Contexts
  <2>2. StillRunning(ctx, t) = {}
    BY DEF StillRunning
  <2>3. SumFunctionOnSet([c \in Cpus |-> Ran(ctx.cpus[c], ctx.end)], StillRunning(ctx, t)) = 0
    BY <2>2, SumOfNone
  <2>4. /\ EndProcess(ctx, t).cpu_ns = ctx.tids[t].cpu_ns
        /\ EndProcess(ctx, t).tid = ctx.tids[t].tid
        /\ EndProcess(ctx, t).comm = ctx.tids[t].comm
    BY <2>1, <2>3 DEF EndProcess, Process
  <2>5. EndProcess(ctx, t).present = (ctx.tids[t].present \/ FALSE)
    BY <2>2 DEF EndProcess
  <2>6. EndProcess(ctx, t).present = ctx.tids[t].present
    BY <2>1, <2>5 DEF Process
  <2> QED
    BY <2>1, <2>4, <2>6 DEF EndProcess, Process
<1> QED
  BY <1>2, <1>3

(* The contexts agree before the first event.                              *)
LEMMA SameInit == BothInit => SameInv
<1> SUFFICES ASSUME BothInit PROVE SameInv
  OBVIOUS
<1>1. /\ IInv /\ Usage!Init /\ SerialInv /\ Serial!Usage!Init
      /\ data = NewContext(TraceBegin, TraceEnd) /\ ~ended
      /\ final = NewContext(0, 0) /\ phase = "map"
  BY InitRefines, SerialInitRefines, SerialInitIs DEF BothInit, Init, EmptyContext
<1>2. PICK p : work = NewContext(TraceBegin, p)
  BY DEF BothInit, Init, NewWork
<1>3. ASSUME NEW s, NEW e
      PROVE  /\ Entries(NewContext(s, e))
             /\ \A c \in Cpus : ~NewContext(s, e).cpus[c].present
             /\ \A c \in Cpus : NewContext(s, e).cpus[c].unknownTask = None
             /\ \A t \in AllTids : ~NewContext(s, e).tids[t].present
  BY DEF Entries, NewContext, NewCpu, NewProcess
<1>4. Labels
  BY <1>1, <1>2, <1>3 DEF Labels, Recorded
<1>5. /\ Serial!Usage!AllTids = AllTids /\ Usage!AllTids = AllTids
  BY DEF AllTids, Usage!AllTids, Serial!Usage!AllTids
<1>6. /\ Since = Serial!Since /\ Busy = Serial!Busy
      /\ Spent = Serial!Spent /\ Name = Serial!Name
  BY <1>1, <1>5 DEF Usage!Init, Serial!Usage!Init
<1>7. \A c \in Cpus : ~CpuNow(c).present
  BY <1>1, <1>2, <1>3 DEF CpuNow, MergeCpu
<1>8. \A t \in AllTids : ~ThreadNow(t).present
  BY <1>1, <1>2, <1>3, EntryMerged DEF ThreadNow
<1>9. Together
  BY <1>1, <1>3, <1>6, <1>7, <1>8 DEF Together
<1> QED
  BY <1>1, <1>4, <1>9 DEF SameInv, Owed

(* A switch is accounted for alike.                                        *)
LEMMA SameEvent ==
  ASSUME SameInv, NEW c \in Cpus, NEW next \in AllTids, NEW comm \in Comms,
         NEW ts \in now .. TraceEnd, MapEvent(c, next, comm, ts),
         Serial!Event(c, next, comm, ts)
  PROVE  SameInv'
<1> DEFINE e == SwitchEvent(c, next, comm, ts)
           prev == running[c]
<1>1. /\ IInv /\ IInv' /\ Usage!Account(c, next, comm, ts)
      /\ SerialInv /\ SerialInv' /\ Serial!Usage!Account(c, next, comm, ts)
  BY MapEventRefines, SerialEventRefines DEF SameInv
<1>2. /\ phase = "map" /\ phase' = phase /\ final' = final /\ ~ended /\ ended' = ended
      /\ work' = HandleSchedSwitch(work, e) /\ data' = HandleSchedSwitch(data, e)
  BY SerialEventIs DEF MapEvent
<1>3. /\ e \in Events /\ e.cpu_id = c /\ e.prev_tid = prev
      /\ work \in Contexts /\ data \in Contexts /\ prev \in AllTids
      /\ Entries(work) /\ Entries(data) /\ Entries(final) /\ Recorded
      /\ e.timestamp \in Nat
  BY <1>1, <1>2, TracedSystemAssumption
     DEF SwitchEvent, Events, IInv, TypeOK, SerialInv, SerialWithin, SameInv, Labels
<1> HIDE DEF e, prev
<1>4. /\ Entries(work') /\ work'.cpus[c].present /\ work'.tids[prev].present
      /\ \A d \in Cpus \ {c} : work'.cpus[d] = work.cpus[d]
      /\ \A t \in AllTids \ {prev} : work'.tids[t] = work.tids[t]
  BY <1>2, <1>3, HandleEntries
<1>5. /\ Entries(data') /\ data'.cpus[c].present /\ data'.tids[prev].present
      /\ \A d \in Cpus \ {c} : data'.cpus[d] = data.cpus[d]
      /\ \A t \in AllTids \ {prev} : data'.tids[t] = data.tids[t]
  BY <1>2, <1>3, HandleEntries
<1>6. Recorded'
  <2>1. work'.cpus[c].unknownTask \in {work.cpus[c].unknownTask, [end |-> e.timestamp, tid |-> prev]}
    <3>1. work'.cpus[c] = SwitchCpu(work.cpus[c], e)
      BY <1>2, <1>3 DEF HandleSchedSwitch, Contexts
    <3>2. SwitchCpu(work.cpus[c], e).unknownTask =
            IF work.cpus[c].currentTask = None /\ prev # Idle
            THEN [end |-> e.timestamp, tid |-> prev] ELSE work.cpus[c].unknownTask
      BY <1>3 DEF SwitchCpu
    <3> QED
      BY <3>1, <3>2
  <2>2. ASSUME NEW d \in Cpus, work'.cpus[d].unknownTask # None
        PROVE  work'.tids[work'.cpus[d].unknownTask.tid].present
    <3>1. CASE work'.cpus[d].unknownTask = work.cpus[d].unknownTask
      <4>1. work.tids[work.cpus[d].unknownTask.tid].present
        BY <1>3, <2>2, <3>1 DEF Recorded
      <4>2. work.cpus[d].unknownTask.tid \in AllTids
        <5>1. work.cpus[d] \in Cpu
          BY <1>3 DEF Contexts
        <5> QED
          BY <2>2, <3>1, <5>1, CpuFields DEF AllTids
      <4> QED
        BY <1>4, <3>1, <4>1, <4>2
    <3>2. CASE work'.cpus[d].unknownTask = [end |-> e.timestamp, tid |-> prev]
      BY <1>4, <3>2
    <3> QED
      BY <1>4, <2>1, <3>1, <3>2
  <2> QED
    BY <2>2 DEF Recorded
<1>7. Labels'
  BY <1>2, <1>3, <1>4, <1>5, <1>6 DEF Labels, Entries
<1>8. /\ Since = Serial!Since /\ Busy = Serial!Busy
      /\ Spent = Serial!Spent /\ Name = Serial!Name
      /\ \A d \in Cpus : CpuNow(d).present <=> data.cpus[d].present
      /\ \A t \in AllTids : ThreadNow(t).present <=> data.tids[t].present
  BY <1>2 DEF SameInv, Together
<1>9. Usage!Elapsed(c, ts) = Serial!Usage!Elapsed(c, ts)
  BY <1>8 DEF Usage!Elapsed, Serial!Usage!Elapsed
<1>10. /\ Since' = Serial!Since' /\ Busy' = Serial!Busy'
       /\ Spent' = Serial!Spent' /\ Name' = Serial!Name'
  BY <1>1, <1>8, <1>9 DEF Usage!Account, Serial!Usage!Account
<1>11. \A d \in Cpus : CpuNow(d)'.present <=> data'.cpus[d].present
  <2>1. \A d \in Cpus : CpuNow(d)'.present <=> (final.cpus[d].present \/ work'.cpus[d].present)
    BY <1>2 DEF CpuNow, MergeCpu
  <2>2. \A d \in Cpus : CpuNow(d).present <=> (final.cpus[d].present \/ work.cpus[d].present)
    BY DEF CpuNow, MergeCpu
  <2> QED
    BY <1>4, <1>5, <1>8, <2>1, <2>2
<1>12. \A t \in AllTids : ThreadNow(t)'.present <=> data'.tids[t].present
  <2>1. \A t \in AllTids :
          ThreadNow(t)'.present <=> (final'.tids[t].present \/ work'.tids[t].present)
    BY <1>6, EntryMerged DEF Recorded, ThreadNow
  <2>2. \A t \in AllTids :
          ThreadNow(t).present <=> (final.tids[t].present \/ work.tids[t].present)
    BY <1>3, EntryMerged DEF Recorded, ThreadNow
  <2> QED
    BY <1>2, <1>4, <1>5, <1>8, <2>1, <2>2
<1> QED
  BY <1>1, <1>2, <1>7, <1>10, <1>11, <1>12 DEF SameInv, Together, Owed

(* What both analyses have accounted for when the trace is read.           *)
LEMMA SameContexts ==
  ASSUME SameInv, phase = "map"
  PROVE  /\ \A c \in Cpus : /\ CpuNow(c).present = data.cpus[c].present
                            /\ CpuNow(c).cpu_ns = data.cpus[c].cpu_ns
                            /\ CpuNow(c).currentTask = data.cpus[c].currentTask
         /\ \A t \in AllTids : ThreadNow(t) = data.tids[t]
<1>1. /\ IInv /\ SerialInv /\ Recorded /\ Entries(work) /\ Entries(final) /\ Entries(data)
      /\ Since = Serial!Since /\ Busy = Serial!Busy
      /\ Spent = Serial!Spent /\ Name = Serial!Name
      /\ \A c \in Cpus : CpuNow(c).present <=> data.cpus[c].present
      /\ \A t \in AllTids : ThreadNow(t).present <=> data.tids[t].present
  BY DEF SameInv, Together, Labels
<1>2. /\ StopsLater(final, work) /\ final \in Contexts /\ work \in Contexts
      /\ \A c \in Cpus : CpuNow(c) \in Cpu
      /\ \A c \in Cpus : CpuNow(c).currentTask # None => CpuNow(c).currentTask.tid = running[c]
  BY <1>1, MergeReady
<1>3. /\ data \in Contexts
      /\ \A c \in Cpus : data.cpus[c].currentTask # None => data.cpus[c].currentTask.tid = running[c]
  BY <1>1 DEF SerialInv, SerialWithin, SerialTracks
<1>4. ASSUME NEW c \in Cpus
      PROVE  /\ CpuNow(c).present = data.cpus[c].present
             /\ CpuNow(c).cpu_ns = data.cpus[c].cpu_ns
             /\ CpuNow(c).currentTask = data.cpus[c].currentTask
  <2>1. CpuNow(c) \in Cpu /\ data.cpus[c] \in Cpu
    BY <1>2, <1>3 DEF Contexts
  <2>2. /\ CpuNow(c).present \in BOOLEAN /\ data.cpus[c].present \in BOOLEAN
        /\ CpuNow(c).currentTask # None => CpuNow(c).currentTask \in Task
        /\ data.cpus[c].currentTask # None => data.cpus[c].currentTask \in Task
        /\ CpuNow(c).currentTask # None => CpuNow(c).currentTask.start \in Nat
        /\ data.cpus[c].currentTask # None => data.cpus[c].currentTask.start \in Nat
    BY <2>1, CpuFields
  <2>3. CpuNow(c).present = data.cpus[c].present
    BY <1>1, <2>2
  <2>4. Busy[c] = CpuNow(c).cpu_ns /\ Serial!Busy[c] = data.cpus[c].cpu_ns
    BY DEF Busy, Serial!Busy
  <2>5. /\ Since[c] = IF CpuNow(c).currentTask = None THEN None ELSE CpuNow(c).currentTask.start
        /\ Serial!Since[c] = IF data.cpus[c].currentTask = None THEN None
                             ELSE data.cpus[c].currentTask.start
    BY DEF Since, Serial!Since
  <2>6. CpuNow(c).currentTask = None <=> data.cpus[c].currentTask = None
    BY <1>1, <2>2, <2>5, CpuContextAssumption
  <2>7. CpuNow(c).currentTask # None =>
          /\ CpuNow(c).currentTask.start = data.cpus[c].currentTask.start
          /\ CpuNow(c).currentTask.tid = data.cpus[c].currentTask.tid
    BY <1>1, <1>2, <1>3, <2>5, <2>6
  <2>8. CpuNow(c).currentTask = data.cpus[c].currentTask
    BY <2>2, <2>6, <2>7 DEF Task
  <2> QED
    BY <1>1, <2>3, <2>4, <2>8
<1>5. ASSUME NEW t \in AllTids PROVE ThreadNow(t) = data.tids[t]
  <2>1. ThreadNow(t) \in Process /\ data.tids[t] \in Process
    BY <1>2, <1>3, MergeType DEF ThreadNow, Contexts
  <2>2. Spent[t] = ThreadNow(t).cpu_ns /\ Name[t] = ThreadNow(t).comm
    BY DEF Spent, Name
  <2>3. Serial!Spent[t] = data.tids[t].cpu_ns /\ Serial!Name[t] = data.tids[t].comm
    BY DEF Serial!Spent, Serial!Name, Serial!AllTids, AllTids
  <2>4. ThreadNow(t).tid = data.tids[t].tid
    <3>1. /\ ThreadNow(t).present <=> (final.tids[t].present \/ work.tids[t].present)
          /\ ThreadNow(t).tid = IF final.tids[t].present THEN final.tids[t].tid
                                ELSE work.tids[t].tid
      BY <1>1, EntryMerged DEF Recorded, ThreadNow
    <3> QED
      BY <1>1, <3>1 DEF Entries
  <2>5. ThreadNow(t).present = data.tids[t].present
    BY <1>1, <2>1 DEF Process
  <2> QED
    BY <1>1, <2>1, <2>2, <2>3, <2>4, <2>5 DEF Process
<1> QED
  BY <1>4, <1>5

(* Merging a chunk changes no account.                                     *)
LEMMA SameReduce ==
  ASSUME SameInv, Reduce, data' = data, ended' = ended
  PROVE  SameInv'
<1>1. /\ IInv /\ SerialInv /\ Labels /\ phase = "map" /\ final' = Merge(final, work)
      /\ running' = running /\ now' = now /\ Recorded /\ ~ended
      /\ Entries(work) /\ Entries(final) /\ Entries(data)
  BY DEF SameInv, Together, Labels, Reduce
<1>2. IInv' /\ UNCHANGED Usage!vars
  BY <1>1, ReduceRefines
<1>3. SerialInv'
  BY <1>1 DEF SerialInv, SerialWithin, SerialTracks, OneCpu
<1>4. PICK s \in Nat, e \in Nat : /\ work' = NewContext(s, e)
                                  /\ phase' # "map" => work' = EmptyContext
  BY <1>1, NextWork DEF IInv
<1>5. /\ Entries(work') /\ \A c \in Cpus : work'.cpus[c].unknownTask = None
      /\ \A c \in Cpus : ~work'.cpus[c].present
      /\ \A t \in AllTids : ~work'.tids[t].present
  BY <1>4 DEF NewContext, NewCpu, NewProcess, Entries
<1>6. /\ \A c \in Cpus : final'.cpus[c] = CpuNow(c)
      /\ \A t \in AllTids : final'.tids[t] = ThreadNow(t)
  BY <1>1, MergeReady, MergeType DEF CpuNow, ThreadNow
<1>7. /\ \A c \in Cpus : /\ final'.cpus[c].present = data.cpus[c].present
                         /\ final'.cpus[c].cpu_ns = data.cpus[c].cpu_ns
                         /\ final'.cpus[c].currentTask = data.cpus[c].currentTask
      /\ \A t \in AllTids : final'.tids[t] = data.tids[t]
  BY <1>1, <1>6, SameContexts
<1>8. Labels'
  <2>1. Entries(work') /\ Recorded'
    BY <1>5 DEF Recorded
  <2>2. Entries(final')
    BY <1>1, <1>7 DEF Entries
  <2>3. ~ended' => Entries(data')
    BY <1>1
  <2> QED
    BY <2>1, <2>2, <2>3 DEF Labels, Entries
<1>9. Together'
  <2>1. \A c \in Cpus : CpuNow(c)'.present <=> final'.cpus[c].present
    BY <1>5 DEF CpuNow, MergeCpu
  <2>2. \A t \in AllTids : ThreadNow(t)'.present <=> final'.tids[t].present
    BY <1>5, EntryMerged DEF ThreadNow
  <2>3. /\ Serial!Since' = Serial!Since /\ Serial!Busy' = Serial!Busy
        /\ Serial!Spent' = Serial!Spent /\ Serial!Name' = Serial!Name
    BY DEF Serial!Since, Serial!Busy, Serial!Spent, Serial!Name
  <2> QED
    BY <1>1, <1>2, <1>7, <2>1, <2>2, <2>3 DEF SameInv, Together, Usage!vars
<1>10. Owed'
  <2> SUFFICES ASSUME phase' # "map" PROVE Owed'
    BY DEF Owed
  <2>1. final'.end = TraceEnd /\ data'.end = TraceEnd
    BY <1>1, <1>2 DEF IInv, Spans, SerialInv, SerialWithin
  <2>2. \A c \in Cpus : \A ts : Ran(final'.cpus[c], ts) = Ran(data'.cpus[c], ts)
    BY <1>7 DEF Ran
  <2>3. \A c \in Cpus :
          /\ EndCpu(final'.cpus[c], TraceEnd).present = EndCpu(data'.cpus[c], TraceEnd).present
          /\ EndCpu(final'.cpus[c], TraceEnd).cpu_ns = EndCpu(data'.cpus[c], TraceEnd).cpu_ns
    BY <1>7, <2>2 DEF EndCpu
  <2>4. \A t \in AllTids : EndProcess(final', t) = EndProcess(data', t)
    <3> TAKE t \in AllTids
    <3>1. StillRunning(final', t) = StillRunning(data', t)
      BY <1>7 DEF StillRunning
    <3>2. [c \in Cpus |-> Ran(final'.cpus[c], final'.end)] =
            [c \in Cpus |-> Ran(data'.cpus[c], data'.end)]
      BY <2>1, <2>2
    <3>3. final'.tids[t] = data'.tids[t]
      BY <1>7
    <3> QED
      BY <3>1, <3>2, <3>3 DEF EndProcess
  <2> QED
    BY <2>3, <2>4 DEF Owed
<1> QED
  BY <1>2, <1>3, <1>8, <1>9, <1>10 DEF SameInv

(* After handleEnd nothing more is owed, and what it charged was owed.     *)
LEMMA PatchedOwes ==
  ASSUME NEW ctx \in Contexts, PatchEndTasks(ctx) \in Contexts, ctx.end = TraceEnd
  PROVE  LET patched == PatchEndTasks(ctx)
         IN  /\ \A c \in Cpus :
                  /\ patched.cpus[c].currentTask = None
                  /\ EndCpu(patched.cpus[c], TraceEnd).present = EndCpu(ctx.cpus[c], TraceEnd).present
                  /\ EndCpu(patched.cpus[c], TraceEnd).cpu_ns = EndCpu(ctx.cpus[c], TraceEnd).cpu_ns
             /\ \A t \in AllTids : EndProcess(patched, t) = EndProcess(ctx, t)
<1> DEFINE patched == PatchEndTasks(ctx)
<1>1. /\ \A c \in Cpus : patched.cpus[c] = EndCpu(ctx.cpus[c], TraceEnd)
      /\ \A t \in AllTids : patched.tids[t] = EndProcess(ctx, t)
  BY DEF PatchEndTasks
<1>2. patched \in Contexts
  OBVIOUS
<1> HIDE DEF patched
<1>3. \A c \in Cpus : patched.cpus[c].currentTask = None
  <2>1. \A c \in Cpus : EndCpu(ctx.cpus[c], TraceEnd).currentTask = None
    BY DEF EndCpu
  <2> QED
    BY <1>1, <2>1
<1>4. /\ \A c \in Cpus : /\ EndCpu(patched.cpus[c], TraceEnd).present = patched.cpus[c].present
                         /\ EndCpu(patched.cpus[c], TraceEnd).cpu_ns = patched.cpus[c].cpu_ns
      /\ \A t \in AllTids : EndProcess(patched, t) = patched.tids[t]
  BY <1>2, <1>3, PatchTwice, ZenonT(30)
<1> QED
  BY <1>1, <1>3, <1>4 DEF patched

(* Whichever analysis ends first, both charge the same by the end.         *)
LEMMA SameEnd ==
  ASSUME SameInv, End, data' = data, ended' = ended
  PROVE  SameInv'
<1>1. /\ IInv /\ SerialInv /\ phase = "reduced" /\ phase' = "done"
      /\ final' = PatchEndTasks(final) /\ work' = work
      /\ running' = running /\ now' = now
  BY DEF SameInv, End
<1>2. IInv'
  BY <1>1, EndRefines
<1>3. SerialInv'
  BY <1>1 DEF SerialInv, SerialWithin, SerialTracks, OneCpu
<1>4. Labels'
  BY <1>1 DEF SameInv, Labels, Recorded, Entries
<1>5. final \in Contexts /\ PatchEndTasks(final) \in Contexts /\ final.end = TraceEnd
  BY <1>1, <1>2 DEF IInv, TypeOK, Spans
<1>6. /\ \A c \in Cpus :
           /\ EndCpu(final'.cpus[c], TraceEnd).present = EndCpu(final.cpus[c], TraceEnd).present
           /\ EndCpu(final'.cpus[c], TraceEnd).cpu_ns = EndCpu(final.cpus[c], TraceEnd).cpu_ns
      /\ \A t \in AllTids : EndProcess(final', t) = EndProcess(final, t)
  BY <1>1, <1>5, PatchedOwes
<1>7. Together' /\ Owed'
  BY <1>1, <1>6 DEF SameInv, Together, Owed
<1> QED
  BY <1>2, <1>3, <1>4, <1>7 DEF SameInv

(* The end of the serial analysis reports the usage of its specification.  *)
LEMMA SameSerialEnd ==
  ASSUME SameInv, SerialEnd
  PROVE  SameInv'
<1>1. /\ IInv /\ SerialInv /\ phase # "map" /\ phase' = phase /\ ended'
      /\ data' = PatchEndTasks(data) /\ work' = work /\ final' = final /\ chunk' = chunk
      /\ running' = running /\ now' = now
  BY SerialEndIs DEF SameInv, SerialEnd
<1>2. SerialInv'
  BY <1>1, SerialEndRefines DEF SerialEnd
<1>3. IInv'
  BY <1>1 DEF IInv, TypeOK, Spans, OneCpu, Seen, Left, Alone, Phases
<1>4. Labels'
  BY <1>1 DEF SameInv, Labels, Recorded, Entries
<1>5. data \in Contexts /\ PatchEndTasks(data) \in Contexts /\ data.end = TraceEnd
  BY <1>1, <1>2 DEF SerialInv, SerialWithin
<1>6. /\ \A c \in Cpus :
           /\ EndCpu(data'.cpus[c], TraceEnd).present = EndCpu(data.cpus[c], TraceEnd).present
           /\ EndCpu(data'.cpus[c], TraceEnd).cpu_ns = EndCpu(data.cpus[c], TraceEnd).cpu_ns
      /\ \A t \in AllTids : EndProcess(data', t) = EndProcess(data, t)
  BY <1>1, <1>5, PatchedOwes
<1>7. Together' /\ Owed'
  BY <1>1, <1>6 DEF SameInv, Together, Owed
<1> QED
  BY <1>2, <1>3, <1>4, <1>7 DEF SameInv

(* Every step of the two analyses keeps both usages equal.                 *)
LEMMA SameStep ==
  ASSUME ~Lossy
  PROVE  SameInv /\ [BothNext]_bothVars => SameInv'
<1> SUFFICES ASSUME SameInv, [BothNext]_bothVars PROVE SameInv'
  OBVIOUS
<1>1. ASSUME NEW c \in Cpus, NEW next \in AllTids, NEW ts \in now .. TraceEnd,
             NEW comm \in Comms, MapEvent(c, next, comm, ts), Serial!Event(c, next, comm, ts)
      PROVE  SameInv'
  BY <1>1, SameEvent
<1>2. ASSUME NEW c \in Cpus, NEW next \in AllTids, NEW ts \in now .. TraceEnd,
             DiscardedEvent(c, next, ts)
      PROVE  FALSE
  BY <1>2 DEF DiscardedEvent
<1>3. CASE Reduce /\ data' = data /\ ended' = ended
  BY <1>3, SameReduce
<1>4. CASE End /\ data' = data /\ ended' = ended
  BY <1>4, SameEnd
<1>5. CASE SerialEnd
  BY <1>5, SameSerialEnd
<1>6. CASE UNCHANGED bothVars
  <2>1. IInv'
    BY <1>6 DEF SameInv, bothVars, vars, IInv, TypeOK, Spans, OneCpu, Seen, Left, Alone, Phases
  <2>2. SerialInv' /\ Labels'
    BY <1>6 DEF SameInv, bothVars, vars, SerialInv, SerialWithin, SerialTracks, OneCpu,
                Labels, Recorded, Entries
  <2>3. Together' /\ Owed'
    BY <1>6 DEF SameInv, bothVars, vars, Together, Owed, Since, Busy, Spent, Name, CpuNow,
                ThreadNow, Serial!Since, Serial!Busy, Serial!Spent, Serial!Name
  <2> QED
    BY <2>1, <2>2, <2>3 DEF SameInv
<1> QED
  BY <1>1, <1>2, <1>3, <1>4, <1>5, <1>6, StepsOfBoth

(* Wherever the trace is cut, the parallel analysis reports what the       *)
(* serial one reports (SameReport).                                        *)
THEOREM SameAsSerial ==
  ASSUME ~Lossy
  PROVE  BothSpec => []SameReport
<1>1. SameInv => SameReport
  <2> SUFFICES ASSUME SameInv, phase = "done", ended PROVE SameReport
    BY DEF SameReport
  <2>1. /\ final \in Contexts /\ \A c \in Cpus : final.cpus[c].currentTask = None
        /\ final.start = TraceBegin /\ final.end = TraceEnd
    BY DEF SameInv, IInv, TypeOK, Spans, Phases
  <2>2. /\ data \in Contexts /\ \A c \in Cpus : data.cpus[c].currentTask = None
        /\ data.start = TraceBegin /\ data.end = TraceEnd
    BY DEF SameInv, SerialInv, SerialWithin
  <2>3. /\ \A c \in Cpus : /\ final.cpus[c].present = data.cpus[c].present
                           /\ final.cpus[c].cpu_ns = data.cpus[c].cpu_ns
        /\ \A t \in AllTids : final.tids[t] = data.tids[t]
    <3>1. /\ \A c \in Cpus :
               /\ EndCpu(final.cpus[c], TraceEnd).present = EndCpu(data.cpus[c], TraceEnd).present
               /\ EndCpu(final.cpus[c], TraceEnd).cpu_ns = EndCpu(data.cpus[c], TraceEnd).cpu_ns
          /\ \A t \in AllTids : EndProcess(final, t) = EndProcess(data, t)
      BY DEF SameInv, Owed
    <3>2. /\ \A c \in Cpus : /\ EndCpu(final.cpus[c], TraceEnd).present = final.cpus[c].present
                             /\ EndCpu(final.cpus[c], TraceEnd).cpu_ns = final.cpus[c].cpu_ns
          /\ \A t \in AllTids : EndProcess(final, t) = final.tids[t]
      BY <2>1, PatchTwice
    <3>3. /\ \A c \in Cpus : /\ EndCpu(data.cpus[c], TraceEnd).present = data.cpus[c].present
                             /\ EndCpu(data.cpus[c], TraceEnd).cpu_ns = data.cpus[c].cpu_ns
          /\ \A t \in AllTids : EndProcess(data, t) = data.tids[t]
      BY <2>2, PatchTwice
    <3> QED
      BY <3>1, <3>2, <3>3
  <2>4. final.tids = data.tids
    BY <2>1, <2>2, <2>3 DEF Contexts
  <2> QED
    BY <2>1, <2>2, <2>3, <2>4 DEF SameReport
<1> QED
  BY <1>1, SameInit, SameStep, PTL DEF BothSpec
===============================================================================
