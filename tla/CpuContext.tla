------------------------------ MODULE CpuContext ------------------------------
(***************************************************************************)
(* The CPU accounting state and its handlers (src/cpu/cpucontext.h and     *)
(* cpucontext.cpp), as functions from a context to the context the handler *)
(* leaves.  The `cpus` vector and the `tids` hash are functions over every *)
(* CPU and thread; an entry the code has not created is the                *)
(* default-constructed one, with `present` FALSE.  boost::none is None.    *)
(***************************************************************************)
EXTENDS TracedSystem, SequencesExt

CONSTANTS
  None,         (* An empty boost::optional<Task>.                         *)
  NoComm,       (* The empty command name of a new Process.                *)
  UnknownTid    (* UNKNOWN_TID.                                            *)

Task        == [start : Nat, tid : Tids]    (* Cpu::currentTask            *)
UnknownTask == [end : Nat, tid : Tids]      (* Cpu::unknownTask            *)

Cpu == [present : BOOLEAN, cpu_ns : Nat,
        currentTask : Task \cup {None}, unknownTask : UnknownTask \cup {None}]

Process == [present : BOOLEAN, cpu_ns : Nat,
            tid : AllTids \cup {UnknownTid}, comm : Comms \cup {NoComm}]

Contexts == [cpus : [Cpus -> Cpu], tids : [AllTids -> Process], start : Nat, end : Nat]

ASSUME CpuContextAssumption ==
  None \notin Task \cup UnknownTask \cup Nat

NewCpu == [present |-> FALSE, cpu_ns |-> 0, currentTask |-> None, unknownTask |-> None]

NewProcess == [present |-> FALSE, cpu_ns |-> 0, tid |-> UnknownTid, comm |-> NoComm]

(* A constructed context after setStart and setEnd.                        *)
NewContext(start, end) ==
  [cpus  |-> [c \in Cpus |-> NewCpu],
   tids  |-> [t \in AllTids |-> NewProcess],
   start |-> start, end |-> end]

(* The final context QtConcurrent default-constructs for the reduction.    *)
EmptyContext == NewContext(0, 0)

-------------------------------------------------------------------------------
(* Time the CPU's current task has run at ts, 0 when it has none.          *)
Ran(cpu, ts) == IF cpu.currentTask = None THEN 0 ELSE ts - cpu.currentTask.start

(* Wrong on purpose: the `next_pid != 0` test is missing; currentTask is   *)
(* not reset when the CPU goes idle.                                       *)
NextTaskTimesIdle(cpu, e) == [start |-> e.timestamp, tid |-> e.next_tid]

NextTaskKeepsCurrent(cpu, e) ==
  IF e.next_tid # Idle THEN [start |-> e.timestamp, tid |-> e.next_tid] ELSE cpu.currentTask

NextTask(cpu, e) ==
  IF e.next_tid # Idle THEN [start |-> e.timestamp, tid |-> e.next_tid] ELSE None

SwitchCpu(cpu, e) ==
  [present     |-> TRUE,
   cpu_ns      |-> cpu.cpu_ns + Ran(cpu, e.timestamp),
   unknownTask |-> IF cpu.currentTask = None /\ e.prev_tid # Idle
                   THEN [end |-> e.timestamp, tid |-> e.prev_tid]
                   ELSE cpu.unknownTask,
   currentTask |-> NextTask(cpu, e)]

SwitchProcess(process, e, ran) ==
  [present |-> TRUE,
   cpu_ns  |-> process.cpu_ns + ran,
   tid     |-> IF process.present THEN process.tid ELSE e.prev_tid,
   comm    |-> e.prev_comm]

HandleSchedSwitch(ctx, e) ==
  [cpus  |-> [ctx.cpus EXCEPT ![e.cpu_id] = SwitchCpu(@, e)],
   tids  |-> [ctx.tids EXCEPT ![e.prev_tid] =
                SwitchProcess(@, e, Ran(ctx.cpus[e.cpu_id], e.timestamp))],
   start |-> ctx.start,
   end   |-> ctx.end]

-------------------------------------------------------------------------------
(* The first part of handleEnd: tasks still running are charged up to the  *)
(* end of the trace.  tids[...] default-constructs a Process it lacks.     *)
(* Wrong on purpose: the last run is charged to the CPU only.              *)
NeverStillRunning(ctx, t) == {}

StillRunning(ctx, t) ==
  {c \in Cpus : ctx.cpus[c].currentTask # None /\ ctx.cpus[c].currentTask.tid = t}

EndCpu(cpu, end) ==
  [present     |-> cpu.present,
   cpu_ns      |-> cpu.cpu_ns + Ran(cpu, end),
   currentTask |-> None,
   unknownTask |-> cpu.unknownTask]

EndProcess(ctx, t) ==
  LET process == ctx.tids[t]
      last    == [c \in Cpus |-> Ran(ctx.cpus[c], ctx.end)]
  IN  [present |-> process.present \/ StillRunning(ctx, t) # {},
       cpu_ns  |-> process.cpu_ns + SumFunctionOnSet(last, StillRunning(ctx, t)),
       tid     |-> process.tid,
       comm    |-> process.comm]

PatchEndTasks(ctx) ==
  [cpus  |-> [c \in Cpus |-> EndCpu(ctx.cpus[c], ctx.end)],
   tids  |-> [t \in AllTids |-> EndProcess(ctx, t)],
   start |-> ctx.start,
   end   |-> ctx.end]

(* The second part: sortedTids, any listing of the hash by decreasing CPU  *)
(* time (the iteration order of a QHash, hence of equals, is arbitrary).   *)
(* Wrong on purpose: the comparison the other way round.                   *)
Lighter(p, q) == p.cpu_ns <= q.cpu_ns

Heavier(p, q) == p.cpu_ns >= q.cpu_ns

SortedTids(ctx) ==
  {l \in SetToSeqs({t \in AllTids : ctx.tids[t].present}) :
     IsSorted(l, LAMBDA a, b : Heavier(ctx.tids[a], ctx.tids[b]))}

-------------------------------------------------------------------------------
(* merge: `this` is the reduction so far, `other` the next chunk.          *)

(* A task left running by `this` and switched out by `other`.              *)
Continued(this, other, c) ==
  /\ this.cpus[c].currentTask # None
  /\ other.cpus[c].unknownTask # None

(* Wrong on purpose: a run that crosses the boundary is not charged.       *)
NoTaskTime(this, other, c) == 0

TaskTime(this, other, c) ==
  IF Continued(this, other, c)
  THEN other.cpus[c].unknownTask.end - this.cpus[c].currentTask.start
  ELSE 0

SameTask(this, other, c) ==
  this.cpus[c].currentTask.tid = other.cpus[c].unknownTask.tid

(* Wrong on purpose: a currentTask whose end was found is kept too.        *)
KeepsMatched(old, new) == old.currentTask # None

KeepsTask(old, new) == old.currentTask # None /\ new.unknownTask = None

MergeCpu(this, other, c) ==
  LET old == this.cpus[c]
      new == other.cpus[c]
  IN  [present     |-> old.present \/ new.present,
       cpu_ns      |-> old.cpu_ns + new.cpu_ns + TaskTime(this, other, c),
       unknownTask |-> old.unknownTask,
       currentTask |-> IF KeepsTask(old, new) THEN old.currentTask ELSE new.currentTask]

(* The CPUs on which the merge completes a run of thread t.  Wrong on      *)
(* purpose: it charges none; it does not compare the two threads.          *)
NeverCompletedOn(this, other, t) == {}

CompletedOnEither(this, other, t) ==
  {c \in Cpus : /\ Continued(this, other, c)
                /\ t \in {this.cpus[c].currentTask.tid, other.cpus[c].unknownTask.tid}}

CompletedOn(this, other, t) ==
  {c \in Cpus : /\ Continued(this, other, c)
                /\ SameTask(this, other, c)
                /\ this.cpus[c].currentTask.tid = t}

(* Wrong on purpose: the name first seen is kept.                          *)
MergedNameKept(old, new) == IF old.present THEN old.comm ELSE new.comm

MergedName(old, new) == IF new.present THEN new.comm ELSE old.comm

MergeProcess(this, other, t) ==
  LET old == this.tids[t]
      new == other.tids[t]
  IN  [present |-> old.present \/ new.present \/ CompletedOn(this, other, t) # {},
       cpu_ns  |-> old.cpu_ns + new.cpu_ns
                   + SumFunctionOnSet([c \in Cpus |-> TaskTime(this, other, c)],
                                      CompletedOn(this, other, t)),
       tid     |-> IF old.present THEN old.tid ELSE new.tid,
       comm    |-> MergedName(old, new)]

(* Wrong on purpose: no `start == 0` test; no other test.                  *)
MergedStartWithoutTest(this, other) ==
  IF other.start < this.start THEN other.start ELSE this.start

MergedStartOfFirst(this, other) == IF this.start = 0 THEN other.start ELSE this.start

MergedStart(this, other) ==
  IF other.start < this.start \/ this.start = 0 THEN other.start ELSE this.start

Merge(this, other) ==
  [cpus  |-> [c \in Cpus |-> MergeCpu(this, other, c)],
   tids  |-> [t \in AllTids |-> MergeProcess(this, other, t)],
   start |-> MergedStart(this, other),
   end   |-> IF other.end > this.end THEN other.end ELSE this.end]

-------------------------------------------------------------------------------
(* What a context charges the CPUs together, and the threads together.     *)
CpuTotal(ctx) == SumFunction([c \in Cpus |-> ctx.cpus[c].cpu_ns])
TidTotal(ctx) == SumFunction([t \in AllTids |-> ctx.tids[t].cpu_ns])
===============================================================================
